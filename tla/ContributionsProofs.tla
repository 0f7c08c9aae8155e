------------------------- MODULE ContributionsProofs -------------------------
(***************************************************************************)
(* OwedIsKept, ClaimsHold and EditsAreHonoured of Contributions, for any   *)
(* number of requests, sends, facts, updates and faults.                   *)
(***************************************************************************)
EXTENDS Contributions, SequenceTheorems, WellFoundedInduction, TLAPS

-----------------------------------------------------------------------------
(* The invariant *)

\* A row's number is its own, and it is not one that was rescinded.
Numbered ==
    /\ \A i, k \in Ids : items[i].n = items[k].n => i = k
    /\ \A i \in Ids : items[i].n \notin gone

\* What a send has in hand, and where it has it.
HandOf(J) == J.claimed \cup J.kept \cup J.chunk

Shaped(J) ==
    /\ J.at \in {"queued", "ended"} => J.session = 0 /\ J.covered = 0 /\ HandOf(J) = {}
    /\ J.at = "gate" => J.kept = {} /\ J.chunk = {} /\ J.claimed # {}
    /\ J.at \in {"look", "log"} => J.chunk = {} /\ J.claimed # {}
    /\ J.at \in {"post", "complete"} => J.claimed = {}
    /\ J.at = "fail" => J.claimed = {} /\ J.chunk = {}
    /\ J.claimed \cap J.kept = {} /\ J.kept \cap J.chunk = {}
    /\ \A r, q \in HandOf(J) : r.id = q.id => r = q

Shapes == \A j \in DOMAIN jobs : Shaped(jobs[j]) /\ jobs[j].session <= mirror.session

\* What a send has in hand is in the store, as long as its handle lives.
Backed(j) ==
    Alive(jobs[j].session) =>
        \A r \in Hand(j) : r.id \in Ids /\ items[r.id].status = "sending" /\ items[r.id].n = r.n

\* A number names one edit, in the store and in every hand, whether its handle lives or not.
OneEdit ==
    /\ \A j \in DOMAIN jobs : \A r \in Hand(j) : r.n <= staged
    /\ \A j, k \in DOMAIN jobs : \A r \in Hand(j), q \in Hand(k) : r.n = q.n => r.edit = q.edit
    /\ \A j \in DOMAIN jobs : \A r \in Hand(j), i \in Ids : r.n = items[i].n => r.edit = items[i].edit

\* A send whose handle lives owns the rows it has in hand: each has one owner, and those that are on
\* their way have one.
Owns(j, i) == Alive(jobs[j].session) /\ \E r \in Hand(j) : r.id = i

Claimed ==
    /\ Numbered /\ OneEdit
    /\ \A j \in DOMAIN jobs : Backed(j)
    /\ \A j, k \in DOMAIN jobs : \A i \in Ids : Owns(j, i) /\ Owns(k, i) => j = k
    /\ mirror.open => \A i \in Ids : items[i].status = "sending" => \E j \in DOMAIN jobs : Owns(j, i)

\* The index is that of the update it has come to.
Covers == mirror.covered # 0 => mirror.index = updates[mirror.covered]

\* Only a removal of a mapping is looked up in the ledger, and only when the index was without the
\* mapping at some update no older than the coverage the send has noted.
AtLog(j) == JobAt(j, "log") => Current(j).edit.ask = "take" /\ Current(j).edit.of \in Mappings

Seen(j) ==
    Alive(jobs[j].session) =>
        /\ jobs[j].covered <= mirror.covered
        /\ JobAt(j, "log") =>
             \/ jobs[j].covered = 0
             \/ \E u \in jobs[j].covered .. Len(updates) : Current(j).edit.of \notin updates[u]

Looking == Covers /\ \A j \in DOMAIN jobs : Seen(j) /\ AtLog(j)

Inv ==
    /\ TypeOK /\ mirror.session # 0
    /\ OwedIsKept /\ Shapes /\ Claimed /\ Looking

-----------------------------------------------------------------------------
(* Lemmas about the operators *)

LEMMA LeastNumber ==
    ASSUME NEW T \in SUBSET Nat, T # {}
    PROVE  \E x \in T : \A y \in T : x <= y
  <1>1. IsWellFoundedOn({ss \in Nat \X Nat : ss[1] < ss[2]}, Nat)
    BY NatLessThanWellFounded DEF OpToRel
  <1>2. PICK x \in T : \A y \in T : <<y, x>> \notin {ss \in Nat \X Nat : ss[1] < ss[2]}
    BY <1>1, WFMin
  <1>3. ASSUME NEW y \in T PROVE x <= y
    <2>1. SUFFICES ASSUME y < x PROVE FALSE
      BY SMT
    <2>2. QED
      BY <1>2, <2>1
  <1>4. QED
    BY <1>3

LEMMA LargestNumber ==
    ASSUME NEW n \in Nat, NEW S \in SUBSET (0 .. n), S # {}
    PROVE  Max(S) \in S /\ \A y \in S : y <= Max(S)
  <1> DEFINE Gap == {n - x : x \in S}
  <1>1. Gap \in SUBSET Nat /\ Gap # {}
    <2>1. \A x \in S : n - x \in Nat
      OBVIOUS
    <2>2. QED
      BY <2>1
  <1>2. PICK g \in Gap : \A h \in Gap : g <= h
    BY <1>1, LeastNumber
  <1>3. PICK x \in S : g = n - x
    OBVIOUS
  <1>4. \A y \in S : x >= y
    BY <1>2, <1>3
  <1>5. \A y \in S : Max(S) >= y /\ Max(S) \in S
    BY <1>4 DEF Max
  <1>6. QED
    BY <1>5

\* A new id is no row's, and ids run no further ahead than rows are staged.
LEMMA NewIdIsNew ==
    ASSUME TypeOK
    PROVE  NewId \notin Ids /\ NewId \in 1 .. staged + 1
  <1> DEFINE S == {0} \cup Ids
  <1>1. staged \in Nat /\ S \in SUBSET (0 .. staged) /\ S # {}
    BY DEF TypeOK
  <1>2. Max(S) \in S /\ \A y \in S : y <= Max(S)
    BY <1>1, LargestNumber
  <1>3. NewId = Max(S) + 1
    BY DEF NewId
  <1>4. QED
    BY <1>1, <1>2, <1>3

\* The row a re-check is at is one of those it has to check.
LEMMA CurrentIsClaimed ==
    ASSUME jobs \in Seq(Sends), NEW j \in DOMAIN jobs, jobs[j].claimed # {}
    PROVE  Current(j) \in jobs[j].claimed /\ Current(j) \in Claims
  <1> DEFINE C == jobs[j].claimed
             T == {r.id : r \in C}
  <1>0. jobs[j] \in Sends
    OBVIOUS
  <1>1. C \in SUBSET Claims
    BY ONLY <1>0 DEF Sends
  <1>2. T \in SUBSET Nat /\ T # {}
    BY <1>1 DEF Claims
  <1>3. PICK x \in T : \A y \in T : x <= y
    BY <1>2, LeastNumber
  <1>4. \E r \in C : \A q \in C : r.id <= q.id
    BY <1>3
  <1>5. QED
    BY <1>1, <1>4 DEF Current

LEMMA MarkedRows ==
    ASSUME NEW ids, NEW status
    PROVE  /\ DOMAIN Marked(ids, status) = Ids
           /\ \A i \in Ids : i \notin ids => Marked(ids, status)[i] = items[i]
           /\ \A i \in Ids : items[i] \in Items =>
                /\ Marked(ids, status)[i].n = items[i].n /\ Marked(ids, status)[i].edit = items[i].edit
                /\ i \in ids => Marked(ids, status)[i].status = status
                /\ status \in {"staged", "sending", "failed"} => Marked(ids, status)[i] \in Items
  BY DEF Marked, Items, Ids

LEMMA RowsWithout ==
    ASSUME NEW ids
    PROVE  /\ DOMAIN Without(ids) = Ids \ ids
           /\ \A i \in Ids \ ids : Without(ids)[i] = items[i]
  BY DEF Without

LEMMA NewJobIsEmpty ==
    ASSUME NEW ids \in SUBSET Nat, NEW backlog \in BOOLEAN
    PROVE  /\ NewJob(ids, backlog) \in Sends /\ Shaped(NewJob(ids, backlog))
           /\ HandOf(NewJob(ids, backlog)) = {} /\ NewJob(ids, backlog).session = 0
           /\ NewJob(ids, backlog).at = "queued"
  BY DEF NewJob, Sends, Shaped, HandOf

LEMMA EndedJob ==
    ASSUME jobs \in Seq(Sends), NEW j \in DOMAIN jobs
    PROVE  /\ Ended(j) \in Sends /\ Shaped(Ended(j)) /\ HandOf(Ended(j)) = {}
           /\ Ended(j).session = 0 /\ Ended(j).at = "ended"
  <1>0. jobs[j] \in Sends
    OBVIOUS
  <1>1. jobs[j].ids \in SUBSET Nat /\ jobs[j].backlog \in BOOLEAN
    BY ONLY <1>0 DEF Sends
  <1>2. QED
    BY <1>1 DEF Ended, NewJob, Sends, Shaped, HandOf

\* One send changes and the others stay.
Becomes(j, J) == J \in Sends /\ jobs' = [jobs EXCEPT ![j] = J]

LEMMA OneJobChanges ==
    ASSUME jobs \in Seq(Sends), NEW j \in DOMAIN jobs, NEW J, Becomes(j, J)
    PROVE  /\ jobs' \in Seq(Sends) /\ DOMAIN jobs' = DOMAIN jobs
           /\ jobs'[j] = J /\ \A k \in DOMAIN jobs : k # j => jobs'[k] = jobs[k]
  BY DEF Becomes

LEMMA JobIsAdded ==
    ASSUME jobs \in Seq(Sends), NEW J \in Sends, jobs' = Append(jobs, J)
    PROVE  /\ jobs' \in Seq(Sends) /\ DOMAIN jobs' = DOMAIN jobs \cup {Len(jobs) + 1}
           /\ jobs'[Len(jobs) + 1] = J /\ \A k \in DOMAIN jobs : k # Len(jobs) + 1 /\ jobs'[k] = jobs[k]
  BY AppendProperties

-----------------------------------------------------------------------------
(* What keeps the claims *)

\* A send gives up rows: they leave the store, or are not on their way any more.
GivesUp(j, J) ==
    /\ HandOf(J) \subseteq Hand(j)
    /\ J.session = jobs[j].session \/ (J.session = 0 /\ HandOf(J) = {})
    /\ Ids' \subseteq Ids
    /\ \A i \in Ids' : /\ items'[i].n = items[i].n /\ items'[i].edit = items[i].edit
                       /\ items'[i].status = "sending" => items[i].status = "sending"
    /\ \A i \in Ids : ~Alive(jobs[j].session) \/ (\A r \in Hand(j) \ HandOf(J) : r.id # i)
                        => i \in Ids' /\ items'[i] = items[i]
    /\ Alive(jobs[j].session) =>
         \A r \in Hand(j) \ HandOf(J) : r.id \in Ids' => items'[r.id].status # "sending"

LEMMA GivingUpKeepsClaims ==
    ASSUME jobs \in Seq(Sends), mirror.session # 0, Shapes, Claimed,
           NEW j \in DOMAIN jobs, NEW J, Becomes(j, J), GivesUp(j, J),
           mirror' = mirror, gone' = gone, staged' = staged
    PROVE  Claimed'
  <1>1. /\ DOMAIN jobs' = DOMAIN jobs /\ jobs'[j] = J
        /\ \A k \in DOMAIN jobs : k # j => jobs'[k] = jobs[k]
    BY OneJobChanges
  <1>2. \A k \in DOMAIN jobs : k # j => Hand(k)' = Hand(k) /\ jobs'[k].session = jobs[k].session
    BY <1>1 DEF Hand
  <1>3. /\ Hand(j)' = HandOf(J) /\ Hand(j)' \subseteq Hand(j)
        /\ jobs'[j].session = jobs[j].session \/ (jobs'[j].session = 0 /\ Hand(j)' = {})
    BY <1>1 DEF Hand, HandOf, GivesUp
  <1>4. \A n : Alive(n)' = Alive(n)
    BY DEF Alive
  <1>5. ~Alive(0)
    BY DEF Alive
  <1>6. ASSUME NEW k \in DOMAIN jobs, NEW i, Owns(k, i)' PROVE Owns(k, i)
    BY <1>2, <1>3, <1>4, <1>5, <1>6 DEF Owns
  <1>7. Numbered'
    BY DEF Claimed, Numbered, GivesUp
  <1>8. OneEdit'
    <2>1. \A k \in DOMAIN jobs : Hand(k)' \subseteq Hand(k)
      BY <1>2, <1>3
    <2>2. \A i \in Ids' : i \in Ids /\ items'[i].n = items[i].n /\ items'[i].edit = items[i].edit
      BY DEF GivesUp
    <2>3. OneEdit
      BY DEF Claimed
    <2>4. \A k \in DOMAIN jobs' : \A r \in Hand(k)' : r.n <= staged'
      BY <1>1, <2>1, <2>3 DEF OneEdit
    <2>5. \A k, m \in DOMAIN jobs' : \A r \in Hand(k)', q \in Hand(m)' : r.n = q.n => r.edit = q.edit
      BY <1>1, <2>1, <2>3 DEF OneEdit
    <2>6. \A k \in DOMAIN jobs' : \A r \in Hand(k)', i \in Ids' : r.n = items'[i].n => r.edit = items'[i].edit
      BY <1>1, <2>1, <2>2, <2>3 DEF OneEdit
    <2>7. QED
      BY <2>4, <2>5, <2>6 DEF OneEdit
  <1>9. ASSUME NEW k \in DOMAIN jobs PROVE Backed(k)'
    <2>1. SUFFICES ASSUME Alive(jobs[k].session)', NEW r \in Hand(k)'
                   PROVE  r.id \in Ids' /\ items'[r.id].status = "sending" /\ items'[r.id].n = r.n
      BY DEF Backed
    <2>2. r \in Hand(k) /\ Alive(jobs[k].session) /\ jobs'[k].session = jobs[k].session
      BY <1>2, <1>3, <1>5, <2>1 DEF Alive
    <2>3. r.id \in Ids /\ items[r.id].status = "sending" /\ items[r.id].n = r.n
      BY <2>2 DEF Claimed, Backed
    <2>4. CASE k = j
      <3>1. Shaped(jobs[j])
        BY DEF Shapes
      <3>2. \A q \in Hand(j) : q.id = r.id => q = r
        BY <2>2, <2>4, <3>1 DEF Shaped, Hand, HandOf
      <3>3. \A q \in Hand(j) \ HandOf(J) : q.id # r.id
        BY <1>3, <2>1, <2>4, <3>2
      <3>4. QED
        BY <2>3, <3>3 DEF GivesUp
    <2>5. CASE k # j
      <3>1. Owns(k, r.id)
        BY <2>2 DEF Owns
      <3>2. ~Owns(j, r.id)
        BY <2>3, <2>5, <3>1 DEF Claimed
      <3>3. ~Alive(jobs[j].session) \/ (\A q \in Hand(j) \ HandOf(J) : q.id # r.id)
        BY <3>2 DEF Owns
      <3>4. QED
        BY <2>3, <3>3 DEF GivesUp
    <2>6. QED
      BY <2>4, <2>5
  <1>10. \A k, m \in DOMAIN jobs' : \A i \in Ids' : Owns(k, i)' /\ Owns(m, i)' => k = m
    <2>1. Ids' \subseteq Ids
      BY DEF GivesUp
    <2>2. QED
      BY <1>1, <1>6, <2>1 DEF Claimed
  <1>11. ASSUME mirror'.open, NEW i \in Ids', items'[i].status = "sending"
         PROVE  \E k \in DOMAIN jobs' : Owns(k, i)'
    <2>1. i \in Ids /\ items[i].status = "sending"
      BY <1>11 DEF GivesUp
    <2>2. PICK k \in DOMAIN jobs : Owns(k, i)
      BY <1>11, <2>1 DEF Claimed
    <2>3. CASE k # j
      BY <1>1, <1>2, <1>4, <2>2, <2>3 DEF Owns
    <2>4. CASE k = j
      <3>1. PICK r \in Hand(j) : r.id = i
        BY <2>2, <2>4 DEF Owns
      <3>2. Alive(jobs[j].session)
        BY <2>2, <2>4 DEF Owns
      <3>3. r \in HandOf(J)
        BY <1>11, <3>1, <3>2 DEF GivesUp
      <3>4. r \in Hand(j)' /\ jobs'[j].session = jobs[j].session
        BY <1>3, <3>3
      <3>5. Owns(j, i)'
        BY <1>4, <3>1, <3>2, <3>4 DEF Owns
      <3>6. QED
        BY <1>1, <3>5
    <2>5. QED
      BY <2>3, <2>4
  <1>12. QED
    BY <1>1, <1>7, <1>8, <1>9, <1>10, <1>11 DEF Claimed

\* Sends come, end or go back to the queue with nothing in hand.
LEMMA EmptyHandsKeepClaims ==
    ASSUME Claimed, DOMAIN jobs \subseteq DOMAIN jobs',
           \A k \in DOMAIN jobs : jobs'[k] = jobs[k] \/ (Hand(k) = {} /\ Hand(k)' = {}),
           \A k \in DOMAIN jobs' \ DOMAIN jobs : Hand(k)' = {},
           mirror'.open = mirror.open, mirror'.session = mirror.session,
           items' = items, gone' = gone, staged' = staged
    PROVE  Claimed'
  <1>1. \A k \in DOMAIN jobs : Hand(k)' = Hand(k)
    BY DEF Hand
  <1>2. \A k \in DOMAIN jobs' : \A r \in Hand(k)' :
           k \in DOMAIN jobs /\ r \in Hand(k) /\ jobs'[k] = jobs[k]
    BY <1>1
  <1>3. Ids' = Ids
    BY DEF Ids
  <1>4. Numbered'
    BY <1>3 DEF Claimed, Numbered
  <1>5. OneEdit'
    BY <1>2, <1>3 DEF Claimed, OneEdit
  <1>6. \A k \in DOMAIN jobs' : Backed(k)'
    BY <1>2, <1>3 DEF Claimed, Backed, Alive
  <1>7. \A k \in DOMAIN jobs', i \in Ids' : Owns(k, i)' => k \in DOMAIN jobs /\ Owns(k, i)
    BY <1>2 DEF Owns, Alive
  <1>8. \A k \in DOMAIN jobs, i \in Ids : Owns(k, i) => k \in DOMAIN jobs' /\ Owns(k, i)'
    BY <1>1, <1>2 DEF Owns, Alive
  <1>9. \A k, m \in DOMAIN jobs' : \A i \in Ids' : Owns(k, i)' /\ Owns(m, i)' => k = m
    BY <1>3, <1>7 DEF Claimed
  <1>10. mirror'.open => \A i \in Ids' : items'[i].status = "sending" => \E k \in DOMAIN jobs' : Owns(k, i)'
    BY <1>3, <1>8 DEF Claimed
  <1>11. QED
    BY <1>4, <1>5, <1>6, <1>9, <1>10 DEF Claimed

\* The store closes or starts anew: no send that was under way has a handle on it.
LEMMA DeadHandlesKeepClaims ==
    ASSUME Claimed, DOMAIN jobs' = DOMAIN jobs,
           \A k \in DOMAIN jobs : Hand(k)' \subseteq Hand(k) /\ ~Alive(jobs[k].session)',
           Ids' \subseteq Ids,
           \A i \in Ids' : items'[i].n = items[i].n /\ items'[i].edit = items[i].edit,
           mirror'.open => \A i \in Ids' : items'[i].status # "sending",
           gone' = gone, staged' = staged
    PROVE  Claimed'
  <1>1. Numbered'
    BY DEF Claimed, Numbered
  <1>2. OneEdit'
    <2>1. OneEdit
      BY DEF Claimed
    <2>2. \A k \in DOMAIN jobs' : \A r \in Hand(k)' : r.n <= staged'
      BY <2>1 DEF OneEdit
    <2>3. \A k, m \in DOMAIN jobs' : \A r \in Hand(k)', q \in Hand(m)' : r.n = q.n => r.edit = q.edit
      BY <2>1 DEF OneEdit
    <2>4. \A k \in DOMAIN jobs' : \A r \in Hand(k)', i \in Ids' : r.n = items'[i].n => r.edit = items'[i].edit
      BY <2>1 DEF OneEdit
    <2>5. QED
      BY <2>2, <2>3, <2>4 DEF OneEdit
  <1>3. \A k \in DOMAIN jobs' : Backed(k)'
    BY DEF Backed
  <1>4. \A k \in DOMAIN jobs', i \in Ids' : ~Owns(k, i)'
    BY DEF Owns
  <1>5. QED
    BY <1>1, <1>2, <1>3, <1>4 DEF Claimed

\* A row is staged.
LEMMA StagingKeepsClaims ==
    ASSUME TypeOK, Claimed, jobs' = jobs, mirror' = mirror, gone' = gone, staged' = staged + 1,
           NEW id, id \notin Ids, Ids' = Ids \cup {id},
           \A i \in Ids : items'[i] = items[i],
           items'[id].n = staged + 1, items'[id].status = "staged"
    PROVE  Claimed'
  <1>1. /\ staged \in Nat /\ gone \subseteq 1 .. staged /\ \A i \in Ids : items[i].n \in 1 .. staged
        /\ \A k \in DOMAIN jobs : jobs[k] \in Sends
    BY DEF TypeOK
  <1>2. Numbered'
    BY <1>1 DEF Claimed, Numbered
  <1>3. \A k \in DOMAIN jobs : Hand(k)' = Hand(k) /\ Alive(jobs[k].session)' = Alive(jobs[k].session)
    BY DEF Hand, Alive
  <1>4. \A k \in DOMAIN jobs : Hand(k) \subseteq Claims
    BY <1>1 DEF Hand, Sends
  <1>5. OneEdit'
    <2>1. OneEdit
      BY DEF Claimed
    <2>2. \A k \in DOMAIN jobs : \A r \in Hand(k) : r.n \in Nat /\ r.n <= staged
      BY <1>4, <2>1 DEF OneEdit, Claims
    <2>3. \A k \in DOMAIN jobs : \A r \in Hand(k) : r.n <= staged'
      BY <1>1, <2>2
    <2>4. \A k \in DOMAIN jobs : \A r \in Hand(k), i \in Ids' : r.n = items'[i].n => r.edit = items'[i].edit
      <3>1. \A k \in DOMAIN jobs : \A r \in Hand(k) : r.n # items'[id].n
        BY <1>1, <2>2
      <3>2. QED
        BY <2>1, <3>1 DEF OneEdit
    <2>5. QED
      BY <1>3, <2>1, <2>3, <2>4 DEF OneEdit
  <1>6. \A k \in DOMAIN jobs : Backed(k)'
    BY <1>3 DEF Claimed, Backed
  <1>7. \A k \in DOMAIN jobs : \A i : Owns(k, i)' <=> Owns(k, i)
    BY <1>3 DEF Owns
  <1>8. \A k \in DOMAIN jobs : ~Owns(k, id)
    BY DEF Claimed, Backed, Owns
  <1>9. QED
    BY <1>2, <1>5, <1>6, <1>7, <1>8 DEF Claimed

\* Rows that are not on their way are rescinded.
LEMMA RescindingKeepsClaims ==
    ASSUME Claimed, jobs' = jobs, mirror' = mirror, staged' = staged,
           NEW ids, ids \subseteq Unsent, items' = Without(ids), gone' = gone \cup Rows(ids)
    PROVE  Claimed'
  <1>1. /\ Ids' = Ids \ ids /\ \A i \in Ids \ ids : items'[i] = items[i]
        /\ ids \subseteq Ids /\ \A i \in ids : items[i].status # "sending"
    BY RowsWithout DEF Unsent, Ids
  <1>2. Numbered'
    BY <1>1 DEF Claimed, Numbered, Rows
  <1>3. \A k \in DOMAIN jobs : Hand(k)' = Hand(k) /\ Alive(jobs[k].session)' = Alive(jobs[k].session)
    BY DEF Hand, Alive
  <1>4. OneEdit'
    BY <1>1, <1>3 DEF Claimed, OneEdit
  <1>5. \A k \in DOMAIN jobs : Backed(k)'
    BY <1>1, <1>3 DEF Claimed, Backed
  <1>6. \A k \in DOMAIN jobs : \A i : Owns(k, i)' <=> Owns(k, i)
    BY <1>3 DEF Owns
  <1>7. QED
    BY <1>1, <1>2, <1>4, <1>5, <1>6 DEF Claimed

\* A send claims rows that are not on their way.
LEMMA ClaimingKeepsClaims ==
    ASSUME TypeOK, mirror.session # 0, mirror.open, Shapes, Claimed,
           NEW j \in DOMAIN jobs, NEW J, Becomes(j, J), jobs[j].at = "queued",
           NEW ids, ids \subseteq Unsent, items' = Marked(ids, "sending"),
           J.session = mirror.session, HandOf(J) = {Row(i) : i \in ids},
           mirror' = mirror, gone' = gone, staged' = staged
    PROVE  Claimed'
  <1>1. jobs \in Seq(Sends) /\ \A i \in Ids : items[i] \in Items
    BY DEF TypeOK
  <1>2. /\ DOMAIN jobs' = DOMAIN jobs /\ jobs'[j] = J
        /\ \A k \in DOMAIN jobs : k # j => jobs'[k] = jobs[k]
    BY <1>1, OneJobChanges
  <1>3. ids \subseteq Ids /\ \A i \in ids : items[i].status # "sending"
    BY DEF Unsent
  <1>4. /\ Ids' = Ids /\ \A i \in Ids : i \notin ids => items'[i] = items[i]
        /\ \A i \in Ids : items'[i].n = items[i].n /\ items'[i].edit = items[i].edit
        /\ \A i \in ids : items'[i].status = "sending"
    BY <1>1, <1>3, MarkedRows DEF Ids
  <1>5. /\ Hand(j)' = HandOf(J) /\ \A k \in DOMAIN jobs : k # j => Hand(k)' = Hand(k)
        /\ \A k \in DOMAIN jobs : k # j => Alive(jobs[k].session)' = Alive(jobs[k].session)
    BY <1>2 DEF Hand, HandOf, Alive
  <1>6. /\ \A r \in Hand(j)' : r.id \in ids /\ r.n = items[r.id].n /\ r.edit = items[r.id].edit
        /\ \A i \in ids : \E r \in Hand(j)' : r.id = i
    <2>1. \A i \in ids : Row(i).id = i /\ Row(i).n = items[i].n /\ Row(i).edit = items[i].edit
      BY DEF Row
    <2>2. Hand(j)' = {Row(i) : i \in ids}
      BY <1>5
    <2>3. QED
      BY ONLY <2>1, <2>2
  <1>7. Numbered'
    BY <1>4 DEF Claimed, Numbered
  <1>8. OneEdit'
    <2>1. OneEdit /\ Numbered
      BY DEF Claimed
    <2>2. \A k \in DOMAIN jobs : \A r \in Hand(k)' : r.n <= staged
      <3>1. \A i \in Ids : items[i].n <= staged
        BY DEF TypeOK
      <3>2. \A r \in Hand(j)' : r.n <= staged
        BY <1>3, <1>6, <3>1
      <3>3. \A k \in DOMAIN jobs : k # j => \A r \in Hand(k)' : r.n <= staged
        BY <1>5, <2>1 DEF OneEdit
      <3>4. QED
        BY <3>2, <3>3
    <2>3. \A k \in DOMAIN jobs : \A r \in Hand(k)', i \in Ids : r.n = items[i].n => r.edit = items[i].edit
      <3>1. \A r \in Hand(j)', i \in Ids : r.n = items[i].n => r.edit = items[i].edit
        BY <1>3, <1>6, <2>1 DEF Numbered
      <3>2. \A k \in DOMAIN jobs : k # j => \A r \in Hand(k)', i \in Ids : r.n = items[i].n => r.edit = items[i].edit
        BY <1>5, <2>1 DEF OneEdit
      <3>3. QED
        BY <3>1, <3>2
    <2>4. \A k, m \in DOMAIN jobs : \A r \in Hand(k)', q \in Hand(m)' : r.n = q.n => r.edit = q.edit
      <3>1. \A m \in DOMAIN jobs : \A r \in Hand(j)', q \in Hand(m)' : r.n = q.n => r.edit = q.edit
        BY <1>3, <1>6, <2>3
      <3>2. \A k, m \in DOMAIN jobs : k # j /\ m # j =>
               \A r \in Hand(k)', q \in Hand(m)' : r.n = q.n => r.edit = q.edit
        BY <1>5, <2>1 DEF OneEdit
      <3>3. QED
        BY <3>1, <3>2
    <2>5. QED
      BY <1>2, <1>4, <2>2, <2>3, <2>4 DEF OneEdit
  <1>9. ASSUME NEW k \in DOMAIN jobs PROVE Backed(k)'
    <2>1. CASE k = j
      BY <1>3, <1>4, <1>6, <2>1 DEF Backed
    <2>2. CASE k # j
      <3>1. Alive(jobs[k].session) => \A r \in Hand(k) :
               r.id \in Ids /\ items[r.id].status = "sending" /\ items[r.id].n = r.n
        BY DEF Claimed, Backed
      <3>2. QED
        BY <1>3, <1>4, <1>5, <2>2, <3>1 DEF Backed
    <2>3. QED
      BY <2>1, <2>2
  <1>10. \A k \in DOMAIN jobs : k # j => \A i : Owns(k, i)' <=> Owns(k, i)
    BY <1>5 DEF Owns
  <1>11. \A i : Owns(j, i)' <=> i \in ids
    BY <1>2, <1>6 DEF Owns, Alive
  <1>12. \A k \in DOMAIN jobs, i \in ids : ~Owns(k, i)
    BY <1>3 DEF Claimed, Backed, Owns
  <1>13. ~\E i : Owns(j, i)
    BY DEF Shapes, Shaped, Owns, Hand, HandOf
  <1>14. \A k, m \in DOMAIN jobs : \A i \in Ids : Owns(k, i)' /\ Owns(m, i)' => k = m
    BY <1>10, <1>11, <1>12 DEF Claimed
  <1>15. ASSUME NEW i \in Ids, items'[i].status = "sending" PROVE \E k \in DOMAIN jobs : Owns(k, i)'
    <2>1. CASE i \in ids
      BY <1>11, <2>1
    <2>2. CASE i \notin ids
      BY <1>4, <1>10, <1>13, <1>15, <2>2 DEF Claimed
    <2>3. QED
      BY <2>1, <2>2
  <1>16. QED
    BY <1>2, <1>4, <1>7, <1>8, <1>9, <1>14, <1>15 DEF Claimed

-----------------------------------------------------------------------------
(* What keeps the rest of the invariant *)

LeastOf(C) == CHOOSE r \in C : \A q \in C : r.id <= q.id

LEMMA CurrentIs == \A j : Current(j) = LeastOf(jobs[j].claimed) /\ Current(j)' = LeastOf(jobs'[j].claimed)
  BY DEF Current, LeastOf

SameLook(j) ==
    /\ jobs'[j].at = jobs[j].at /\ jobs'[j].session = jobs[j].session
    /\ jobs'[j].covered = jobs[j].covered /\ jobs'[j].claimed = jobs[j].claimed

\* Sends that are not about to read the ledger, and those that still are.
LEMMA LookingStays ==
    ASSUME Looking, mirror' = mirror, updates' = updates,
           \A k \in DOMAIN jobs' :
              \/ k \in DOMAIN jobs /\ SameLook(k)
              \/ ~JobAt(k, "log")' /\ (Alive(jobs[k].session)' => jobs'[k].covered <= mirror.covered)
    PROVE  Looking'
  <1>1. Covers'
    BY DEF Looking, Covers
  <1>2. ASSUME NEW k \in DOMAIN jobs', k \in DOMAIN jobs, SameLook(k) PROVE Seen(k)' /\ AtLog(k)'
    <2>1. Current(k)' = Current(k)
      BY <1>2, CurrentIs DEF SameLook
    <2>2. /\ JobAt(k, "log")' = JobAt(k, "log") /\ Alive(jobs[k].session)' = Alive(jobs[k].session)
          /\ jobs'[k].covered = jobs[k].covered
      BY <1>2 DEF SameLook, JobAt, Alive
    <2>3. Seen(k) /\ AtLog(k)
      BY <1>2 DEF Looking
    <2>4. AtLog(k)'
      BY <2>1, <2>2, <2>3 DEF AtLog
    <2>5. Seen(k)'
      BY <2>1, <2>2, <2>3 DEF Seen
    <2>6. QED
      BY <2>4, <2>5
  <1>3. ASSUME NEW k \in DOMAIN jobs', ~JobAt(k, "log")', Alive(jobs[k].session)' => jobs'[k].covered <= mirror.covered
        PROVE  Seen(k)' /\ AtLog(k)'
    BY <1>3 DEF Seen, AtLog
  <1>4. QED
    BY <1>1, <1>2, <1>3 DEF Looking

\* No handle on the store lives, and nothing is read from the ledger on.
LEMMA DeadHandlesKeepLooking ==
    ASSUME Looking, Covers', DOMAIN jobs' = DOMAIN jobs,
           \A k \in DOMAIN jobs : jobs'[k] = jobs[k] \/ ~JobAt(k, "log")',
           \A k \in DOMAIN jobs : ~Alive(jobs[k].session)'
    PROVE  Looking'
  <1>1. ASSUME NEW k \in DOMAIN jobs PROVE AtLog(k)'
    <2>1. CASE jobs'[k] = jobs[k]
      <3>1. Current(k)' = Current(k) /\ JobAt(k, "log")' = JobAt(k, "log")
        BY <2>1, CurrentIs DEF JobAt
      <3>2. QED
        BY <3>1 DEF Looking, AtLog
    <2>2. CASE ~JobAt(k, "log")'
      BY <2>2 DEF AtLog
    <2>3. QED
      BY <2>1, <2>2
  <1>2. QED
    BY <1>1 DEF Looking, Seen

LEMMA ShapesStay ==
    ASSUME Shapes, mirror.session \in Nat, mirror'.session \in Nat, mirror.session <= mirror'.session,
           \A k \in DOMAIN jobs : jobs[k] \in Sends,
           \A k \in DOMAIN jobs' :
              \/ k \in DOMAIN jobs /\ jobs'[k] = jobs[k]
              \/ Shaped(jobs'[k]) /\ jobs'[k].session <= mirror'.session
    PROVE  Shapes'
  <1>1. ASSUME NEW k \in DOMAIN jobs, jobs'[k] = jobs[k] PROVE Shaped(jobs'[k]) /\ jobs'[k].session <= mirror'.session
    <2>1. jobs[k].session \in Nat
      BY DEF Sends
    <2>2. QED
      BY <1>1, <2>1 DEF Shapes
  <1>2. \A k \in DOMAIN jobs' : Shaped(jobs'[k]) /\ jobs'[k].session <= mirror'.session
    BY <1>1
  <1>3. QED
    BY <1>2 DEF Shapes

\* The type invariant, part by part.
WorldFits ==
    /\ live \subseteq Facts /\ desk \subseteq Edits
    /\ updates \in Seq(SUBSET Facts) /\ updates # <<>>
    /\ mirror \in Mirrors /\ mirror.covered <= Len(updates)

StoreFits ==
    /\ staged \in Nat /\ Ids \subseteq 1 .. staged
    /\ \A i \in Ids : items[i] \in Items /\ items[i].n \in 1 .. staged
    /\ owed \subseteq 1 .. staged /\ gone \subseteq 1 .. staged

Busy == {"look", "known", "insert", "find", "undoLook", "undoSince"}

RequestsFit ==
    req \in [Callers -> Requests] /\ \A c \in Callers : req[c].at \in Busy => req[c].edits # <<>>

LEMMA TypeParts ==
    /\ TypeOK <=> WorldFits /\ StoreFits /\ ledger \in Seq(Entries) /\ jobs \in Seq(Sends) /\ RequestsFit
    /\ TypeOK' <=> WorldFits' /\ StoreFits' /\ ledger' \in Seq(Entries) /\ jobs' \in Seq(Sends) /\ RequestsFit'
  <1>1. TypeOK <=> WorldFits /\ StoreFits /\ ledger \in Seq(Entries) /\ jobs \in Seq(Sends) /\ RequestsFit
    BY DEF TypeOK, WorldFits, StoreFits, RequestsFit, Busy, At
  <1>2. TypeOK' <=> WorldFits' /\ StoreFits' /\ ledger' \in Seq(Entries) /\ jobs' \in Seq(Sends) /\ RequestsFit'
    BY DEF TypeOK, WorldFits, StoreFits, RequestsFit, Busy, At
  <1>3. QED
    BY <1>1, <1>2

LEMMA WorldStays ==
    ASSUME WorldFits, updates' = updates, mirror' = mirror, live' \subseteq Facts, desk' \subseteq Edits
    PROVE  WorldFits'
  BY DEF WorldFits

LEMMA StoreShrinks ==
    ASSUME StoreFits, Ids' \subseteq Ids, \A i \in Ids' : items'[i] \in Items /\ items'[i].n = items[i].n,
           staged' = staged, owed' \subseteq owed, gone' \subseteq gone \cup Rows(Ids)
    PROVE  StoreFits'
  <1>1. Rows(Ids) \subseteq 1 .. staged
    BY DEF Rows, StoreFits
  <1>2. QED
    BY <1>1 DEF StoreFits

LEMMA RequestChanges ==
    ASSUME RequestsFit, NEW c \in Callers, NEW R \in Requests, R.at \in Busy => R.edits # <<>>,
           req' = [req EXCEPT ![c] = R]
    PROVE  RequestsFit'
  <1>1. req' \in [Callers -> Requests] /\ \A d \in Callers : req'[d] = IF d = c THEN R ELSE req[d]
    BY DEF RequestsFit
  <1>2. QED
    BY <1>1 DEF RequestsFit

\* A send takes a step, and gives up rows or keeps those it has.
LEMMA JobStepKeepsInv ==
    ASSUME Inv, NEW j \in DOMAIN jobs, NEW J, Becomes(j, J), GivesUp(j, J), Shaped(J),
           \A i \in Ids' : items'[i] \in Items,
           mirror' = mirror, updates' = updates, req' = req, staged' = staged, gone' = gone,
           owed' \subseteq owed, live' \subseteq Facts, desk' \subseteq Edits, ledger' \in Seq(Entries),
           OwedIsKept', Looking'
    PROVE  Inv'
  <1>1. /\ WorldFits /\ StoreFits /\ ledger \in Seq(Entries) /\ jobs \in Seq(Sends) /\ RequestsFit
        /\ mirror.session # 0 /\ Shapes /\ Claimed
    BY TypeParts DEF Inv
  <1>2. /\ jobs' \in Seq(Sends) /\ DOMAIN jobs' = DOMAIN jobs
        /\ jobs'[j] = J /\ \A k \in DOMAIN jobs : k # j => jobs'[k] = jobs[k]
    BY <1>1, OneJobChanges
  <1>3. StoreFits'
    BY <1>1, StoreShrinks DEF GivesUp
  <1>4. RequestsFit' /\ WorldFits'
    BY <1>1, WorldStays DEF RequestsFit
  <1>5. TypeOK'
    BY <1>2, <1>3, <1>4, TypeParts
  <1>6. Claimed'
    BY <1>1, GivingUpKeepsClaims
  <1>7. Shapes'
    <2>1. mirror.session \in Nat
      BY <1>1 DEF WorldFits, Mirrors
    <2>2. J.session <= mirror.session
      BY <1>1, <2>1 DEF GivesUp, Shapes
    <2>3. \A k \in DOMAIN jobs : jobs[k] \in Sends
      BY <1>1
    <2>4. QED
      BY <1>1, <1>2, <2>1, <2>2, <2>3, ShapesStay
  <1>8. QED
    BY <1>1, <1>5, <1>6, <1>7 DEF Inv

\* A request takes a step: the store, the sends and the mirror stay, and the ledger but for outcomes.
LEMMA QuietStepKeepsInv ==
    ASSUME Inv, live' \subseteq Facts, desk' \subseteq Edits, updates' = updates, mirror' = mirror,
           items' = items, jobs' = jobs, staged' = staged, owed' = owed, gone' = gone,
           ledger' \in Seq(Entries), DOMAIN ledger' = DOMAIN ledger,
           \A k \in DOMAIN ledger : ledger'[k].n = ledger[k].n, RequestsFit'
    PROVE  Inv'
  <1>1. /\ WorldFits /\ StoreFits /\ ledger \in Seq(Entries) /\ jobs \in Seq(Sends) /\ RequestsFit
        /\ mirror.session # 0 /\ Shapes /\ Claimed /\ Looking /\ OwedIsKept
    BY TypeParts DEF Inv
  <1>2. Ids' = Ids
    BY DEF Ids
  <1>3. StoreFits' /\ WorldFits'
    BY <1>1, <1>2, WorldStays DEF StoreFits
  <1>4. TypeOK'
    BY <1>1, <1>3, TypeParts
  <1>5. OwedIsKept'
    <2>1. Rows(Ids)' = Rows(Ids)
      BY <1>2 DEF Rows
    <2>2. QED
      BY <1>1, <2>1 DEF OwedIsKept
  <1>6. Shapes'
    BY <1>1 DEF Shapes
  <1>7. Claimed'
    BY <1>1, EmptyHandsKeepClaims
  <1>8. Looking'
    BY <1>1, LookingStays DEF SameLook
  <1>9. QED
    BY <1>1, <1>4, <1>5, <1>6, <1>7, <1>8 DEF Inv

-----------------------------------------------------------------------------
(* Requests *)

Places == {"idle", "look", "known", "insert", "find", "enqueue", "backlog", "undoLook", "undoSince", "stamp"}

LEMMA RequestFits ==
    ASSUME RequestsFit, NEW c \in Callers
    PROVE  /\ req[c] \in Requests /\ req[c].edits \in Seq(Edits) /\ req[c].ids \in SUBSET Nat
           /\ req[c].at \in Busy => req[c].edits # <<>> /\ Edit(c) \in Edits
  <1>1. req[c] \in Requests
    BY DEF RequestsFit
  <1>2. req[c].edits \in Seq(Edits) /\ req[c].ids \in SUBSET Nat
    BY ONLY <1>1 DEF Requests
  <1>3. req[c].edits # <<>> => Head(req[c].edits) \in Edits
    BY <1>2, HeadTailProperties
  <1>4. QED
    BY <1>1, <1>2, <1>3 DEF RequestsFit, Edit

LEMMA NoReqFits == NoReq \in Requests /\ NoReq.at = "idle" /\ NoReq.edits = <<>>
  <1>1. <<>> \in Seq(Edits)
    OBVIOUS
  <1>2. QED
    BY <1>1 DEF NoReq, Requests

LEMMA DoneFits ==
    ASSUME RequestsFit, NEW c \in Callers, Done(c)
    PROVE  RequestsFit'
  BY NoReqFits, RequestChanges DEF Done, Busy

LEMMA GoFits ==
    ASSUME RequestsFit, NEW c \in Callers, NEW place \in Places, place \in Busy => req[c].edits # <<>>,
           Go(c, place)
    PROVE  RequestsFit'
  <1> DEFINE R == [req[c] EXCEPT !.at = place]
  <1>1. req[c] \in Requests
    BY DEF RequestsFit
  <1>2. R \in Requests /\ R.at = place /\ R.edits = req[c].edits
    BY ONLY <1>1, place \in Places DEF Requests, Places
  <1>3. req' = [req EXCEPT ![c] = R]
    BY DEF Go
  <1>4. QED
    BY <1>2, <1>3, RequestChanges

LEMMA NextItemFits ==
    ASSUME RequestsFit, NEW c \in Callers, NEW accepted \in SUBSET Nat, req[c].edits # <<>>,
           NextItem(c, accepted)
    PROVE  RequestsFit'
  <1> DEFINE r == [req[c] EXCEPT !.edits = Tail(@), !.ids = @ \cup accepted]
             R == IF r.edits # <<>> THEN [r EXCEPT !.at = "look"]
                  ELSE IF r.commit /\ r.ids # {} THEN [r EXCEPT !.at = "enqueue"] ELSE NoReq
  <1>1. req[c] \in Requests /\ req[c].edits \in Seq(Edits)
    BY RequestFits
  <1>2. Tail(req[c].edits) \in Seq(Edits)
    BY <1>1, HeadTailProperties
  <1>3. r \in Requests
    BY <1>1, <1>2 DEF Requests
  <1>4. [r EXCEPT !.at = "look"] \in Requests /\ [r EXCEPT !.at = "enqueue"] \in Requests
    BY ONLY <1>3 DEF Requests
  <1>5. [r EXCEPT !.at = "look"].edits = r.edits /\ [r EXCEPT !.at = "enqueue"].at = "enqueue"
    BY ONLY <1>3 DEF Requests
  <1>6. R \in Requests
    BY ONLY <1>4, NoReqFits
  <1>7. R.at \in Busy => R.edits # <<>>
    BY <1>5, NoReqFits DEF Busy
  <1>8. req' = [req EXCEPT ![c] = R]
    BY DEF NextItem
  <1> HIDE DEF R
  <1>9. QED
    BY <1>6, <1>7, <1>8, RequestChanges

\* A request that only moves on.
LEMMA RequestMovesOn ==
    ASSUME Inv, RequestsFit', items' = items, ledger' = ledger, jobs' = jobs, repo' = repo, mirror' = mirror,
           staged' = staged, owed' = owed, gone' = gone
    PROVE  Inv'
  <1>1. live \subseteq Facts /\ desk \subseteq Edits /\ ledger \in Seq(Entries)
    BY TypeParts DEF Inv, WorldFits
  <1>2. QED
    BY <1>1, QuietStepKeepsInv DEF repo

LEMMA SubmitKeepsInv ==
    ASSUME Inv, NEW c \in Callers, NEW commit \in BOOLEAN, NEW edits \in Batches,
           Submit(c, edits, commit)
    PROVE  Inv'
  <1> DEFINE R == [NoReq EXCEPT !.at = "look", !.edits = edits, !.commit = commit,
                                !.session = mirror.session, !.covered = mirror.covered]
  <1>1. edits \in Seq(Edits) /\ edits # <<>>
    BY ContributionsAssumption
  <1>2. mirror.session \in Nat /\ mirror.covered \in Nat /\ RequestsFit
    BY TypeParts DEF Inv, WorldFits, Mirrors
  <1>3. R \in Requests /\ R.edits = edits
    BY ONLY <1>1, <1>2, NoReqFits, commit \in BOOLEAN DEF NoReq, Requests
  <1>4. req' = [req EXCEPT ![c] = R]
    BY DEF Submit
  <1> HIDE DEF R
  <1>5. RequestsFit'
    BY <1>1, <1>2, <1>3, <1>4, RequestChanges
  <1>6. QED
    BY <1>5, RequestMovesOn DEF Submit, store, hist

LEMMA LookKeepsInv ==
    ASSUME Inv, NEW c \in Callers, Look(c) \/ Ask(c)
    PROVE  Inv'
  <1>1. RequestsFit /\ req[c].edits # <<>>
    BY TypeParts, RequestFits DEF Inv, Look, Ask, At, Busy
  <1>2. RequestsFit'
    <2>1. \/ Go(c, "known") \/ Go(c, "insert") \/ NextItem(c, {})
      BY DEF Look, Ask, Refused
    <2>2. "known" \in Places /\ "insert" \in Places /\ {} \in SUBSET Nat
      BY DEF Places
    <2>3. QED
      BY <1>1, <2>1, <2>2, GoFits, NextItemFits
  <1>3. QED
    BY <1>2, RequestMovesOn DEF Look, Ask, Refused, Quiet, store, hist

LEMMA UndoKeepsInv ==
    ASSUME Inv, NEW c \in Callers, NEW k \in DOMAIN ledger, Undo(c, k)
    PROVE  Inv'
  <1> DEFINE take == [ask |-> "take", of |-> ledger[k].edit.of]
             R == [NoReq EXCEPT !.at = "undoLook", !.edits = <<take>>, !.commit = TRUE,
                                !.session = mirror.session, !.row = k]
  <1>1. take \in Edits
    BY DEF Undo, Edits, Facts
  <1>2. <<take>> \in Seq(Edits) /\ <<take>> # <<>>
    BY <1>1
  <1>3. mirror.session \in Nat /\ k \in Nat /\ RequestsFit
    <2>1. mirror \in Mirrors /\ RequestsFit /\ ledger \in Seq(Entries)
      BY TypeParts DEF Inv, WorldFits
    <2>2. mirror.session \in Nat
      BY ONLY <2>1 DEF Mirrors
    <2>3. k \in Nat
      BY <2>1, LenProperties
    <2>4. QED
      BY <2>1, <2>2, <2>3
  <1>4. req' = [req EXCEPT ![c] = R]
    BY DEF Undo
  <1> HIDE DEF take
  <1>5. R \in Requests /\ R.edits = <<take>>
    BY ONLY <1>2, <1>3, NoReqFits DEF NoReq, Requests
  <1> HIDE DEF R
  <1>6. RequestsFit'
    BY <1>2, <1>3, <1>4, <1>5, RequestChanges
  <1>7. QED
    BY <1>6, RequestMovesOn DEF Undo, store, hist

LEMMA UndoLooksKeepInv ==
    ASSUME Inv, NEW c \in Callers, UndoLook(c) \/ UndoSince(c)
    PROVE  Inv'
  <1>1. RequestsFit /\ req[c].edits # <<>>
    BY TypeParts, RequestFits DEF Inv, UndoLook, UndoSince, At, Busy
  <1>2. Go(c, "insert") \/ Go(c, "undoSince") \/ Done(c)
    BY DEF UndoLook, UndoSince
  <1>3. "insert" \in Places /\ "undoSince" \in Places
    BY DEF Places
  <1>4. RequestsFit'
    BY <1>1, <1>2, <1>3, GoFits, DoneFits
  <1>5. QED
    BY <1>4, RequestMovesOn DEF UndoLook, UndoSince, Quiet, store, hist

LEMMA GiveUpKeepsInv ==
    ASSUME Inv, NEW c \in Callers, GiveUp(c)
    PROVE  Inv'
  <1>1. RequestsFit
    BY TypeParts DEF Inv
  <1>2. RequestsFit'
    BY <1>1, DoneFits DEF GiveUp
  <1>3. QED
    BY <1>2, RequestMovesOn DEF GiveUp, Quiet, store, hist

LEMMA CommitKeepsInv ==
    ASSUME Inv, NEW c \in Callers, Commit(c)
    PROVE  Inv'
  <1>1. RequestsFit /\ "backlog" \in Places /\ "backlog" \notin Busy
    BY TypeParts DEF Inv, Places, Busy
  <1>2. RequestsFit'
    BY <1>1, GoFits DEF Commit
  <1>3. QED
    BY <1>2, RequestMovesOn DEF Commit, store, hist

LEMMA FindKeepsInv ==
    ASSUME Inv, NEW c \in Callers, Find(c)
    PROVE  Inv'
  <1>1. RequestsFit /\ req[c].edits # <<>> /\ req[c] \in Requests /\ StoreFits
    BY TypeParts, RequestFits DEF Inv, Find, At, Busy
  <1>2. PICK found \in SUBSET Nat :
           \/ NextItem(c, found)
           \/ req' = [req EXCEPT ![c].at = "stamp", ![c].ids = IF found = {} THEN {0} ELSE found]
    <2>1. Ids \subseteq Nat
      BY <1>1 DEF StoreFits
    <2>2. IdsOf(Edit(c)) \subseteq Ids
      BY DEF IdsOf
    <2>3. QED
      BY <2>1, <2>2 DEF Find
  <1>3. RequestsFit'
    <2>1. CASE NextItem(c, found)
      BY <1>1, <2>1, NextItemFits
    <2>2. CASE req' = [req EXCEPT ![c].at = "stamp", ![c].ids = IF found = {} THEN {0} ELSE found]
      <3> DEFINE R == [req[c] EXCEPT !.at = "stamp", !.ids = IF found = {} THEN {0} ELSE found]
      <3>1. (IF found = {} THEN {0} ELSE found) \in SUBSET Nat
        OBVIOUS
      <3>2. R \in Requests /\ R.at = "stamp"
        BY ONLY <1>1, <3>1 DEF Requests
      <3>3. req' = [req EXCEPT ![c] = R]
        BY <1>1, <2>2 DEF RequestsFit
      <3> HIDE DEF R
      <3>4. QED
        BY <1>1, <3>2, <3>3, RequestChanges DEF Busy
    <2>3. QED
      BY <1>2, <2>1, <2>2
  <1>4. QED
    BY <1>3, RequestMovesOn DEF Find, Quiet, store

\* The outcome of ledger rows changes, and nothing else of them.
LEMMA OutcomesChange ==
    ASSUME Inv, RequestsFit', items' = items, jobs' = jobs, repo' = repo, mirror' = mirror,
           staged' = staged, owed' = owed, gone' = gone,
           ledger' \in Seq(Entries), DOMAIN ledger' = DOMAIN ledger,
           \A k \in DOMAIN ledger : ledger'[k].n = ledger[k].n
    PROVE  Inv'
  <1>1. live \subseteq Facts /\ desk \subseteq Edits
    BY TypeParts DEF Inv, WorldFits
  <1>2. QED
    BY <1>1, QuietStepKeepsInv DEF repo

LEMMA UndoStampKeepsInv ==
    ASSUME Inv, NEW c \in Callers, UndoStamp(c)
    PROVE  Inv'
  <1>1. RequestsFit /\ ledger \in Seq(Entries) /\ "enqueue" \in Places /\ "enqueue" \notin Busy
    BY TypeParts DEF Inv, Places, Busy
  <1>2. RequestsFit'
    BY <1>1, GoFits, DoneFits DEF UndoStamp
  <1>3. CASE ledger' = ledger
    BY <1>2, <1>3, RequestMovesOn DEF UndoStamp, Quiet, hist
  <1>4. CASE ledger' = [ledger EXCEPT ![req[c].row].outcome = "rescinded"]
    <2>1. PICK row : row = req[c].row
      OBVIOUS
    <2>2. \A k \in DOMAIN ledger : ledger[k] \in Entries
      BY <1>1
    <2>3. \A k \in DOMAIN ledger : [ledger[k] EXCEPT !.outcome = "rescinded"] \in Entries
                                    /\ [ledger[k] EXCEPT !.outcome = "rescinded"].n = ledger[k].n
      BY ONLY <2>2 DEF Entries
    <2>4. /\ DOMAIN ledger' = DOMAIN ledger
          /\ \A k \in DOMAIN ledger : ledger'[k] = IF k = row THEN [ledger[k] EXCEPT !.outcome = "rescinded"]
                                                              ELSE ledger[k]
      BY <1>1, <1>4, <2>1
    <2>5. \A k \in DOMAIN ledger : ledger'[k] \in Entries /\ ledger'[k].n = ledger[k].n
      BY <2>2, <2>3, <2>4
    <2>6. ledger' \in Seq(Entries)
      <3>1. Len(ledger) \in Nat /\ DOMAIN ledger = 1 .. Len(ledger)
        BY <1>1
      <3>2. ledger' = [k \in DOMAIN ledger |-> ledger'[k]]
        BY ONLY <1>4
      <3>3. QED
        BY ONLY <2>5, <3>1, <3>2
    <2>7. QED
      BY <1>2, <2>4, <2>5, <2>6, OutcomesChange DEF UndoStamp, Quiet, hist
  <1>5. QED
    BY <1>3, <1>4 DEF UndoStamp

LEMMA TrackKeepsInv ==
    ASSUME Inv, Track
    PROVE  Inv'
  <1>1. RequestsFit /\ ledger \in Seq(Entries)
    BY TypeParts DEF Inv
  <1>2. RequestsFit'
    BY <1>1 DEF Track, RequestsFit
  <1>3. \A k \in DOMAIN ledger : ledger[k] \in Entries
    BY <1>1
  <1>4. \A k \in DOMAIN ledger : Outcome(ledger[k]) \in {"", "applied", "approved", "removed", "rescinded"}
    BY ONLY <1>3 DEF Entries, Outcome
  <1>5. \A k \in DOMAIN ledger : [ledger[k] EXCEPT !.outcome = Outcome(ledger[k])] \in Entries
                                 /\ [ledger[k] EXCEPT !.outcome = Outcome(ledger[k])].n = ledger[k].n
    BY ONLY <1>3, <1>4 DEF Entries
  <1>6. ledger' = [k \in DOMAIN ledger |-> [ledger[k] EXCEPT !.outcome = Outcome(ledger[k])]]
    BY DEF Track
  <1>7. \A k \in DOMAIN ledger : ledger'[k] \in Entries /\ ledger'[k].n = ledger[k].n
    BY <1>5, <1>6
  <1>8. DOMAIN ledger' = DOMAIN ledger /\ ledger' \in Seq(Entries)
    <2>1. Len(ledger) \in Nat /\ DOMAIN ledger = 1 .. Len(ledger)
      BY <1>1
    <2>2. QED
      BY <1>5, <1>6, <2>1
  <1>9. QED
    BY <1>2, <1>7, <1>8, OutcomesChange DEF Track, hist

LEMMA DecideKeepsInv ==
    ASSUME Inv, Decide
    PROVE  Inv'
  <1>1. RequestsFit /\ ledger \in Seq(Entries) /\ live \subseteq Facts /\ desk \subseteq Edits
    BY TypeParts DEF Inv, WorldFits
  <1>2. RequestsFit'
    BY <1>1 DEF Decide, RequestsFit
  <1>3. PICK e \in desk : /\ desk' = desk \ {e}
                          /\ live' = live \/ live' = live \cup {e.of} \/ live' = live \ {e.of}
    BY DEF Decide
  <1>4. e.of \in Facts
    BY <1>1 DEF Edits
  <1>5. live' \subseteq Facts /\ desk' \subseteq Edits
    BY <1>1, <1>3, <1>4
  <1>6. QED
    BY <1>1, <1>2, <1>5, QuietStepKeepsInv DEF Decide, store, hist

\* A send is queued, for the first time or again.
LEMMA QueuedKeepsInv ==
    ASSUME Inv, jobs' \in Seq(Sends), DOMAIN jobs \subseteq DOMAIN jobs',
           \A k \in DOMAIN jobs :
              jobs'[k] = jobs[k] \/ (jobs[k].at = "ended" /\ Shaped(jobs'[k]) /\ jobs'[k].at = "queued"),
           \A k \in DOMAIN jobs' \ DOMAIN jobs : Shaped(jobs'[k]) /\ jobs'[k].at = "queued",
           RequestsFit', repo' = repo, mirror' = mirror, items' = items, ledger' = ledger,
           staged' = staged, owed' = owed, gone' = gone
    PROVE  Inv'
  <1>1. /\ WorldFits /\ StoreFits /\ ledger \in Seq(Entries) /\ jobs \in Seq(Sends)
        /\ mirror.session # 0 /\ Shapes /\ Claimed /\ Looking /\ OwedIsKept
    BY TypeParts DEF Inv
  <1>2. mirror.session \in Nat
    BY <1>1 DEF WorldFits, Mirrors
  <1>3. Ids' = Ids
    BY DEF Ids
  <1>4. TypeOK'
    <2>1. StoreFits' /\ WorldFits'
      BY <1>1, <1>3, WorldStays DEF StoreFits, repo, WorldFits
    <2>2. QED
      BY <1>1, <2>1, TypeParts
  <1>5. OwedIsKept'
    <2>1. Rows(Ids)' = Rows(Ids)
      BY <1>3 DEF Rows
    <2>2. QED
      BY <1>1, <2>1 DEF OwedIsKept
  <1>6. \A k \in DOMAIN jobs' : \/ k \in DOMAIN jobs /\ jobs'[k] = jobs[k]
                                \/ /\ Shaped(jobs'[k]) /\ jobs'[k].at = "queued"
                                   /\ jobs'[k].session = 0 /\ HandOf(jobs'[k]) = {}
    BY DEF Shaped
  <1>7. Shapes'
    <2>1. \A k \in DOMAIN jobs : jobs[k] \in Sends
      BY <1>1
    <2>2. QED
      BY <1>1, <1>2, <1>6, <2>1, ShapesStay
  <1>8. Claimed'
    <2>1. \A k \in DOMAIN jobs : jobs'[k] = jobs[k] \/ (Hand(k) = {} /\ Hand(k)' = {})
      BY <1>1, <1>6 DEF Shapes, Shaped, Hand, HandOf
    <2>2. \A k \in DOMAIN jobs' \ DOMAIN jobs : Hand(k)' = {}
      BY <1>6 DEF Hand, HandOf
    <2>3. QED
      BY <1>1, <2>1, <2>2, EmptyHandsKeepClaims
  <1>9. Looking'
    <2>1. \A k \in DOMAIN jobs' :
            \/ k \in DOMAIN jobs /\ SameLook(k)
            \/ ~JobAt(k, "log")' /\ ~Alive(jobs[k].session)'
      BY <1>1, <1>6 DEF SameLook, JobAt, Alive
    <2>2. QED
      BY <1>1, <2>1, LookingStays DEF repo
  <1>10. QED
    BY <1>1, <1>4, <1>5, <1>7, <1>8, <1>9 DEF Inv

LEMMA EnqueueKeepsInv ==
    ASSUME Inv, NEW c \in Callers, EnqueueContrib(c) \/ EnqueueBacklog(c)
    PROVE  Inv'
  <1>1. RequestsFit /\ jobs \in Seq(Sends)
    BY TypeParts DEF Inv
  <1>2. RequestsFit'
    BY <1>1, DoneFits DEF EnqueueContrib, EnqueueBacklog
  <1>3. req[c].ids \in SUBSET Nat
    BY <1>1, RequestFits
  <1>4. PICK J \in Sends : jobs' = Append(jobs, J) /\ Shaped(J) /\ J.at = "queued"
    BY <1>3, NewJobIsEmpty DEF EnqueueContrib, EnqueueBacklog
  <1>5. /\ jobs' \in Seq(Sends) /\ DOMAIN jobs' = DOMAIN jobs \cup {Len(jobs) + 1}
        /\ jobs'[Len(jobs) + 1] = J /\ \A k \in DOMAIN jobs : jobs'[k] = jobs[k]
    BY <1>1, <1>4, JobIsAdded
  <1>6. \A k \in DOMAIN jobs' \ DOMAIN jobs : Shaped(jobs'[k]) /\ jobs'[k].at = "queued"
    BY <1>4, <1>5
  <1>7. QED
    BY <1>2, <1>5, <1>6, QueuedKeepsInv DEF EnqueueContrib, EnqueueBacklog, Quiet, store, hist

LEMMA RetryKeepsInv ==
    ASSUME Inv, NEW j \in DOMAIN jobs, Retry(j)
    PROVE  Inv'
  <1>1. RequestsFit /\ jobs \in Seq(Sends) /\ jobs[j] \in Sends
    BY TypeParts DEF Inv
  <1>2. RequestsFit'
    BY <1>1 DEF Retry, RequestsFit
  <1>3. jobs[j].ids \in SUBSET Nat /\ jobs[j].backlog \in BOOLEAN
    BY ONLY <1>1 DEF Sends
  <1>4. PICK J : J = NewJob(jobs[j].ids, jobs[j].backlog)
    OBVIOUS
  <1>5. Becomes(j, J) /\ Shaped(J) /\ J.at = "queued"
    <2>1. J \in Sends /\ Shaped(J) /\ J.at = "queued"
      BY <1>3, <1>4, NewJobIsEmpty
    <2>2. jobs' = [jobs EXCEPT ![j] = J]
      BY <1>4 DEF Retry
    <2>3. QED
      BY <2>1, <2>2 DEF Becomes
  <1>6. jobs' \in Seq(Sends) /\ DOMAIN jobs' = DOMAIN jobs
        /\ jobs'[j] = J /\ \A k \in DOMAIN jobs : k # j => jobs'[k] = jobs[k]
    BY <1>1, <1>5, OneJobChanges
  <1>7. QED
    BY <1>2, <1>5, <1>6, QueuedKeepsInv DEF Retry, store

LEMMA InsertKeepsInv ==
    ASSUME Inv, NEW c \in Callers, Insert(c)
    PROVE  Inv'
  <1>1. /\ WorldFits /\ StoreFits /\ ledger \in Seq(Entries) /\ jobs \in Seq(Sends) /\ RequestsFit
        /\ mirror.session # 0 /\ Shapes /\ Claimed /\ Looking /\ OwedIsKept /\ TypeOK
    BY TypeParts DEF Inv
  <1>2. req[c].edits # <<>> /\ Edit(c) \in Edits /\ req[c] \in Requests
    BY <1>1, RequestFits DEF Insert, At, Busy
  <1>3. "find" \in Places /\ {} \in SUBSET Nat
    BY DEF Places
  <1>4. CASE UNCHANGED <<store, jobs, hist>> /\ Quiet
    <2>1. NextItem(c, {}) \/ Done(c) \/ Go(c, "find") \/ staged' = staged + 1
      BY DEF Insert, Refused
    <2>2. staged' # staged + 1
      BY <1>1, <1>4 DEF hist, StoreFits
    <2>3. RequestsFit'
      BY <1>1, <1>2, <1>3, <2>1, <2>2, NextItemFits, DoneFits, GoFits
    <2>4. QED
      BY <1>4, <2>3, RequestMovesOn DEF Quiet, store, hist
  <1>5. ASSUME items' = [i \in Ids \cup {NewId} |->
                          IF i = NewId THEN [n |-> staged + 1, edit |-> Edit(c), status |-> "staged"] ELSE items[i]],
               staged' = staged + 1, owed' = owed \cup {staged'},
               IF req[c].row = 0 THEN NextItem(c, {NewId})
               ELSE req' = [req EXCEPT ![c].at = "stamp", ![c].ids = {NewId}],
               UNCHANGED <<ledger, jobs, gone, taken>>, Quiet
        PROVE  Inv'
    <2>1. PICK id : id = NewId
      OBVIOUS
    <2>2. id \notin Ids /\ id \in 1 .. staged + 1 /\ staged \in Nat
      BY <1>1, <2>1, NewIdIsNew DEF StoreFits
    <2>3. PICK new : new = [n |-> staged + 1, edit |-> Edit(c), status |-> "staged"]
      OBVIOUS
    <2>4. items' = [i \in Ids \cup {id} |-> IF i = id THEN new ELSE items[i]]
      BY <1>5, <2>1, <2>3
    <2>5. Ids' = Ids \cup {id} /\ items'[id] = new /\ \A i \in Ids : items'[i] = items[i]
      BY <2>2, <2>4 DEF Ids
    <2>6. new \in Items /\ new.n = staged + 1 /\ new.status = "staged"
      BY <1>2, <2>2, <2>3 DEF Items
    <2>7. RequestsFit'
      <3>1. CASE NextItem(c, {id})
        BY <1>1, <1>2, <2>2, <3>1, NextItemFits
      <3>2. CASE req' = [req EXCEPT ![c].at = "stamp", ![c].ids = {id}]
        <4> DEFINE R == [req[c] EXCEPT !.at = "stamp", !.ids = {id}]
        <4>1. {id} \in SUBSET Nat
          BY <2>2
        <4>2. R \in Requests /\ R.at = "stamp"
          BY ONLY <1>2, <4>1 DEF Requests
        <4>3. req' = [req EXCEPT ![c] = R]
          BY <1>1, <3>2 DEF RequestsFit
        <4> HIDE DEF R
        <4>4. QED
          BY <1>1, <4>2, <4>3, RequestChanges DEF Busy
      <3>3. QED
        BY <1>5, <2>1, <3>1, <3>2
    <2>8. StoreFits'
      <3>1. staged' \in Nat /\ 1 .. staged \subseteq 1 .. staged' /\ staged' \in 1 .. staged'
        BY <1>5, <2>2
      <3>2. Ids' \subseteq 1 .. staged'
        BY <1>1, <1>5, <2>2, <2>5, <3>1 DEF StoreFits
      <3>3. \A i \in Ids' : items'[i] \in Items /\ items'[i].n \in 1 .. staged'
        BY <1>1, <1>5, <2>5, <2>6, <3>1 DEF StoreFits
      <3>4. owed' \subseteq 1 .. staged' /\ gone' \subseteq 1 .. staged'
        BY <1>1, <1>5, <3>1 DEF StoreFits
      <3>5. QED
        BY <3>1, <3>2, <3>3, <3>4 DEF StoreFits
    <2>9. TypeOK'
      <3>1. WorldFits'
        BY <1>1, <1>5 DEF Quiet, repo, WorldFits
      <3>2. QED
        BY <1>1, <1>5, <2>7, <2>8, <3>1, TypeParts
    <2>10. Claimed'
      BY <1>1, <1>5, <2>2, <2>5, <2>6, StagingKeepsClaims DEF Quiet
    <2>11. OwedIsKept'
      <3>1. Rows(Ids)' = Rows(Ids) \cup {staged'}
        BY <1>5, <2>5, <2>6 DEF Rows
      <3>2. QED
        BY <1>1, <1>5, <3>1 DEF OwedIsKept
    <2>12. Shapes'
      BY <1>1, <1>5 DEF Shapes, Quiet
    <2>13. Looking'
      BY <1>1, <1>5, LookingStays DEF SameLook, Quiet, repo
    <2>14. QED
      BY <1>1, <1>5, <2>9, <2>10, <2>11, <2>12, <2>13 DEF Inv, Quiet
  <1>6. QED
    BY <1>4, <1>5 DEF Insert, Refused

LEMMA RescindKeepsInv ==
    ASSUME Inv, NEW c \in Callers, NEW asked, Rescind(c, asked)
    PROVE  Inv'
  <1>1. /\ WorldFits /\ StoreFits /\ ledger \in Seq(Entries) /\ jobs \in Seq(Sends) /\ RequestsFit
        /\ mirror.session # 0 /\ Shapes /\ Claimed /\ Looking /\ OwedIsKept
    BY TypeParts DEF Inv
  <1>2. PICK ids : ids = asked \cap Unsent
    OBVIOUS
  <1>3. /\ ids \subseteq Unsent /\ items' = Without(ids)
        /\ owed' = owed \ Rows(ids) /\ gone' = gone \cup Rows(ids)
    BY <1>2 DEF Rescind
  <1>4. Ids' = Ids \ ids /\ \A i \in Ids \ ids : items'[i] = items[i]
    BY <1>3, RowsWithout DEF Ids
  <1>5. Rows(ids) \subseteq Rows(Ids)
    BY <1>3 DEF Rows, Unsent
  <1>6. StoreFits'
    <2>1. \A i \in Ids' : items'[i] \in Items /\ items'[i].n = items[i].n
      BY <1>1, <1>4 DEF StoreFits
    <2>2. staged' = staged
      BY DEF Rescind
    <2>3. QED
      BY <1>1, <1>3, <1>4, <1>5, <2>1, <2>2, StoreShrinks
  <1>7. TypeOK'
    <2>1. RequestsFit' /\ WorldFits'
      BY <1>1 DEF Rescind, RequestsFit, WorldFits, repo
    <2>2. QED
      BY <1>1, <1>6, <2>1, TypeParts DEF Rescind
  <1>8. Claimed'
    BY <1>1, <1>3, RescindingKeepsClaims DEF Rescind
  <1>9. OwedIsKept'
    <2>1. \A n \in Rows(Ids) \ Rows(ids) : n \in Rows(Ids)'
      BY <1>4 DEF Rows
    <2>2. QED
      BY <1>1, <1>3, <2>1 DEF OwedIsKept, Rescind
  <1>10. Shapes'
    BY <1>1 DEF Shapes, Rescind
  <1>11. Looking'
    BY <1>1, LookingStays DEF SameLook, Rescind, repo
  <1>12. QED
    BY <1>1, <1>7, <1>8, <1>9, <1>10, <1>11 DEF Inv, Rescind

-----------------------------------------------------------------------------
(* The engine and the repository *)

LEMMA WorldStepKeepsInv ==
    ASSUME Inv, WorldFits', Looking', mirror'.open = mirror.open, mirror'.session = mirror.session,
           items' = items, ledger' = ledger, jobs' = jobs, req' = req,
           staged' = staged, owed' = owed, gone' = gone
    PROVE  Inv'
  <1>1. /\ StoreFits /\ ledger \in Seq(Entries) /\ jobs \in Seq(Sends) /\ RequestsFit
        /\ mirror.session # 0 /\ Shapes /\ Claimed /\ OwedIsKept
    BY TypeParts DEF Inv
  <1>2. Ids' = Ids
    BY DEF Ids
  <1>3. StoreFits' /\ RequestsFit'
    BY <1>1, <1>2 DEF StoreFits, RequestsFit
  <1>4. TypeOK'
    BY <1>1, <1>3, TypeParts
  <1>5. OwedIsKept'
    <2>1. Rows(Ids)' = Rows(Ids)
      BY <1>2 DEF Rows
    <2>2. QED
      BY <1>1, <2>1 DEF OwedIsKept
  <1>6. Shapes'
    BY <1>1 DEF Shapes
  <1>7. Claimed'
    BY <1>1, EmptyHandsKeepClaims
  <1>8. QED
    BY <1>1, <1>4, <1>5, <1>6, <1>7 DEF Inv

LEMMA SyncKeepsInv ==
    ASSUME Inv, Sync
    PROVE  Inv'
  <1>1. /\ WorldFits /\ Looking /\ mirror \in Mirrors /\ mirror.covered < Len(updates)
        /\ updates \in Seq(SUBSET Facts) /\ updates' = updates
    BY TypeParts DEF Inv, WorldFits, Sync, repo
  <1>2. mirror.covered \in Nat /\ Len(updates) \in Nat
    BY <1>1 DEF Mirrors
  <1>3. updates[mirror.covered + 1] \in SUBSET Facts
    <2>1. mirror.covered + 1 \in 1 .. Len(updates)
      BY <1>1, <1>2
    <2>2. QED
      BY <1>1, <2>1
  <1>4. mirror' = [mirror EXCEPT !.covered = @ + 1, !.index = updates[mirror.covered + 1],
                                 !.ready = @ \/ mirror.covered + 1 = Len(updates)]
    BY DEF Sync
  <1>5. /\ mirror' \in Mirrors /\ mirror'.open = mirror.open /\ mirror'.session = mirror.session
        /\ mirror'.covered = mirror.covered + 1 /\ mirror'.index = updates[mirror.covered + 1]
    <2>1. PICK r \in BOOLEAN, u \in SUBSET Facts :
             /\ u = updates[mirror.covered + 1]
             /\ mirror' = [mirror EXCEPT !.covered = @ + 1, !.index = u, !.ready = r]
      <3>1. (mirror.ready \/ mirror.covered + 1 = Len(updates)) \in BOOLEAN
        OBVIOUS
      <3>2. QED
        BY <1>3, <1>4, <3>1, Zenon
    <2>2. mirror.covered + 1 \in Nat
      BY <1>2
    <2>3. QED
      BY ONLY <1>1, <2>1, <2>2 DEF Mirrors
  <1>6. WorldFits'
    BY <1>1, <1>2, <1>5 DEF WorldFits, Sync, repo
  <1>7. Looking'
    <2>1. Covers'
      BY <1>1, <1>5 DEF Covers
    <2>2. ASSUME NEW k \in DOMAIN jobs' PROVE Seen(k)' /\ AtLog(k)'
      <3>1. jobs' = jobs /\ jobs[k] \in Sends
        BY TypeParts DEF Sync, Inv
      <3>2. /\ Current(k)' = Current(k) /\ JobAt(k, "log")' = JobAt(k, "log")
            /\ Alive(jobs[k].session)' = Alive(jobs[k].session)
        BY <1>5, <3>1, CurrentIs DEF JobAt, Alive
      <3>3. Seen(k) /\ AtLog(k)
        BY <1>1, <3>1 DEF Looking
      <3>4. jobs[k].covered \in Nat
        BY <3>1 DEF Sends
      <3>5. jobs[k].covered <= mirror.covered => jobs'[k].covered <= mirror'.covered
        BY <1>2, <1>5, <3>1, <3>4
      <3>6. Seen(k)'
        BY <1>1, <3>1, <3>2, <3>3, <3>5 DEF Seen
      <3>7. AtLog(k)'
        BY <3>2, <3>3 DEF AtLog
      <3>8. QED
        BY <3>6, <3>7
    <2>3. QED
      BY <2>1, <2>2 DEF Looking
  <1>8. QED
    BY <1>5, <1>6, <1>7, WorldStepKeepsInv DEF Sync, store, hist

LEMMA PublishKeepsInv ==
    ASSUME Inv, Publish
    PROVE  Inv'
  <1>1. /\ WorldFits /\ Looking /\ mirror \in Mirrors /\ mirror.covered <= Len(updates)
        /\ updates \in Seq(SUBSET Facts) /\ live \in SUBSET Facts /\ mirror' = mirror
    BY TypeParts DEF Inv, WorldFits, Publish
  <1>2. mirror.covered \in Nat /\ Len(updates) \in Nat
    BY <1>1 DEF Mirrors
  <1>3. /\ updates' \in Seq(SUBSET Facts) /\ updates' # <<>> /\ Len(updates') = Len(updates) + 1
        /\ \A u \in 1 .. Len(updates) : updates'[u] = updates[u]
    BY <1>1, AppendProperties DEF Publish
  <1>4. WorldFits'
    BY <1>1, <1>2, <1>3 DEF WorldFits, Publish
  <1>5. Looking'
    <2>1. Covers'
      <3>1. mirror.covered # 0 => mirror.covered \in 1 .. Len(updates)
        BY <1>1, <1>2
      <3>2. QED
        BY <1>1, <1>3, <3>1 DEF Covers, Looking
    <2>2. ASSUME NEW k \in DOMAIN jobs' PROVE Seen(k)' /\ AtLog(k)'
      <3>1. jobs' = jobs /\ jobs[k] \in Sends
        BY TypeParts DEF Publish, Inv
      <3>2. /\ Current(k)' = Current(k) /\ JobAt(k, "log")' = JobAt(k, "log")
            /\ Alive(jobs[k].session)' = Alive(jobs[k].session)
        BY <1>1, <3>1, CurrentIs DEF JobAt, Alive
      <3>3. Seen(k) /\ AtLog(k)
        BY <1>1, <3>1 DEF Looking
      <3>4. jobs[k].covered \in Nat
        BY <3>1 DEF Sends
      <3>5. jobs[k].covered # 0 =>
               \A u \in jobs[k].covered .. Len(updates) : u \in jobs[k].covered .. Len(updates') /\ updates'[u] = updates[u]
        BY <1>2, <1>3, <3>4
      <3>6. Seen(k)'
        BY <1>1, <3>1, <3>2, <3>3, <3>5 DEF Seen
      <3>7. AtLog(k)'
        BY <3>2, <3>3 DEF AtLog
      <3>8. QED
        BY <3>6, <3>7
    <2>3. QED
      BY <2>1, <2>2 DEF Looking
  <1>6. QED
    BY <1>1, <1>4, <1>5, WorldStepKeepsInv DEF Publish, store, hist

\* The store closes, or opens anew: every handle on it is dead.
LEMMA RestartKeepsInv ==
    ASSUME Inv, jobs' \in Seq(Sends), DOMAIN jobs' = DOMAIN jobs,
           \A k \in DOMAIN jobs : jobs'[k] = jobs[k] \/ jobs'[k] = Ended(k),
           \A k \in DOMAIN jobs : ~Alive(jobs[k].session)',
           Ids' \subseteq Ids,
           \A i \in Ids' : items'[i] \in Items /\ items'[i].n = items[i].n /\ items'[i].edit = items[i].edit,
           mirror'.open => \A i \in Ids' : items'[i].status # "sending",
           mirror.session <= mirror'.session, WorldFits', RequestsFit', ledger' \in Seq(Entries),
           staged' = staged, owed' \subseteq owed, gone' = gone, OwedIsKept', Covers'
    PROVE  Inv'
  <1>1. /\ WorldFits /\ StoreFits /\ jobs \in Seq(Sends)
        /\ mirror.session # 0 /\ Shapes /\ Claimed /\ Looking
    BY TypeParts DEF Inv
  <1>2. mirror.session \in Nat /\ mirror'.session \in Nat
    BY <1>1 DEF WorldFits, Mirrors
  <1>3. \A k \in DOMAIN jobs : /\ HandOf(Ended(k)) = {} /\ Ended(k).at = "ended"
                               /\ Shaped(Ended(k)) /\ Ended(k).session = 0
    BY <1>1, EndedJob
  <1>4. TypeOK'
    BY <1>1, StoreShrinks, TypeParts
  <1>5. Claimed'
    <2>1. \A k \in DOMAIN jobs : Hand(k)' \subseteq Hand(k)
      <3>1. \A k \in DOMAIN jobs : Hand(k)' = HandOf(jobs'[k]) /\ Hand(k) = HandOf(jobs[k])
        BY DEF Hand, HandOf
      <3>2. QED
        BY <1>3, <3>1
    <2>2. QED
      BY <1>1, <2>1, DeadHandlesKeepClaims
  <1>6. Looking'
    <2>1. \A k \in DOMAIN jobs : jobs'[k] = jobs[k] \/ ~JobAt(k, "log")'
      BY <1>3 DEF JobAt
    <2>2. QED
      BY <1>1, <2>1, DeadHandlesKeepLooking
  <1>7. Shapes'
    <2>1. \A k \in DOMAIN jobs' : (k \in DOMAIN jobs /\ jobs'[k] = jobs[k])
                                  \/ (Shaped(jobs'[k]) /\ jobs'[k].session <= mirror'.session)
      BY <1>2, <1>3
    <2>2. QED
      BY <1>1, <1>2, <2>1, ShapesStay
  <1>8. mirror'.session # 0
    BY <1>1, <1>2
  <1>9. QED
    BY <1>4, <1>5, <1>6, <1>7, <1>8 DEF Inv

LEMMA ResetRows ==
    ASSUME StoreFits, Reset
    PROVE  /\ Ids' = Ids
           /\ \A i \in Ids : items'[i] \in Items /\ items'[i].n = items[i].n /\ items'[i].edit = items[i].edit
           /\ \A i \in Ids : items'[i].status # "sending"
  <1>1. items' = Marked(Ids \ Unsent, "staged") /\ \A i \in Ids : items[i] \in Items
    BY DEF Reset, StoreFits
  <1>2. Ids' = Ids
    BY <1>1, MarkedRows DEF Ids
  <1>3. \A i \in Ids : items'[i] \in Items /\ items'[i].n = items[i].n /\ items'[i].edit = items[i].edit
    BY <1>1, MarkedRows
  <1>4. ASSUME NEW i \in Ids PROVE items'[i].status # "sending"
    <2>1. CASE items[i].status = "sending"
      <3>1. i \in Ids \ Unsent
        BY <2>1 DEF Unsent
      <3>2. QED
        BY <1>1, <3>1, MarkedRows
    <2>2. CASE items[i].status # "sending"
      <3>1. i \notin Ids \ Unsent
        BY <2>2 DEF Unsent
      <3>2. QED
        BY <1>1, <2>2, <3>1, MarkedRows
    <2>3. QED
      BY <2>1, <2>2
  <1>5. QED
    BY <1>2, <1>3, <1>4

LEMMA OwedStays ==
    ASSUME OwedIsKept, Ids' = Ids, \A i \in Ids : items'[i].n = items[i].n,
           ledger' = ledger, owed' \subseteq owed
    PROVE  OwedIsKept'
  <1>1. Rows(Ids)' = Rows(Ids)
    BY DEF Rows
  <1>2. QED
    BY <1>1 DEF OwedIsKept

LEMMA CloseKeepsInv ==
    ASSUME Inv, Close
    PROVE  Inv'
  <1>1. /\ WorldFits /\ StoreFits /\ RequestsFit /\ OwedIsKept /\ Looking
        /\ ledger \in Seq(Entries) /\ jobs \in Seq(Sends) /\ mirror \in Mirrors
    BY TypeParts DEF Inv, WorldFits
  <1>2. mirror' = [mirror EXCEPT !.open = FALSE]
    BY DEF Close
  <1>3. /\ mirror' \in Mirrors /\ mirror'.open = FALSE /\ mirror'.session = mirror.session
        /\ mirror'.covered = mirror.covered /\ mirror'.index = mirror.index /\ mirror.session \in Nat
    BY ONLY <1>1, <1>2 DEF Mirrors
  <1>4. Ids' = Ids /\ items' = items
    BY DEF Close, Ids, store
  <1>5. WorldFits' /\ RequestsFit'
    BY <1>1, <1>3 DEF WorldFits, RequestsFit, Close, repo
  <1>6. \A k \in DOMAIN jobs : ~Alive(jobs[k].session)'
    BY <1>3 DEF Alive
  <1>7. OwedIsKept'
    BY <1>1, <1>4, OwedStays DEF Close, store, hist
  <1>8. Covers'
    BY <1>1, <1>3 DEF Looking, Covers, Close, repo
  <1>9. \A i \in Ids : items'[i] \in Items
    BY <1>1, <1>4 DEF StoreFits
  <1>10. mirror.session <= mirror'.session
    BY <1>3
  <1>11. QED
    BY <1>1, <1>3, <1>4, <1>5, <1>6, <1>7, <1>8, <1>9, <1>10, RestartKeepsInv DEF Close, store, hist

LEMMA WipeKeepsInv ==
    ASSUME Inv, Wipe
    PROVE  Inv'
  <1>1. /\ WorldFits /\ StoreFits /\ RequestsFit /\ jobs \in Seq(Sends) /\ mirror \in Mirrors
    BY TypeParts DEF Inv, WorldFits
  <1>2. mirror' = [mirror EXCEPT !.open = FALSE, !.ready = FALSE, !.index = {}, !.covered = 0]
    BY DEF Wipe
  <1>3. /\ mirror' \in Mirrors /\ mirror'.open = FALSE /\ mirror'.session = mirror.session
        /\ mirror'.covered = 0 /\ mirror.session \in Nat
    BY ONLY <1>1, <1>2 DEF Mirrors
  <1>4. Ids' = {} /\ ledger' \in Seq(Entries) /\ owed' = {}
    BY DEF Wipe, Ids
  <1>5. WorldFits' /\ RequestsFit'
    BY <1>1, <1>3 DEF WorldFits, RequestsFit, Wipe, repo
  <1>6. \A k \in DOMAIN jobs : ~Alive(jobs[k].session)'
    BY <1>3 DEF Alive
  <1>7. OwedIsKept' /\ Covers'
    BY <1>3, <1>4 DEF OwedIsKept, Covers
  <1>8. mirror.session <= mirror'.session
    BY <1>3
  <1>9. QED
    BY <1>1, <1>3, <1>4, <1>5, <1>6, <1>7, <1>8, RestartKeepsInv DEF Wipe

LEMMA OpenKeepsInv ==
    ASSUME Inv, Open
    PROVE  Inv'
  <1>1. /\ WorldFits /\ StoreFits /\ RequestsFit /\ OwedIsKept /\ Looking /\ Shapes
        /\ ledger \in Seq(Entries) /\ jobs \in Seq(Sends) /\ mirror \in Mirrors
    BY TypeParts DEF Inv, WorldFits
  <1>2. mirror' = [mirror EXCEPT !.open = TRUE, !.session = @ + 1]
    BY DEF Open
  <1>3. /\ mirror' \in Mirrors /\ mirror'.session = mirror.session + 1 /\ mirror.session \in Nat
        /\ mirror'.covered = mirror.covered /\ mirror'.index = mirror.index
    <2>1. mirror.session \in Nat /\ mirror.session + 1 \in Nat
      BY ONLY <1>1 DEF Mirrors
    <2>2. PICK s \in Nat : s = mirror.session + 1
      BY <2>1
    <2>3. mirror' = [mirror EXCEPT !.open = TRUE, !.session = s]
      BY <1>2, <2>2
    <2>4. QED
      BY ONLY <1>1, <2>1, <2>2, <2>3 DEF Mirrors
  <1>4. /\ Ids' = Ids /\ \A i \in Ids : items'[i].status # "sending"
        /\ \A i \in Ids : items'[i] \in Items /\ items'[i].n = items[i].n /\ items'[i].edit = items[i].edit
    BY <1>1, ResetRows DEF Open
  <1>5. WorldFits' /\ RequestsFit'
    BY <1>1, <1>3 DEF WorldFits, RequestsFit, Open, repo
  <1>6. \A k \in DOMAIN jobs : ~Alive(jobs[k].session)'
    <2>1. jobs' = jobs /\ \A k \in DOMAIN jobs : jobs[k] \in Sends
      BY <1>1 DEF Open
    <2>2. \A k \in DOMAIN jobs : jobs[k].session \in Nat /\ jobs[k].session <= mirror.session
      BY <1>1, <2>1 DEF Shapes, Sends
    <2>3. \A k \in DOMAIN jobs : jobs'[k].session # mirror'.session
      BY <1>3, <2>1, <2>2
    <2>4. QED
      BY <2>3 DEF Alive
  <1>7. OwedIsKept'
    BY <1>1, <1>4, OwedStays DEF Open, hist
  <1>8. Covers'
    BY <1>1, <1>3 DEF Looking, Covers, Open, repo
  <1>9. mirror.session <= mirror'.session
    BY <1>3
  <1>10. QED
    BY <1>1, <1>4, <1>5, <1>6, <1>7, <1>8, <1>9, RestartKeepsInv DEF Open, hist

LEMMA CrashKeepsInv ==
    ASSUME Inv, Crash
    PROVE  Inv'
  <1>1. /\ WorldFits /\ StoreFits /\ RequestsFit /\ OwedIsKept /\ Looking /\ Shapes
        /\ ledger \in Seq(Entries) /\ jobs \in Seq(Sends) /\ mirror \in Mirrors /\ mirror.session # 0
    BY TypeParts DEF Inv, WorldFits
  <1>2. /\ jobs' \in Seq(Sends) /\ DOMAIN jobs' = DOMAIN jobs
        /\ \A k \in DOMAIN jobs : jobs'[k] = IF jobs[k].at = "queued" THEN jobs[k] ELSE Ended(k)
    <2>1. \A k \in DOMAIN jobs : jobs[k] \in Sends /\ Ended(k) \in Sends
      BY <1>1, EndedJob
    <2>2. Len(jobs) \in Nat /\ DOMAIN jobs = 1 .. Len(jobs)
      BY <1>1
    <2>3. PICK f : f = [k \in 1 .. Len(jobs) |-> IF jobs[k].at = "queued" THEN jobs[k] ELSE Ended(k)]
      OBVIOUS
    <2>4. f \in Seq(Sends) /\ DOMAIN f = DOMAIN jobs
      BY <2>1, <2>2, <2>3
    <2>5. jobs' = f
      BY <2>2, <2>3 DEF Crash
    <2>6. QED
      BY <2>2, <2>3, <2>4, <2>5
  <1>3. \A k \in DOMAIN jobs : jobs'[k].session = 0
    BY <1>1, <1>2, EndedJob DEF Shapes, Shaped
  <1>4. RequestsFit'
    BY NoReqFits DEF Crash, RequestsFit, Busy
  <1>5. /\ mirror' \in Mirrors /\ mirror.session \in Nat /\ mirror'.session \in Nat
        /\ mirror'.session = mirror.session \/ mirror'.session = mirror.session + 1
        /\ mirror'.covered = mirror.covered /\ mirror'.index = mirror.index /\ mirror'.open = mirror.open
    <2>1. mirror' = mirror \/ mirror' = [mirror EXCEPT !.session = @ + 1]
      BY DEF Crash
    <2>2. QED
      BY ONLY <1>1, <2>1 DEF Mirrors
  <1>6. WorldFits'
    BY <1>1, <1>5 DEF WorldFits, Crash, repo
  <1>7. \A k \in DOMAIN jobs : ~Alive(jobs[k].session)'
    BY <1>1, <1>3, <1>5 DEF Alive
  <1>8. /\ Ids' = Ids
        /\ \A i \in Ids : items'[i] \in Items /\ items'[i].n = items[i].n /\ items'[i].edit = items[i].edit
        /\ mirror'.open => \A i \in Ids : items'[i].status # "sending"
    <2>1. CASE mirror.open
      BY <1>1, <2>1, ResetRows DEF Crash
    <2>2. CASE ~mirror.open
      BY <1>1, <1>5, <2>2 DEF Crash, StoreFits, Ids
    <2>3. QED
      BY <2>1, <2>2
  <1>9. OwedIsKept'
    BY <1>1, <1>8, OwedStays DEF Crash, hist
  <1>10. Covers'
    BY <1>1, <1>5 DEF Looking, Covers, Crash, repo
  <1>11. mirror.session <= mirror'.session
    BY <1>5
  <1>12. QED
    BY <1>1, <1>2, <1>4, <1>6, <1>7, <1>8, <1>9, <1>10, <1>11, RestartKeepsInv DEF Crash, hist

-----------------------------------------------------------------------------
(* Sends *)

\* A send that goes on with its handle and coverage, or ends.
Moves(j, J) ==
    /\ Becomes(j, J) /\ Shaped(J) /\ J.at # "log"
    /\ \/ J.session = jobs[j].session /\ J.covered = jobs[j].covered
       \/ J.session = 0 /\ HandOf(J) = {}

LEMMA MovesKeepLooking ==
    ASSUME jobs \in Seq(Sends), mirror.session # 0, Looking, NEW j \in DOMAIN jobs, NEW J, Moves(j, J),
           mirror' = mirror, updates' = updates
    PROVE  Looking'
  <1>1. /\ DOMAIN jobs' = DOMAIN jobs /\ jobs'[j] = J
        /\ \A k \in DOMAIN jobs : k # j => jobs'[k] = jobs[k]
    BY OneJobChanges DEF Moves
  <1>2. ~JobAt(j, "log")' /\ (Alive(jobs[j].session)' => jobs'[j].covered <= mirror.covered)
    BY <1>1 DEF Moves, JobAt, Alive, Looking, Seen
  <1>3. \A k \in DOMAIN jobs : k # j => SameLook(k)
    BY <1>1 DEF SameLook
  <1>4. QED
    BY <1>1, <1>2, <1>3, LookingStays

LEMMA ReleasedMoves ==
    ASSUME jobs \in Seq(Sends), NEW j \in DOMAIN jobs, Shaped(jobs[j]), NEW rows, rows = Hand(j), Released(j, rows)
    PROVE  \E J : Moves(j, J) /\ HandOf(J) = Hand(j) /\ J.session = jobs[j].session
  <1> DEFINE J == [jobs[j] EXCEPT !.at = "fail", !.kept = rows, !.claimed = {}, !.chunk = {}]
  <1>1. jobs[j] \in Sends
    OBVIOUS
  <1>2. Hand(j) = HandOf(jobs[j]) /\ rows \in SUBSET Claims
    BY <1>1 DEF Hand, HandOf, Sends
  <1>3. /\ J \in Sends /\ J.at = "fail" /\ J.kept = rows /\ J.claimed = {} /\ J.chunk = {}
        /\ J.session = jobs[j].session /\ J.covered = jobs[j].covered
    BY ONLY <1>1, <1>2 DEF Sends
  <1>4. jobs' = [jobs EXCEPT ![j] = J]
    BY DEF Released
  <1> HIDE DEF J
  <1>5. HandOf(J) = Hand(j)
    BY <1>3 DEF HandOf
  <1>6. \A r, q \in HandOf(J) : r.id = q.id => r = q
    BY <1>2, <1>5 DEF Shaped
  <1>7. Shaped(J)
    BY <1>3, <1>6 DEF Shaped
  <1>8. QED
    BY <1>3, <1>4, <1>5, <1>7 DEF Moves, Becomes

LEMMA PostsNextMoves ==
    ASSUME jobs \in Seq(Sends), NEW j \in DOMAIN jobs, Shaped(jobs[j]), NEW rows, rows \subseteq Hand(j),
           PostsNext(j, rows)
    PROVE  \E J : Moves(j, J) /\ HandOf(J) = rows
  <1>1. jobs[j] \in Sends
    OBVIOUS
  <1>2. Hand(j) = HandOf(jobs[j]) /\ rows \in SUBSET Claims
    BY <1>1 DEF Hand, HandOf, Sends
  <1>3. CASE rows = {} /\ jobs' = [jobs EXCEPT ![j] = Ended(j)]
    BY <1>3, EndedJob DEF Moves, Becomes
  <1>4. ASSUME NEW c \in Chunks(rows),
               jobs' = [jobs EXCEPT ![j].at = "post", ![j].claimed = {}, ![j].kept = rows \ c, ![j].chunk = c]
        PROVE  \E J : Moves(j, J) /\ HandOf(J) = rows
    <2> DEFINE J == [jobs[j] EXCEPT !.at = "post", !.claimed = {}, !.kept = rows \ c, !.chunk = c]
    <2>1. c \in SUBSET rows
      BY DEF Chunks
    <2>2. c \in SUBSET Claims /\ rows \ c \in SUBSET Claims
      BY <1>2, <2>1
    <2>3. /\ J \in Sends /\ J.at = "post" /\ J.claimed = {} /\ J.kept = rows \ c /\ J.chunk = c
          /\ J.session = jobs[j].session /\ J.covered = jobs[j].covered
      BY ONLY <1>1, <2>2 DEF Sends
    <2>4. jobs' = [jobs EXCEPT ![j] = J]
      BY <1>4
    <2> HIDE DEF J
    <2>5. HandOf(J) = rows
      BY <2>1, <2>3 DEF HandOf
    <2>6. \A r, q \in HandOf(J) : r.id = q.id => r = q
      BY <1>2, <2>5 DEF Shaped
    <2>7. Shaped(J)
      BY <2>3, <2>6 DEF Shaped
    <2>8. QED
      BY <2>3, <2>4, <2>5, <2>7 DEF Moves, Becomes
  <1>5. QED
    BY <1>3, <1>4 DEF PostsNext

LEMMA LookedMoves ==
    ASSUME jobs \in Seq(Sends), NEW j \in DOMAIN jobs, Shaped(jobs[j]), jobs[j].at \in {"look", "log"},
           NEW kept \in {jobs[j].kept, jobs[j].kept \cup {Current(j)}}, Looked(j, kept)
    PROVE  /\ Current(j) \in Hand(j)
           /\ \E J : Moves(j, J) /\ HandOf(J) = IF kept = jobs[j].kept THEN Hand(j) \ {Current(j)} ELSE Hand(j)
  <1>1. jobs[j] \in Sends
    OBVIOUS
  <1>2. /\ jobs[j].claimed \subseteq Claims /\ jobs[j].kept \subseteq Claims /\ jobs[j].chunk = {}
        /\ jobs[j].claimed \cap jobs[j].kept = {} /\ jobs[j].claimed # {}
    BY <1>1 DEF Sends, Shaped
  <1>3. PICK cur : cur = Current(j)
    OBVIOUS
  <1>4. cur \in jobs[j].claimed /\ cur \notin jobs[j].kept
    BY <1>2, <1>3, CurrentIsClaimed
  <1>5. PICK rest : rest = jobs[j].claimed \ {cur}
    OBVIOUS
  <1>6. Hand(j) = jobs[j].claimed \cup jobs[j].kept /\ Hand(j) = HandOf(jobs[j])
    BY <1>2 DEF Hand, HandOf
  <1>7. rest \cup kept = IF kept = jobs[j].kept THEN Hand(j) \ {cur} ELSE Hand(j)
    BY <1>3, <1>4, <1>5, <1>6
  <1>8. kept \in SUBSET Claims /\ rest \in SUBSET Claims /\ rest \cap kept = {}
    BY <1>2, <1>3, <1>4, <1>5
  <1>9. \E J : Moves(j, J) /\ HandOf(J) = rest \cup kept
    <2>1. CASE rest = {}
      <3>1. PostsNext(j, kept)
        BY <1>3, <1>5, <2>1 DEF Looked
      <3>2. kept \subseteq Hand(j) /\ rest \cup kept = kept
        BY <1>7, <2>1
      <3>3. QED
        BY <3>1, <3>2, PostsNextMoves
    <2>2. CASE rest # {}
      <3> DEFINE J == [jobs[j] EXCEPT !.at = "look", !.claimed = rest, !.kept = kept]
      <3>1. jobs' = [jobs EXCEPT ![j] = J]
        BY <1>3, <1>5, <2>2 DEF Looked
      <3>2. /\ J \in Sends /\ J.at = "look" /\ J.claimed = rest /\ J.kept = kept /\ J.chunk = jobs[j].chunk
            /\ J.session = jobs[j].session /\ J.covered = jobs[j].covered
        BY ONLY <1>1, <1>8 DEF Sends
      <3> HIDE DEF J
      <3>3. HandOf(J) = rest \cup kept
        BY <1>2, <3>2 DEF HandOf
      <3>4. \A r, q \in HandOf(J) : r.id = q.id => r = q
        BY <1>6, <1>7, <3>3 DEF Shaped
      <3>5. Shaped(J)
        BY <1>2, <1>8, <2>2, <3>2, <3>4 DEF Shaped
      <3>6. QED
        BY <3>1, <3>2, <3>3, <3>5 DEF Moves, Becomes
    <2>3. QED
      BY <2>1, <2>2
  <1>10. QED
    BY <1>3, <1>4, <1>6, <1>7, <1>9

\* A send that keeps what it has in hand.
LEMMA KeepsRows ==
    ASSUME StoreFits, NEW j \in DOMAIN jobs, NEW J, items' = items, HandOf(J) = Hand(j), J.session = jobs[j].session
    PROVE  GivesUp(j, J) /\ \A i \in Ids' : items'[i] \in Items
  <1>1. Ids' = Ids
    BY DEF Ids
  <1>2. QED
    BY <1>1 DEF GivesUp, StoreFits

\* A send that has done with a row: it leaves the store, or is marked failed there.
LEMMA GivesUpRow ==
    ASSUME StoreFits, NEW j \in DOMAIN jobs, NEW J, NEW row \in Hand(j), HandOf(J) = Hand(j) \ {row},
           J.session = jobs[j].session \/ (J.session = 0 /\ HandOf(J) = {}),
           \/ ~Alive(jobs[j].session) /\ items' = items
           \/ Alive(jobs[j].session) /\ items' = Without({row.id})
           \/ Alive(jobs[j].session) /\ items' = Marked(Ids \cap {row.id}, "failed")
    PROVE  GivesUp(j, J) /\ \A i \in Ids' : items'[i] \in Items
  <1>1. /\ \A i \in Ids : items[i] \in Items
        /\ Hand(j) \ HandOf(J) = {row} /\ HandOf(J) \subseteq Hand(j)
    BY DEF StoreFits
  <1>2. CASE ~Alive(jobs[j].session) /\ items' = items
    <2>1. Ids' = Ids
      BY <1>2 DEF Ids
    <2>2. QED
      BY <1>1, <1>2, <2>1 DEF GivesUp
  <1>3. CASE Alive(jobs[j].session) /\ items' = Without({row.id})
    <2>1. Ids' = Ids \ {row.id} /\ \A i \in Ids \ {row.id} : items'[i] = items[i]
      BY <1>3, RowsWithout DEF Ids
    <2>2. QED
      BY <1>1, <1>3, <2>1 DEF GivesUp
  <1>4. CASE Alive(jobs[j].session) /\ items' = Marked(Ids \cap {row.id}, "failed")
    <2>1. PICK ids : ids = Ids \cap {row.id}
      OBVIOUS
    <2>2. items' = Marked(ids, "failed")
      BY <1>4, <2>1
    <2>3. /\ Ids' = Ids /\ \A i \in Ids : i # row.id => items'[i] = items[i]
          /\ \A i \in Ids : items'[i] \in Items /\ items'[i].n = items[i].n /\ items'[i].edit = items[i].edit
          /\ \A i \in Ids : i = row.id => items'[i].status = "failed"
      BY <1>1, <2>1, <2>2, MarkedRows DEF Ids
    <2>4. QED
      BY <1>1, <1>4, <2>3 DEF GivesUp
  <1>5. QED
    BY <1>2, <1>3, <1>4

\* What every step of a send starts from.
LEMMA SendStart ==
    ASSUME Inv, NEW j \in DOMAIN jobs
    PROVE  /\ WorldFits /\ StoreFits /\ ledger \in Seq(Entries) /\ jobs \in Seq(Sends) /\ RequestsFit
           /\ mirror.session # 0 /\ mirror.session \in Nat /\ Shapes /\ Claimed /\ Looking /\ OwedIsKept
           /\ live \subseteq Facts /\ desk \subseteq Edits
           /\ jobs[j] \in Sends /\ Shaped(jobs[j]) /\ Hand(j) = HandOf(jobs[j]) /\ Backed(j)
  <1>1. /\ WorldFits /\ StoreFits /\ ledger \in Seq(Entries) /\ jobs \in Seq(Sends) /\ RequestsFit
        /\ mirror.session # 0 /\ Shapes /\ Claimed /\ Looking /\ OwedIsKept
    BY TypeParts DEF Inv
  <1>2. live \subseteq Facts /\ desk \subseteq Edits /\ mirror.session \in Nat
    BY <1>1 DEF WorldFits, Mirrors
  <1>3. jobs[j] \in Sends
    BY <1>1
  <1>4. Shaped(jobs[j]) /\ Backed(j)
    BY <1>1 DEF Shapes, Claimed
  <1>5. Hand(j) = HandOf(jobs[j])
    BY DEF Hand, HandOf
  <1>6. QED
    BY <1>1, <1>2, <1>3, <1>4, <1>5

\* A send moves on with what it has.
LEMMA KeepingStepKeepsInv ==
    ASSUME Inv, NEW j \in DOMAIN jobs, NEW J, Moves(j, J), HandOf(J) = Hand(j), J.session = jobs[j].session,
           items' = items, ledger' = ledger, mirror' = mirror, updates' = updates, req' = req,
           staged' = staged, gone' = gone, owed' = owed, live' \subseteq Facts, desk' \subseteq Edits
    PROVE  Inv'
  <1>1. /\ StoreFits /\ jobs \in Seq(Sends) /\ mirror.session # 0 /\ Looking /\ OwedIsKept /\ ledger \in Seq(Entries)
    BY SendStart
  <1>2. GivesUp(j, J) /\ \A i \in Ids' : items'[i] \in Items
    BY <1>1, KeepsRows
  <1>3. Looking'
    BY <1>1, MovesKeepLooking
  <1>4. Ids' = Ids
    BY DEF Ids
  <1>5. OwedIsKept'
    BY <1>1, <1>4, OwedStays
  <1>6. QED
    BY <1>1, <1>2, <1>3, <1>5, JobStepKeepsInv DEF Moves

LEMMA ReleasedKeepsInv ==
    ASSUME Inv, NEW j \in DOMAIN jobs, NEW rows, rows = Hand(j), Released(j, rows),
           items' = items, ledger' = ledger, mirror' = mirror, updates' = updates, req' = req,
           staged' = staged, gone' = gone, owed' = owed, live' \subseteq Facts, desk' \subseteq Edits
    PROVE  Inv'
  <1>1. jobs \in Seq(Sends) /\ Shaped(jobs[j])
    BY SendStart
  <1>2. PICK J : Moves(j, J) /\ HandOf(J) = Hand(j) /\ J.session = jobs[j].session
    BY <1>1, ReleasedMoves
  <1>3. QED
    BY <1>2, KeepingStepKeepsInv

LEMMA GateKeepsInv ==
    ASSUME Inv, NEW j \in DOMAIN jobs, Gate(j)
    PROVE  Inv'
  <1>1. /\ WorldFits /\ StoreFits /\ ledger \in Seq(Entries) /\ jobs \in Seq(Sends)
        /\ mirror.session # 0 /\ Looking /\ OwedIsKept /\ live \subseteq Facts /\ desk \subseteq Edits
        /\ jobs[j] \in Sends /\ Shaped(jobs[j]) /\ Hand(j) = HandOf(jobs[j])
    BY SendStart
  <1>2. jobs[j].at = "gate" /\ jobs[j].kept = {} /\ jobs[j].chunk = {} /\ jobs[j].claimed # {}
    BY <1>1 DEF Gate, JobAt, Shaped
  <1>3. Hand(j) = jobs[j].claimed
    BY <1>1, <1>2 DEF HandOf
  <1>4. CASE Released(j, jobs[j].claimed)
    BY <1>1, <1>3, <1>4, ReleasedKeepsInv DEF Gate, repo, store, hist, Still
  <1>5. CASE jobs' = [jobs EXCEPT ![j].at = "look", ![j].covered = IF mirror.open THEN mirror.covered ELSE 0]
    <2>1. PICK n : n = IF mirror.open THEN mirror.covered ELSE 0
      OBVIOUS
    <2>2. n \in Nat /\ n <= mirror.covered /\ mirror.covered \in Nat
      BY <1>1, <2>1 DEF WorldFits, Mirrors
    <2> DEFINE J == [jobs[j] EXCEPT !.at = "look", !.covered = n]
    <2>3. jobs' = [jobs EXCEPT ![j] = J]
      BY <1>5, <2>1
    <2>4. /\ J \in Sends /\ J.at = "look" /\ J.claimed = jobs[j].claimed /\ J.kept = {} /\ J.chunk = {}
          /\ J.session = jobs[j].session /\ J.covered = n
      BY ONLY <1>1, <1>2, <2>2 DEF Sends
    <2> HIDE DEF J
    <2>5. HandOf(J) = Hand(j)
      BY <1>3, <2>4 DEF HandOf
    <2>6. Shaped(J)
      <3>1. \A r, q \in HandOf(J) : r.id = q.id => r = q
        BY <1>1, <2>5 DEF Shaped
      <3>2. QED
        BY <1>2, <2>4, <3>1 DEF Shaped
    <2>7. Becomes(j, J)
      BY <2>3, <2>4 DEF Becomes
    <2>8. GivesUp(j, J) /\ \A i \in Ids' : items'[i] \in Items
      BY <1>1, <2>4, <2>5, KeepsRows DEF Gate, store
    <2>9. Looking'
      <3>1. /\ DOMAIN jobs' = DOMAIN jobs /\ jobs'[j] = J
            /\ \A k \in DOMAIN jobs : k # j => jobs'[k] = jobs[k]
        BY <1>1, <2>7, OneJobChanges
      <3>2. ~JobAt(j, "log")' /\ jobs'[j].covered <= mirror.covered
        BY <2>2, <2>4, <3>1 DEF JobAt
      <3>3. \A k \in DOMAIN jobs : k # j => SameLook(k)
        BY <3>1 DEF SameLook
      <3>4. QED
        BY <1>1, <3>1, <3>2, <3>3, LookingStays DEF Gate, Still, repo
    <2>10. OwedIsKept'
      BY <1>1, OwedStays DEF Gate, store, hist, Ids
    <2>11. QED
      BY <1>1, <2>6, <2>7, <2>8, <2>9, <2>10, JobStepKeepsInv DEF Gate, store, hist, Still, repo
  <1>6. QED
    BY <1>4, <1>5 DEF Gate

LEMMA TakesFits ==
    ASSUME live \subseteq Facts, desk \subseteq Edits, NEW rows \in SUBSET Claims, Takes(rows) \/ Untaken
    PROVE  live' \subseteq Facts /\ desk' \subseteq Edits
  <1>1. \A r \in rows : r.edit \in Edits
    BY DEF Claims
  <1>2. CASE Takes(rows)
    <2> DEFINE edits == {r.edit : r \in rows}
    <2>1. edits \subseteq Edits
      BY <1>1
    <2>2. /\ live' = live \cup {e.of : e \in {x \in edits : x.ask = "put" /\ x.of \in Mappings}}
          /\ desk' \subseteq desk \cup edits
      BY <1>2 DEF Takes
    <2> HIDE DEF edits
    <2>3. \A e \in edits : e.of \in Facts
      BY <2>1 DEF Edits
    <2>4. QED
      BY <2>1, <2>2, <2>3
  <1>3. CASE Untaken
    BY <1>3 DEF Untaken
  <1>4. QED
    BY <1>2, <1>3

LEMMA PostKeepsInv ==
    ASSUME Inv, NEW j \in DOMAIN jobs, Post(j)
    PROVE  Inv'
  <1>1. /\ jobs \in Seq(Sends) /\ live \subseteq Facts /\ desk \subseteq Edits
        /\ jobs[j] \in Sends /\ Shaped(jobs[j]) /\ Hand(j) = HandOf(jobs[j])
    BY SendStart
  <1>2. jobs[j].at = "post" /\ jobs[j].claimed = {}
    BY <1>1 DEF Post, JobAt, Shaped
  <1>3. Remainder(j) = Hand(j)
    BY <1>1, <1>2 DEF HandOf, Remainder
  <1>4. jobs[j].chunk \in SUBSET Claims
    BY ONLY <1>1 DEF Sends
  <1>5. live' \subseteq Facts /\ desk' \subseteq Edits
    BY <1>1, <1>4, TakesFits DEF Post
  <1>6. PICK rows : rows = Remainder(j)
    OBVIOUS
  <1>7. CASE Released(j, Remainder(j))
    <2>1. Released(j, rows)
      BY <1>6, <1>7
    <2>2. QED
      BY <1>3, <1>5, <1>6, <2>1, ReleasedKeepsInv DEF Post, store, Still
  <1>8. CASE jobs' = jobs
    BY <1>1, <1>5, <1>8, QuietStepKeepsInv, SendStart DEF Post, store, Still, RequestsFit
  <1>9. CASE jobs' = [jobs EXCEPT ![j].at = "complete"]
    <2> DEFINE J == [jobs[j] EXCEPT !.at = "complete"]
    <2>1. jobs' = [jobs EXCEPT ![j] = J]
      BY <1>9
    <2>2. /\ J \in Sends /\ J.at = "complete" /\ J.claimed = {} /\ J.kept = jobs[j].kept /\ J.chunk = jobs[j].chunk
          /\ J.session = jobs[j].session /\ J.covered = jobs[j].covered
      BY ONLY <1>1, <1>2 DEF Sends
    <2> HIDE DEF J
    <2>3. HandOf(J) = Hand(j)
      BY <1>1, <1>2, <2>2 DEF HandOf
    <2>4. Shaped(J)
      <3>1. \A r, q \in HandOf(J) : r.id = q.id => r = q
        BY <1>1, <2>3 DEF Shaped
      <3>2. QED
        BY <1>1, <2>2, <3>1 DEF Shaped
    <2>5. Moves(j, J)
      BY <2>1, <2>2, <2>4 DEF Moves, Becomes
    <2>6. QED
      BY <1>5, <2>2, <2>3, <2>5, KeepingStepKeepsInv DEF Post, store, Still
  <1>10. QED
    BY <1>7, <1>8, <1>9 DEF Post

LEMMA CancelKeepsInv ==
    ASSUME Inv, NEW j \in DOMAIN jobs, Cancel(j)
    PROVE  Inv'
  <1>1. /\ jobs \in Seq(Sends) /\ live \subseteq Facts /\ desk \subseteq Edits
        /\ jobs[j] \in Sends /\ Shaped(jobs[j]) /\ Hand(j) = HandOf(jobs[j])
        /\ StoreFits /\ Looking /\ mirror.session # 0 /\ OwedIsKept /\ ledger \in Seq(Entries)
    BY SendStart
  <1>2. CASE jobs[j].at = "queued"
    <2>1. Becomes(j, Ended(j)) /\ Moves(j, Ended(j)) /\ HandOf(Ended(j)) = {} /\ Ended(j).session = 0
      BY <1>1, <1>2, EndedJob DEF Cancel, Becomes, Moves
    <2>2. Hand(j) = {} /\ jobs[j].session = 0
      BY <1>1, <1>2 DEF Shaped
    <2>3. QED
      BY <1>1, <2>1, <2>2, KeepingStepKeepsInv DEF Cancel, store, repo, hist
  <1>3. CASE jobs[j].at # "queued"
    <2> DEFINE J == [jobs[j] EXCEPT !.canceled = TRUE]
    <2>1. jobs' = [jobs EXCEPT ![j] = J]
      BY <1>3 DEF Cancel
    <2>2. /\ J \in Sends /\ J.at = jobs[j].at /\ J.claimed = jobs[j].claimed /\ J.kept = jobs[j].kept
          /\ J.chunk = jobs[j].chunk /\ J.session = jobs[j].session /\ J.covered = jobs[j].covered
      BY ONLY <1>1 DEF Sends
    <2> HIDE DEF J
    <2>3. HandOf(J) = Hand(j)
      BY <1>1, <2>2 DEF HandOf
    <2>4. Shaped(J)
      <3>1. \A r, q \in HandOf(J) : r.id = q.id => r = q
        BY <1>1, <2>3 DEF Shaped
      <3>2. QED
        BY <1>1, <2>2, <2>3, <3>1 DEF Shaped
    <2>5. Becomes(j, J)
      BY <2>1, <2>2 DEF Becomes
    <2>6. GivesUp(j, J) /\ \A i \in Ids' : items'[i] \in Items
      BY <1>1, <2>2, <2>3, KeepsRows DEF Cancel, store
    <2>7. Looking'
      <3>1. /\ DOMAIN jobs' = DOMAIN jobs /\ jobs'[j] = J
            /\ \A k \in DOMAIN jobs : k # j => jobs'[k] = jobs[k]
        BY <1>1, <2>5, OneJobChanges
      <3>2. \A k \in DOMAIN jobs : SameLook(k)
        BY <2>2, <3>1 DEF SameLook
      <3>3. QED
        BY <1>1, <3>1, <3>2, LookingStays DEF Cancel, repo
    <2>8. OwedIsKept'
      BY <1>1, OwedStays DEF Cancel, store, hist, Ids
    <2>9. QED
      BY <1>1, <2>4, <2>5, <2>6, <2>7, <2>8, JobStepKeepsInv DEF Cancel, store, hist, repo
  <1>4. QED
    BY <1>2, <1>3

\* A send is done with a row that was found on the repository, sent or failed.
LEMMA RowStepKeepsInv ==
    ASSUME Inv, NEW j \in DOMAIN jobs, NEW J, NEW row \in Hand(j), Moves(j, J), HandOf(J) = Hand(j) \ {row},
           \/ ~Alive(jobs[j].session) /\ items' = items
           \/ Alive(jobs[j].session) /\ items' = Without({row.id})
           \/ Alive(jobs[j].session) /\ items' = Marked(Ids \cap {row.id}, "failed"),
           mirror' = mirror, repo' = repo, req' = req, staged' = staged, gone' = gone, owed' \subseteq owed,
           ledger' \in Seq(Entries), DOMAIN ledger \subseteq DOMAIN ledger',
           \A k \in DOMAIN ledger : ledger'[k].n = ledger[k].n,
           Alive(jobs[j].session) /\ items' = Without({row.id}) =>
              row.n \notin owed' \/ \E k \in DOMAIN ledger' : ledger'[k].n = row.n
    PROVE  Inv'
  <1>1. /\ jobs \in Seq(Sends) /\ live \subseteq Facts /\ desk \subseteq Edits /\ Backed(j)
        /\ StoreFits /\ Looking /\ mirror.session # 0 /\ OwedIsKept /\ ledger \in Seq(Entries)
    BY SendStart
  <1>2. GivesUp(j, J) /\ \A i \in Ids' : items'[i] \in Items
    <2>1. J.session = jobs[j].session \/ (J.session = 0 /\ HandOf(J) = {})
      BY DEF Moves
    <2>2. QED
      BY <1>1, <2>1, GivesUpRow
  <1>3. Looking'
    BY <1>1, MovesKeepLooking DEF repo
  <1>4. OwedIsKept'
    <2>1. SUFFICES ASSUME NEW n \in owed', ~\E k \in DOMAIN ledger' : ledger'[k].n = n
                   PROVE  n \in Rows(Ids)'
      BY DEF OwedIsKept
    <2>2. ~\E k \in DOMAIN ledger : ledger[k].n = n
      BY <2>1
    <2>3. PICK i \in Ids : items[i].n = n
      BY <1>1, <2>1, <2>2 DEF OwedIsKept, Rows
    <2>4. CASE items' = Without({row.id}) /\ Alive(jobs[j].session)
      <3>1. items[row.id].n = row.n
        BY <1>1, <2>4 DEF Backed
      <3>2. row.n # n
        BY <2>1, <2>4
      <3>3. i \in Ids \ {row.id}
        BY <2>3, <3>1, <3>2
      <3>4. i \in Ids' /\ items'[i].n = n
        BY <2>3, <2>4, <3>3, RowsWithout DEF Ids
      <3>5. QED
        BY <3>4 DEF Rows
    <2>5. CASE items' = Marked(Ids \cap {row.id}, "failed")
      <3>1. items[i] \in Items
        BY <1>1 DEF StoreFits
      <3>2. i \in Ids' /\ items'[i].n = n
        BY <2>3, <2>5, <3>1, MarkedRows DEF Ids
      <3>3. QED
        BY <3>2 DEF Rows
    <2>6. CASE items' = items
      BY <2>3, <2>6 DEF Rows, Ids
    <2>7. QED
      BY <2>4, <2>5, <2>6
  <1>5. QED
    BY <1>1, <1>2, <1>3, <1>4, JobStepKeepsInv DEF Moves, repo

LEMMA DroppedKeepsInv ==
    ASSUME Inv, NEW j \in DOMAIN jobs, jobs[j].at \in {"look", "log"}, Dropped(j),
           mirror' = mirror, repo' = repo, req' = req, staged' = staged, gone' = gone, ledger' = ledger
    PROVE  Inv'
  <1>1. jobs \in Seq(Sends) /\ Shaped(jobs[j]) /\ ledger \in Seq(Entries)
    BY SendStart
  <1>2. PICK row : row = Current(j)
    OBVIOUS
  <1>3. PICK J : Moves(j, J) /\ HandOf(J) = Hand(j) \ {row}
    BY <1>1, <1>2, LookedMoves DEF Dropped
  <1>4. row \in Hand(j)
    BY <1>1, <1>2, LookedMoves DEF Dropped
  <1>5. owed' = owed \ {row.n} /\ items' = IF Alive(jobs[j].session) THEN Without({row.id}) ELSE items
    BY <1>2 DEF Dropped
  <1>6. QED
    BY <1>1, <1>3, <1>4, <1>5, RowStepKeepsInv

LEMMA KeptKeepsInv ==
    ASSUME Inv, NEW j \in DOMAIN jobs, jobs[j].at \in {"look", "log"}, Kept(j),
           mirror' = mirror, repo' = repo, req' = req, staged' = staged, gone' = gone, ledger' = ledger
    PROVE  Inv'
  <1>1. /\ jobs \in Seq(Sends) /\ jobs[j] \in Sends /\ Shaped(jobs[j]) /\ mirror.session # 0 /\ Looking /\ OwedIsKept
        /\ StoreFits /\ live \subseteq Facts /\ desk \subseteq Edits /\ ledger \in Seq(Entries)
    BY SendStart
  <1>2. PICK cur : cur = Current(j)
    OBVIOUS
  <1>3. cur \in jobs[j].claimed /\ cur \notin jobs[j].kept
    <2>1. jobs[j].claimed # {} /\ jobs[j].claimed \cap jobs[j].kept = {}
      BY <1>1 DEF Shaped
    <2>2. QED
      BY <1>1, <1>2, <2>1, CurrentIsClaimed
  <1>4. PICK kept : kept = jobs[j].kept \cup {cur}
    OBVIOUS
  <1>5. Looked(j, kept) /\ kept # jobs[j].kept /\ kept \in {jobs[j].kept, jobs[j].kept \cup {Current(j)}}
    BY <1>2, <1>3, <1>4 DEF Kept
  <1>6. PICK J : Moves(j, J) /\ HandOf(J) = Hand(j)
    BY <1>1, <1>5, LookedMoves
  <1>7. items' = items /\ owed' = owed
    BY DEF Kept
  <1>8. HandOf(J) # {}
    BY <1>3, <1>6 DEF Hand
  <1>9. J.session = jobs[j].session
    BY <1>6, <1>8 DEF Moves
  <1>10. QED
    BY <1>1, <1>6, <1>7, <1>9, KeepingStepKeepsInv DEF repo

LEMMA UnreadableKeepsInv ==
    ASSUME Inv, NEW j \in DOMAIN jobs, jobs[j].at \in {"look", "log"}, Unreadable(j),
           mirror' = mirror, repo' = repo, req' = req, staged' = staged, gone' = gone, ledger' = ledger
    PROVE  Inv'
  <1>1. Shaped(jobs[j]) /\ live \subseteq Facts /\ desk \subseteq Edits
    BY SendStart
  <1>2. PICK rows : rows = jobs[j].claimed \cup jobs[j].kept
    OBVIOUS
  <1>3. rows = Hand(j)
    BY <1>1, <1>2 DEF Shaped, Hand
  <1>4. Released(j, rows) /\ items' = items /\ owed' = owed
    BY <1>2 DEF Unreadable
  <1>5. QED
    BY <1>1, <1>3, <1>4, ReleasedKeepsInv DEF repo

LEMMA RediffKeepsInv ==
    ASSUME Inv, NEW j \in DOMAIN jobs, Rediff(j)
    PROVE  Inv'
  <1>1. jobs[j].at \in {"look", "log"}
    BY DEF Rediff, JobAt
  <1>2. mirror' = mirror /\ repo' = repo /\ req' = req /\ staged' = staged /\ gone' = gone /\ ledger' = ledger
    BY DEF Rediff, Still
  <1>3. CASE Unreadable(j)
    BY <1>1, <1>2, <1>3, UnreadableKeepsInv
  <1>4. CASE Kept(j)
    BY <1>1, <1>2, <1>4, KeptKeepsInv
  <1>5. CASE Dropped(j)
    BY <1>1, <1>2, <1>5, DroppedKeepsInv
  <1>6. ASSUME mirror.open, ~Askable(Current(j).edit), Current(j).edit.ask = "take",
               Current(j).edit.of \in Mappings,
               jobs' = [jobs EXCEPT ![j].at = "log"], UNCHANGED <<items, owed>>
        PROVE  Inv'
    <2>1. /\ jobs \in Seq(Sends) /\ jobs[j] \in Sends /\ Shaped(jobs[j]) /\ mirror.session # 0 /\ Looking /\ OwedIsKept
          /\ StoreFits /\ live \subseteq Facts /\ desk \subseteq Edits /\ ledger \in Seq(Entries)
          /\ Hand(j) = HandOf(jobs[j]) /\ WorldFits
      BY SendStart
    <2> DEFINE J == [jobs[j] EXCEPT !.at = "log"]
    <2>2. jobs' = [jobs EXCEPT ![j] = J]
      BY <1>6
    <2>3. /\ J \in Sends /\ J.at = "log" /\ J.claimed = jobs[j].claimed /\ J.kept = jobs[j].kept
          /\ J.chunk = jobs[j].chunk /\ J.session = jobs[j].session /\ J.covered = jobs[j].covered
      BY ONLY <2>1 DEF Sends
    <2> HIDE DEF J
    <2>4. HandOf(J) = Hand(j)
      BY <2>1, <2>3 DEF HandOf
    <2>5. Shaped(J)
      <3>1. \A r, q \in HandOf(J) : r.id = q.id => r = q
        BY <2>1, <2>4 DEF Shaped
      <3>2. QED
        BY <1>1, <2>1, <2>3, <3>1 DEF Shaped
    <2>6. Becomes(j, J)
      BY <2>2, <2>3 DEF Becomes
    <2>7. GivesUp(j, J) /\ \A i \in Ids' : items'[i] \in Items
      BY <1>6, <2>1, <2>3, <2>4, KeepsRows
    <2>8. OwedIsKept'
      BY <1>2, <1>6, <2>1, OwedStays DEF Ids
    <2>9. /\ DOMAIN jobs' = DOMAIN jobs /\ jobs'[j] = J
          /\ \A k \in DOMAIN jobs : k # j => jobs'[k] = jobs[k]
      BY <2>1, <2>6, OneJobChanges
    <2>10. Current(j)' = Current(j) /\ \A k \in DOMAIN jobs : k # j => Current(k)' = Current(k)
      BY <2>3, <2>9, CurrentIs
    <2>11. updates' = updates
      BY <1>2 DEF repo
    <2>12. Looking'
      <3>1. Covers'
        BY <1>2, <2>1, <2>11 DEF Looking, Covers
      <3>2. ASSUME NEW k \in DOMAIN jobs, k # j PROVE Seen(k)' /\ AtLog(k)'
        <4>1. JobAt(k, "log")' = JobAt(k, "log") /\ Alive(jobs[k].session)' = Alive(jobs[k].session)
          BY <1>2, <2>9, <3>2 DEF JobAt, Alive
        <4>2. Seen(k) /\ AtLog(k)
          BY <2>1 DEF Looking
        <4>3. Seen(k)'
          BY <1>2, <2>9, <2>10, <2>11, <3>2, <4>1, <4>2 DEF Seen
        <4>4. AtLog(k)'
          BY <2>10, <3>2, <4>1, <4>2 DEF AtLog
        <4>5. QED
          BY <4>3, <4>4
      <3>3. AtLog(j)'
        BY <1>6, <2>10 DEF AtLog
      <3>4. Seen(j)'
        <4>1. SUFFICES ASSUME Alive(jobs[j].session)
                       PROVE  /\ jobs[j].covered <= mirror.covered
                              /\ \/ jobs[j].covered = 0
                                 \/ \E u \in jobs[j].covered .. Len(updates) : Current(j).edit.of \notin updates[u]
          BY <1>2, <2>3, <2>9, <2>10, <2>11 DEF Seen, Alive
        <4>2. jobs[j].covered <= mirror.covered
          BY <2>1, <4>1 DEF Looking, Seen
        <4>3. /\ jobs[j].covered \in Nat /\ mirror.covered \in Nat /\ mirror.covered <= Len(updates)
              /\ Len(updates) \in Nat
          BY <2>1 DEF Sends, Mirrors, WorldFits
        <4>4. Current(j).edit.of \notin mirror.index
          BY <1>6 DEF Askable
        <4>5. jobs[j].covered # 0 => mirror.covered \in jobs[j].covered .. Len(updates)
                                     /\ mirror.index = updates[mirror.covered]
          BY <2>1, <4>2, <4>3 DEF Looking, Covers
        <4>6. QED
          BY <4>2, <4>4, <4>5
      <3>5. QED
        BY <2>9, <3>1, <3>2, <3>3, <3>4 DEF Looking
    <2>13. QED
      BY <1>2, <1>6, <2>1, <2>5, <2>6, <2>7, <2>8, <2>11, <2>12, JobStepKeepsInv DEF repo
  <1>7. QED
    BY <1>3, <1>4, <1>5, <1>6 DEF Rediff

LEMMA RediffLogKeepsInv ==
    ASSUME Inv, NEW j \in DOMAIN jobs, RediffLog(j)
    PROVE  Inv'
  <1>1. jobs[j].at \in {"look", "log"}
    BY DEF RediffLog, JobAt
  <1>2. mirror' = mirror /\ repo' = repo /\ req' = req /\ staged' = staged /\ gone' = gone /\ ledger' = ledger
    BY DEF RediffLog, Still
  <1>3. Unreadable(j) \/ Kept(j) \/ Dropped(j)
    BY DEF RediffLog
  <1>4. QED
    BY <1>1, <1>2, <1>3, UnreadableKeepsInv, KeptKeepsInv, DroppedKeepsInv

LEMMA CompleteKeepsInv ==
    ASSUME Inv, NEW j \in DOMAIN jobs, Complete(j)
    PROVE  Inv'
  <1>1. /\ jobs \in Seq(Sends) /\ jobs[j] \in Sends /\ Shaped(jobs[j]) /\ ledger \in Seq(Entries)
        /\ Hand(j) = HandOf(jobs[j]) /\ WorldFits
    BY SendStart
  <1>2. jobs[j].at = "complete" /\ jobs[j].claimed = {} /\ jobs[j].kept \cap jobs[j].chunk = {}
    BY <1>1 DEF Complete, JobAt, Shaped
  <1>3. PICK row \in jobs[j].chunk :
           /\ IF Alive(jobs[j].session)
              THEN ledger' = Append(ledger, LedgerRow(row)) /\ items' = Without({row.id})
              ELSE UNCHANGED store
           /\ IF jobs[j].chunk = {row} THEN PostsNext(j, jobs[j].kept)
              ELSE jobs' = [jobs EXCEPT ![j].chunk = @ \ {row}]
    BY DEF Complete
  <1>4. /\ mirror' = mirror /\ repo' = repo /\ req' = req /\ staged' = staged /\ gone' = gone /\ owed' = owed
    BY DEF Complete, Still, hist
  <1>5. row \in Hand(j) /\ row \notin jobs[j].kept
    BY <1>2 DEF Hand
  <1>6. PICK J : Moves(j, J) /\ HandOf(J) = Hand(j) \ {row}
    <2>1. CASE jobs[j].chunk = {row}
      <3>1. PICK rows : rows = jobs[j].kept
        OBVIOUS
      <3>2. rows \subseteq Hand(j) /\ rows = Hand(j) \ {row} /\ PostsNext(j, rows)
        BY <1>2, <1>3, <1>5, <2>1, <3>1 DEF Hand
      <3>3. QED
        BY <1>1, <3>2, PostsNextMoves
    <2>2. CASE jobs[j].chunk # {row}
      <3> DEFINE K == [jobs[j] EXCEPT !.chunk = jobs[j].chunk \ {row}]
      <3>1. jobs' = [jobs EXCEPT ![j] = K]
        BY <1>3, <2>2
      <3>2. /\ K \in Sends /\ K.at = "complete" /\ K.claimed = {} /\ K.kept = jobs[j].kept
            /\ K.chunk = jobs[j].chunk \ {row}
            /\ K.session = jobs[j].session /\ K.covered = jobs[j].covered
        BY ONLY <1>1, <1>2 DEF Sends
      <3> HIDE DEF K
      <3>3. HandOf(K) = Hand(j) \ {row}
        BY <1>1, <1>2, <1>5, <3>2 DEF HandOf
      <3>4. Shaped(K)
        <4>1. \A r, q \in HandOf(K) : r.id = q.id => r = q
          BY <1>1, <3>3 DEF Shaped
        <4>2. QED
          BY <1>2, <3>2, <4>1 DEF Shaped
      <3>5. QED
        BY <3>1, <3>2, <3>3, <3>4 DEF Moves, Becomes
    <2>3. QED
      BY <2>1, <2>2
  <1>7. CASE Alive(jobs[j].session)
    <2>1. PICK new : new = LedgerRow(row)
      OBVIOUS
    <2>2. new \in Entries /\ new.n = row.n
      <3>1. row \in Claims
        BY <1>1 DEF Sends
      <3>2. Len(updates) + 1 \in Nat \ {0}
        BY <1>1 DEF WorldFits
      <3>3. QED
        BY ONLY <2>1, <3>1, <3>2 DEF LedgerRow, Claims, Entries
    <2>3. ledger' = Append(ledger, new) /\ items' = Without({row.id})
      BY <1>3, <1>7, <2>1
    <2>4. /\ ledger' \in Seq(Entries) /\ DOMAIN ledger \subseteq DOMAIN ledger'
          /\ \A k \in DOMAIN ledger : ledger'[k].n = ledger[k].n
          /\ Len(ledger) + 1 \in DOMAIN ledger' /\ ledger'[Len(ledger) + 1] = new
      BY <1>1, <2>2, <2>3, AppendProperties
    <2>5. \E k \in DOMAIN ledger' : ledger'[k].n = row.n
      BY <2>2, <2>4
    <2>6. QED
      BY <1>4, <1>5, <1>6, <1>7, <2>3, <2>4, <2>5, RowStepKeepsInv
  <1>8. CASE ~Alive(jobs[j].session)
    BY <1>1, <1>3, <1>4, <1>5, <1>6, <1>8, RowStepKeepsInv DEF store
  <1>9. QED
    BY <1>7, <1>8

LEMMA FailItemKeepsInv ==
    ASSUME Inv, NEW j \in DOMAIN jobs, FailItem(j)
    PROVE  Inv'
  <1>1. /\ jobs \in Seq(Sends) /\ jobs[j] \in Sends /\ Shaped(jobs[j]) /\ ledger \in Seq(Entries)
        /\ Hand(j) = HandOf(jobs[j]) /\ StoreFits /\ Backed(j)
    BY SendStart
  <1>2. jobs[j].at = "fail" /\ jobs[j].claimed = {} /\ jobs[j].chunk = {}
    BY <1>1 DEF FailItem, JobAt, Shaped
  <1>3. PICK row \in jobs[j].kept :
           /\ items' = IF Alive(jobs[j].session) THEN Marked(Ids \cap {row.id}, "failed") ELSE items
           /\ jobs' = IF jobs[j].kept = {row} THEN [jobs EXCEPT ![j] = Ended(j)]
                      ELSE [jobs EXCEPT ![j].kept = @ \ {row}]
    BY DEF FailItem
  <1>4. /\ mirror' = mirror /\ repo' = repo /\ req' = req /\ staged' = staged /\ gone' = gone /\ owed' = owed
        /\ ledger' = ledger
    BY DEF FailItem, Still, hist
  <1>5. row \in Hand(j)
    BY DEF Hand
  <1>6. PICK J : Moves(j, J) /\ HandOf(J) = Hand(j) \ {row}
    <2>1. CASE jobs[j].kept = {row}
      <3>1. Hand(j) \ {row} = {}
        BY <1>2, <2>1 DEF Hand
      <3>2. jobs' = [jobs EXCEPT ![j] = Ended(j)]
        BY <1>3, <2>1
      <3>3. QED
        BY <1>1, <3>1, <3>2, EndedJob DEF Moves, Becomes
    <2>2. CASE jobs[j].kept # {row}
      <3> DEFINE K == [jobs[j] EXCEPT !.kept = jobs[j].kept \ {row}]
      <3>1. jobs' = [jobs EXCEPT ![j] = K]
        BY <1>3, <2>2
      <3>2. /\ K \in Sends /\ K.at = "fail" /\ K.claimed = {} /\ K.kept = jobs[j].kept \ {row} /\ K.chunk = {}
            /\ K.session = jobs[j].session /\ K.covered = jobs[j].covered
        BY ONLY <1>1, <1>2 DEF Sends
      <3> HIDE DEF K
      <3>3. HandOf(K) = Hand(j) \ {row}
        BY <1>1, <1>2, <3>2 DEF HandOf
      <3>4. Shaped(K)
        <4>1. \A r, q \in HandOf(K) : r.id = q.id => r = q
          BY <1>1, <3>3 DEF Shaped
        <4>2. QED
          BY <3>2, <4>1 DEF Shaped
      <3>5. QED
        BY <3>1, <3>2, <3>3, <3>4 DEF Moves, Becomes
    <2>3. QED
      BY <2>1, <2>2
  <1>7. Alive(jobs[j].session) /\ items' = Without({row.id}) => FALSE
    <2>1. SUFFICES ASSUME Alive(jobs[j].session), items' = Without({row.id}) PROVE FALSE
      OBVIOUS
    <2>2. row.id \in Ids
      BY <1>1, <1>5, <2>1 DEF Backed
    <2>3. Ids' = Ids
      BY <1>3, <2>1, MarkedRows DEF Ids
    <2>4. Ids' = Ids \ {row.id}
      BY <2>1, RowsWithout DEF Ids
    <2>5. QED
      BY <2>2, <2>3, <2>4
  <1>8. QED
    BY <1>1, <1>3, <1>4, <1>5, <1>6, <1>7, RowStepKeepsInv

LEMMA ClaimKeepsInv ==
    ASSUME Inv, NEW j \in DOMAIN jobs, Claim(j)
    PROVE  Inv'
  <1>1. /\ WorldFits /\ StoreFits /\ ledger \in Seq(Entries) /\ jobs \in Seq(Sends) /\ RequestsFit /\ TypeOK
        /\ mirror.session # 0 /\ mirror.session \in Nat /\ Shapes /\ Claimed /\ Looking /\ OwedIsKept
        /\ live \subseteq Facts /\ desk \subseteq Edits
        /\ jobs[j] \in Sends /\ Shaped(jobs[j]) /\ Hand(j) = HandOf(jobs[j])
    BY SendStart DEF Inv
  <1>2. jobs[j].at = "queued" /\ jobs[j].session = 0 /\ Hand(j) = {}
    BY <1>1 DEF Claim, JobAt, Shaped
  <1>3. PICK ids : ids = IF mirror.open THEN Claimable(j) ELSE {}
    OBVIOUS
  <1>4. /\ items' = Marked(ids, "sending")
        /\ jobs' = [jobs EXCEPT ![j] =
             IF ids = {} THEN Ended(j)
             ELSE [@ EXCEPT !.at = "gate", !.session = mirror.session, !.claimed = {Row(i) : i \in ids}]]
    BY <1>3 DEF Claim
  <1>5. ids \subseteq Unsent /\ ids \subseteq Ids
    BY <1>3 DEF Claimable, Unsent
  <1>6. /\ mirror' = mirror /\ repo' = repo /\ req' = req /\ staged' = staged /\ gone' = gone /\ owed' = owed
        /\ ledger' = ledger
    BY DEF Claim, Still, hist
  <1>7. /\ Ids' = Ids /\ \A i \in Ids : i \notin ids => items'[i] = items[i]
        /\ \A i \in Ids : items'[i] \in Items /\ items'[i].n = items[i].n
    <2>1. \A i \in Ids : items[i] \in Items
      BY <1>1 DEF StoreFits
    <2>2. QED
      BY <1>4, <2>1, MarkedRows DEF Ids
  <1>8. OwedIsKept'
    BY <1>1, <1>6, <1>7, OwedStays
  <1>9. CASE ids = {}
    <2>1. Moves(j, Ended(j)) /\ HandOf(Ended(j)) = {} /\ Ended(j).session = 0
      BY <1>1, <1>4, <1>9, EndedJob DEF Moves, Becomes
    <2>2. GivesUp(j, Ended(j))
      BY <1>2, <1>7, <1>9, <2>1 DEF GivesUp
    <2>3. Looking'
      BY <1>1, <1>6, <2>1, MovesKeepLooking DEF repo
    <2>4. QED
      BY <1>1, <1>6, <1>7, <1>8, <2>1, <2>2, <2>3, JobStepKeepsInv DEF Moves, repo
  <1>10. CASE ids # {}
    <2>1. mirror.open
      BY <1>3, <1>10
    <2>2. PICK rows : rows = {Row(i) : i \in ids}
      OBVIOUS
    <2> DEFINE J == [jobs[j] EXCEPT !.at = "gate", !.session = mirror.session, !.claimed = rows]
    <2>3. jobs' = [jobs EXCEPT ![j] = J]
      BY <1>4, <1>10, <2>2
    <2>4. \A i \in ids : Row(i) \in Claims /\ Row(i).id = i
      <3>1. \A i \in ids : items[i] \in Items /\ i \in Nat
        BY <1>1, <1>5 DEF StoreFits
      <3>2. QED
        BY <3>1 DEF Row, Claims, Items
    <2>5. /\ rows \in SUBSET Claims /\ rows # {}
          /\ \A r, q \in rows : r.id = q.id => r = q
      BY <1>10, <2>2, <2>4
    <2>6. jobs[j].kept = {} /\ jobs[j].chunk = {}
      BY <1>1, <1>2 DEF HandOf
    <2>7. /\ J \in Sends /\ J.at = "gate" /\ J.session = mirror.session /\ J.claimed = rows
          /\ J.kept = {} /\ J.chunk = {}
      BY ONLY <1>1, <2>5, <2>6 DEF Sends
    <2>8. J.covered = jobs[j].covered
      BY ONLY <1>1 DEF Sends
    <2> HIDE DEF J
    <2>9. HandOf(J) = rows
      BY <2>7 DEF HandOf
    <2>10. Shaped(J)
      BY <2>5, <2>7, <2>9 DEF Shaped
    <2>11. Becomes(j, J)
      BY <2>3, <2>7 DEF Becomes
    <2>12. /\ jobs' \in Seq(Sends) /\ DOMAIN jobs' = DOMAIN jobs /\ jobs'[j] = J
           /\ \A k \in DOMAIN jobs : k # j => jobs'[k] = jobs[k]
      BY <1>1, <2>11, OneJobChanges
    <2>13. TypeOK'
      <3>1. StoreFits'
        BY <1>1, <1>6, <1>7, StoreShrinks
      <3>2. WorldFits' /\ RequestsFit'
        BY <1>1, <1>6 DEF WorldFits, RequestsFit, repo
      <3>3. QED
        BY <1>1, <1>6, <2>12, <3>1, <3>2, TypeParts
    <2>14. Claimed'
      BY <1>1, <1>2, <1>4, <1>5, <1>6, <2>1, <2>2, <2>7, <2>9, <2>11, ClaimingKeepsClaims
    <2>15. Shapes'
      <3>1. \A k \in DOMAIN jobs : jobs[k] \in Sends
        BY <1>1
      <3>2. J.session <= mirror'.session
        BY <1>1, <1>6, <2>7
      <3>3. QED
        BY <1>1, <1>6, <2>10, <2>12, <3>1, <3>2, ShapesStay
    <2>16. Looking'
      <3>1. ~JobAt(j, "log")'
        BY <2>7, <2>12 DEF JobAt
      <3>2. jobs'[j].covered <= mirror.covered
        <4>1. jobs[j].covered = 0
          BY <1>1, <1>2 DEF Shaped
        <4>2. mirror.covered \in Nat
          BY <1>1 DEF WorldFits, Mirrors
        <4>3. QED
          BY <2>8, <2>12, <4>1, <4>2
      <3>3. QED
        BY <1>1, <1>6, <2>12, <3>1, <3>2, LookingStays DEF SameLook, repo
    <2>17. QED
      BY <1>1, <1>6, <1>8, <2>13, <2>14, <2>15, <2>16 DEF Inv
  <1>11. QED
    BY <1>9, <1>10

-----------------------------------------------------------------------------
(* The theorems *)

LEMMA InitHasInv ==
    ASSUME Init
    PROVE  Inv
  <1>1. PICK known \in Starts :
           /\ live = known /\ updates = <<known>>
           /\ mirror = [open |-> TRUE, ready |-> TRUE, session |-> 1, index |-> known, covered |-> 1]
    BY DEF Init
  <1>2. known \in SUBSET Facts
    BY ContributionsAssumption
  <1>3. WorldFits
    <2>1. <<known>> \in Seq(SUBSET Facts) /\ <<known>> # <<>> /\ Len(<<known>>) = 1
      BY <1>2
    <2>2. QED
      BY <1>1, <1>2, <2>1 DEF WorldFits, Mirrors, Init
  <1>4. Ids = {} /\ StoreFits
    BY DEF Init, StoreFits, Ids
  <1>5. RequestsFit
    BY NoReqFits DEF Init, RequestsFit, Busy
  <1>6. jobs \in Seq(Sends) /\ DOMAIN jobs = {} /\ ledger \in Seq(Entries)
    BY DEF Init
  <1>7. TypeOK
    BY <1>3, <1>4, <1>5, <1>6, TypeParts
  <1>8. OwedIsKept /\ Shapes
    BY <1>6 DEF OwedIsKept, Shapes, Init
  <1>9. Claimed
    BY <1>4, <1>6 DEF Claimed, Numbered, OneEdit
  <1>10. Looking
    BY <1>1, <1>6 DEF Looking, Covers
  <1>11. mirror.session # 0
    BY <1>1
  <1>12. QED
    BY <1>7, <1>8, <1>9, <1>10, <1>11 DEF Inv

LEMMA NextKeepsInv ==
    ASSUME Inv, [Next]_vars
    PROVE  Inv'
  <1>1. ASSUME NEW c \in Callers, Begin(c) PROVE Inv'
    <2>1. ASSUME NEW commit \in BOOLEAN, NEW edits \in Batches, Submit(c, edits, commit) PROVE Inv'
      BY <2>1, SubmitKeepsInv
    <2>2. ASSUME NEW ids, Rescind(c, ids) PROVE Inv'
      BY <2>2, RescindKeepsInv
    <2>3. CASE Commit(c)
      BY <2>3, CommitKeepsInv
    <2>4. ASSUME NEW k \in DOMAIN ledger, Undo(c, k) PROVE Inv'
      BY <2>4, UndoKeepsInv
    <2>5. QED
      BY <1>1, <2>1, <2>2, <2>3, <2>4 DEF Begin
  <1>2. ASSUME NEW c \in Callers, Proceed(c) PROVE Inv'
    BY <1>2, LookKeepsInv, InsertKeepsInv, FindKeepsInv, EnqueueKeepsInv, GiveUpKeepsInv,
       UndoLooksKeepInv, UndoStampKeepsInv DEF Proceed
  <1>3. ASSUME NEW j \in DOMAIN jobs, JobStep(j) PROVE Inv'
    BY <1>3, ClaimKeepsInv, GateKeepsInv, RediffKeepsInv, RediffLogKeepsInv, PostKeepsInv,
       CompleteKeepsInv, FailItemKeepsInv DEF JobStep
  <1>4. CASE Operate
    BY <1>4, CancelKeepsInv, RetryKeepsInv, CloseKeepsInv, WipeKeepsInv, CrashKeepsInv DEF Operate
  <1>5. CASE UNCHANGED vars
    <2>1. RequestsFit /\ live \subseteq Facts /\ desk \subseteq Edits
      BY TypeParts DEF Inv, WorldFits
    <2>2. RequestsFit'
      BY <1>5, <2>1 DEF vars, RequestsFit
    <2>3. QED
      BY <1>5, <2>2, RequestMovesOn DEF vars, store, hist
  <1>6. QED
    BY <1>1, <1>2, <1>3, <1>4, <1>5, OpenKeepsInv, SyncKeepsInv, TrackKeepsInv, PublishKeepsInv, DecideKeepsInv
       DEF Next

LEMMA InvHolds == Spec => []Inv
  BY InitHasInv, NextKeepsInv, PTL DEF Spec

\* Rows, ledger, requests, sends and the mirror of the index stay what they are, ids and numbers stay
\* below what was staged, and a request at work has an edit.
THEOREM TypesHold == Spec => []TypeOK
  <1>1. Inv => TypeOK
    BY DEF Inv
  <1>2. QED
    BY <1>1, InvHolds, PTL

\* No acknowledged edit is lost (ContribStore: "they outlive a failed or interrupted send"): until it
\* is rescinded or found done, it is staged or in the ledger, through every cancel, crash and closing.
THEOREM EditsAreKept == Spec => []OwedIsKept
  <1>1. Inv => OwedIsKept
    BY DEF Inv
  <1>2. QED
    BY <1>1, InvHolds, PTL

LEMMA ClaimedIs ==
    ASSUME Inv
    PROVE  ClaimsHold
  <1>1. \A j : \A i : i \in InHand(j) <=> Owns(j, i)
    BY DEF InHand, Owns
  <1>2. /\ \A j, k \in DOMAIN jobs : \A i \in Ids : Owns(j, i) /\ Owns(k, i) => j = k
        /\ mirror.open => \A i \in Ids : items[i].status = "sending" => \E j \in DOMAIN jobs : Owns(j, i)
        /\ \A j \in DOMAIN jobs : Backed(j)
    BY DEF Inv, Claimed
  <1>3. NothingStrands
    BY <1>1, <1>2 DEF NothingStrands, Unsent
  <1>4. ASSUME NEW j \in DOMAIN jobs, NEW k \in DOMAIN jobs, j # k PROVE InHand(j) \cap InHand(k) = {}
    <2>1. \A i : Owns(j, i) => i \in Ids
      BY <1>2 DEF Owns, Backed
    <2>2. QED
      BY <1>1, <1>2, <1>4, <2>1
  <1>5. QED
    BY <1>3, <1>4 DEF ClaimsHold, OneSender

\* While the store is open, every row on its way is in the hand of a send that can put it back, and
\* no row is in two hands (failRemainder, ptrContribCommit).
THEOREM ClaimsAreHeld == Spec => []ClaimsHold
  BY InvHolds, ClaimedIs, PTL

LEMMA OnlyPostsTake ==
    ASSUME [Next]_vars, taken' # taken
    PROVE  \E j \in DOMAIN jobs : Post(j)
  <1>1. ASSUME NEW c \in Callers, Begin(c) PROVE FALSE
    BY <1>1 DEF Begin, Submit, Rescind, Commit, Undo, hist
  <1>2. ASSUME NEW c \in Callers, Proceed(c) PROVE FALSE
    <2>1. ~Refused(c)
      BY DEF Refused, hist
    <2>2. ~Look(c) /\ ~Ask(c) /\ ~Insert(c) /\ ~Find(c)
      BY <2>1 DEF Look, Ask, Insert, Find, hist
    <2>3. ~EnqueueContrib(c) /\ ~GiveUp(c) /\ ~EnqueueBacklog(c) /\ ~UndoLook(c) /\ ~UndoSince(c) /\ ~UndoStamp(c)
      BY DEF EnqueueContrib, GiveUp, EnqueueBacklog, UndoLook, UndoSince, UndoStamp, hist
    <2>4. QED
      BY <1>2, <2>2, <2>3 DEF Proceed
  <1>3. ASSUME NEW j \in DOMAIN jobs, JobStep(j), ~Post(j) PROVE FALSE
    <2>1. ~Claim(j) /\ ~Gate(j) /\ ~Complete(j) /\ ~FailItem(j)
      BY DEF Claim, Gate, Complete, FailItem, hist
    <2>2. ~Rediff(j) /\ ~RediffLog(j)
      BY DEF Rediff, RediffLog
    <2>3. QED
      BY <1>3, <2>1, <2>2 DEF JobStep
  <1>4. ~Operate
    BY DEF Operate, Cancel, Retry, Close, Wipe, Crash, hist
  <1>5. ~Open /\ ~Sync /\ ~Track /\ ~Publish /\ ~Decide /\ ~UNCHANGED vars
    BY DEF Open, Sync, Track, Publish, Decide, vars, hist
  <1>6. QED
    BY <1>1, <1>2, <1>3, <1>4, <1>5 DEF Next

LEMMA RescindsHold ==
    ASSUME Inv, [Next]_vars, NEW n \in (taken' \ taken) \cap gone
    PROVE  \E j \in DOMAIN jobs : ~Alive(jobs[j].session) /\ \E r \in jobs[j].chunk : r.n = n
  <1>1. PICK j \in DOMAIN jobs : Post(j)
    BY OnlyPostsTake
  <1>2. Takes(jobs[j].chunk) \/ Untaken
    BY <1>1 DEF Post
  <1>3. PICK r \in jobs[j].chunk : r.n = n
    BY <1>2 DEF Takes, Untaken
  <1>4. ASSUME Alive(jobs[j].session) PROVE FALSE
    <2>1. r \in Hand(j) /\ Backed(j) /\ Numbered
      BY SendStart DEF Hand, Claimed
    <2>2. r.id \in Ids /\ items[r.id].n = n
      BY <1>3, <1>4, <2>1 DEF Backed
    <2>3. QED
      BY <2>1, <2>2 DEF Numbered
  <1>5. QED
    BY <1>3, <1>4

LEMMA OnlyDropsForget ==
    ASSUME [Next]_vars, jobs' # jobs, NEW n \in owed \ owed'
    PROVE  \E k \in DOMAIN jobs : (Rediff(k) \/ RediffLog(k)) /\ Dropped(k)
  <1>1. ASSUME NEW c \in Callers, Begin(c) PROVE FALSE
    BY <1>1 DEF Begin, Submit, Rescind, Commit, Undo, hist
  <1>2. ASSUME NEW c \in Callers, Proceed(c) PROVE FALSE
    <2>1. ~Refused(c)
      BY DEF Refused, hist
    <2>2. ~Look(c) /\ ~Ask(c) /\ ~Insert(c) /\ ~Find(c)
      BY <2>1 DEF Look, Ask, Insert, Find, hist
    <2>3. ~EnqueueContrib(c) /\ ~GiveUp(c) /\ ~EnqueueBacklog(c) /\ ~UndoLook(c) /\ ~UndoSince(c) /\ ~UndoStamp(c)
      BY DEF EnqueueContrib, GiveUp, EnqueueBacklog, UndoLook, UndoSince, UndoStamp, hist
    <2>4. QED
      BY <1>2, <2>2, <2>3 DEF Proceed
  <1>3. ASSUME NEW j \in DOMAIN jobs, JobStep(j) PROVE (Rediff(j) \/ RediffLog(j)) /\ Dropped(j)
    <2>1. ~Claim(j) /\ ~Gate(j) /\ ~Complete(j) /\ ~FailItem(j) /\ ~Post(j)
      BY DEF Claim, Gate, Complete, FailItem, Post, hist
    <2>2. Rediff(j) \/ RediffLog(j)
      BY <1>3, <2>1 DEF JobStep
    <2>3. ~Kept(j) /\ ~Unreadable(j)
      BY DEF Kept, Unreadable
    <2>4. Dropped(j)
      BY <2>2, <2>3 DEF Rediff, RediffLog
    <2>5. QED
      BY <2>2, <2>4
  <1>4. ~Operate
    BY DEF Operate, Cancel, Retry, Close, Wipe, Crash, hist
  <1>5. ~Open /\ ~Sync /\ ~Track /\ ~Publish /\ ~Decide /\ ~UNCHANGED vars
    BY DEF Open, Sync, Track, Publish, Decide, vars, hist
  <1>6. QED
    BY <1>1, <1>2, <1>3, <1>4, <1>5 DEF Next

LEMMA DropsAreRight ==
    ASSUME Inv, [Next]_vars, NEW j \in DOMAIN jobs, JobAt(j, "log"), jobs' # jobs, Current(j).n \in owed \ owed'
    PROVE  ~Standing(Current(j).edit.of)
  <1>1. PICK k \in DOMAIN jobs : (Rediff(k) \/ RediffLog(k)) /\ Dropped(k)
    BY OnlyDropsForget
  <1>2. /\ jobs \in Seq(Sends) /\ Shaped(jobs[j]) /\ Shaped(jobs[k]) /\ Looking /\ OneEdit
        /\ jobs[k] \in Sends /\ ledger \in Seq(Entries) /\ WorldFits /\ jobs[k].at \in {"look", "log"}
    BY <1>1, SendStart DEF Claimed, Rediff, RediffLog, JobAt
  <1>3. PICK e : e = Current(j).edit
    OBVIOUS
  <1>4. Current(k).edit = e
    <2>1. Current(k).n = Current(j).n
      BY <1>1 DEF Dropped
    <2>2. jobs[j].claimed # {} /\ jobs[k].claimed # {}
      BY <1>2 DEF Shaped, JobAt
    <2>3. Current(j) \in Hand(j) /\ Current(k) \in Hand(k)
      BY <1>2, <2>2, CurrentIsClaimed DEF Hand
    <2>4. QED
      BY <1>2, <1>3, <2>1, <2>3 DEF OneEdit
  <1>5. e.ask = "take" /\ e.of \in Mappings
    BY <1>2, <1>3 DEF Looking, AtLog
  <1>6. e.of \notin Relations /\ owed' # owed
    BY <1>5, ContributionsAssumption
  <1>7. ~Kept(k) /\ ~Unreadable(k)
    BY <1>6 DEF Kept, Unreadable
  <1>8. ~Rediff(k)
    <2>1. SUFFICES ASSUME Rediff(k) PROVE FALSE
      OBVIOUS
    <2>2. \/ Current(k).edit.ask = "put" \/ Current(k).edit.of \in Relations
          \/ UNCHANGED <<items, owed>>
      BY <1>7, <2>1 DEF Rediff
    <2>3. QED
      BY <1>4, <1>5, <1>6, <2>2
  <1>9. RediffLog(k)
    BY <1>1, <1>8
  <1>10. /\ JobAt(k, "log") /\ Alive(jobs[k].session)
         /\ ~MappingAddCommittedSince(e.of, jobs[k].covered)
    BY <1>4, <1>7, <1>9 DEF RediffLog
  <1>11. \/ jobs[k].covered = 0
         \/ \E u \in jobs[k].covered .. Len(updates) : e.of \notin updates[u]
    BY <1>2, <1>4, <1>10 DEF Looking, Seen
  <1>12. ASSUME NEW l \in DOMAIN ledger, ledger[l].edit = [ask |-> "put", of |-> e.of],
                \A u \in ledger[l].at .. Len(updates) : e.of \in updates[u]
         PROVE  FALSE
    <2>1. ~(ledger[l].at > jobs[k].covered)
      BY <1>10, <1>12 DEF MappingAddCommittedSince
    <2>2. ledger[l].at \in Nat \ {0} /\ jobs[k].covered \in Nat /\ Len(updates) \in Nat
      <3>1. ledger[l] \in Entries
        BY <1>2
      <3>2. ledger[l].at \in Nat \ {0}
        BY ONLY <3>1 DEF Entries
      <3>3. jobs[k].covered \in Nat
        BY ONLY <1>2 DEF Sends
      <3>4. QED
        BY <1>2, <3>2, <3>3 DEF WorldFits
    <2>3. PICK u \in jobs[k].covered .. Len(updates) : e.of \notin updates[u]
      BY <1>11, <2>1, <2>2
    <2>4. u \in ledger[l].at .. Len(updates)
      BY <2>1, <2>2, <2>3
    <2>5. QED
      BY <1>12, <2>3, <2>4
  <1>13. QED
    BY <1>3, <1>12 DEF Standing

\* What a caller was told is rescinded is not posted, but by a send whose store was closed under it;
\* and a removal is dropped as done only if every add of the mapping was undone since (contribResolved:
\* "its rescind still has work to do").
THEOREM EditsStayHonoured == Spec => EditsAreHonoured
  <1>1. Inv /\ [Next]_vars => [\A n \in (taken' \ taken) \cap gone :
            \E j \in DOMAIN jobs : ~Alive(jobs[j].session) /\ \E r \in jobs[j].chunk : r.n = n]_vars
    BY RescindsHold
  <1>2. Inv /\ [Next]_vars => [\A j \in DOMAIN jobs :
            JobAt(j, "log") /\ jobs' # jobs /\ Current(j).n \in owed \ owed' => ~Standing(Current(j).edit.of)]_vars
    BY DropsAreRight
  <1>3. Spec => RescindedIsUnsent
    BY <1>1, InvHolds, PTL DEF Spec, RescindedIsUnsent
  <1>4. Spec => DropsAreSettled
    BY <1>2, InvHolds, PTL DEF Spec, DropsAreSettled
  <1>5. QED
    BY <1>3, <1>4 DEF EditsAreHonoured

==============================================================================
