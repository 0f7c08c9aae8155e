---------------------------- MODULE LookupsProofs ----------------------------
(***************************************************************************)
(* Proofs about Lookups: what monbooru is told of a run, and that it is    *)
(* told; which file the PTR's tags land on, and that only a whole index    *)
(* speaks; that a service's cooldown stands.  For any number of jobs and   *)
(* services, any lookup orders, and any number of lost calls, cancels,     *)
(* replaced files and restarts of the PTR engine.                          *)
(*                                                                         *)
(* A run of a job touches little but its own records, so the invariant is  *)
(* one of each run: RunOK(j, r) says what the record r of job j's run may  *)
(* say at the stage it is at, and the lemmas of the walk are about any     *)
(* such r.                                                                 *)
(***************************************************************************)
EXTENDS Lookups, TLAPS, NaturalsInduction, WellFoundedInduction

-----------------------------------------------------------------------------
(* Types *)

Stages  == {"off", "check", "ask", "read", "chain", "search", "cands", "ptr push", "online",
            "url", "resolve", "download", "file push", "report", "end"}
Walks   == {"chain", "search", "cands"}
Files   == 0 .. MaxFiles \cup {NoFile, Other, Broken}

\* What a trail may name beside a source.
Notables == STRING \cup {"ptr", "similarity"}

Runs == [at : Stages, chain : Seq(STRING), left : SUBSET Nat, thumb : {"untried", "have", "none"},
         trail : SUBSET Notables, cands : Nat, tries : Nat, hit : BOOLEAN,
         found : {"nothing", "exact", "similar", "link"}, post : Files, claim : Files,
         ptr : {"no", "hit", "empty", "applied"},
         landed : SUBSET {"ptr", "post", "file"},
         verdict : Good \cup {"none", "missed", "failed"}, failed : BOOLEAN,
         checked : {"no", "yes", "moved", "trusted"},
         misfit : BOOLEAN, ready : BOOLEAN, lossy : BOOLEAN]

Jobs == [kind : Kinds, sha : BOOLEAN, hash : 0 .. MaxFiles,
         status : {"none", "queued", "running", "succeeded", "failed", "canceled"},
         canceled : BOOLEAN, mute : BOOLEAN, n : Nat]

TypeOK ==
    /\ file \in 0 .. MaxFiles /\ ptr \in {"off", "syncing", "ready"} /\ clock \in Nat
    /\ until \in [Services -> Nat] /\ closed \in [Services -> SUBSET Nat]
    /\ job \in [Ids -> Jobs] /\ run \in [Ids -> Runs]
    /\ drops \subseteq [job : Ids, n : Nat]
    /\ told \in [Ids -> [n : Nat, good : BOOLEAN]] /\ heard \in [Ids -> Nat]
    /\ events \in Nat

-----------------------------------------------------------------------------
(* The inductive invariant *)

\* Source i of the order said why it gave nothing.
Explained(r, i) ==
    r.chain[i] \in r.trail \/ (r.chain[i] \in Services /\ "similarity" \in r.trail)

\* Every source asked so far did, or left a link.
Covered(j, r) ==
    /\ r.left # {} /\ r.left \subseteq Asked(j, r.chain)
    /\ \A i \in Asked(j, r.chain) \ r.left : r.hit \/ Explained(r, i)
    /\ r.thumb = "none" => "similarity" \in r.trail

Walked(j, r) ==
    /\ r.at \in Walks => Covered(j, r)
    /\ r.at = "cands" => r.cands > 0
    /\ r.at \in {"check", "ask", "read"} => r.chain = <<>> /\ r.thumb = "untried"
    /\ r.verdict = "missed" => /\ r.at \in {"report", "end"}
                               /\ \A i \in Asked(j, r.chain) : Explained(r, i)

Claimed(r) == r.claim # NoFile => r.claim = r.post

\* Whether the PTR was asked of the file that was checked.
Vouched(j, r) == r.ready /\ r.checked # "no" /\ Is(j, {"ptr", "all"})

Whole(j, r) ==
    /\ r.ptr # "no" \/ r.at \in {"read", "ptr push"} => Vouched(j, r)
    /\ r.at = "ask" /\ job[j].sha => r.checked # "no"
    /\ r.at = "check" => job[j].sha /\ r.checked = "no"
    /\ r.misfit => r.checked \in {"moved", "trusted"}
    /\ r.checked = "yes" => file = job[j].hash
    /\ ptr = "ready" /\ r.at \in {"check", "ask"} => r.ready

\* A run not under way, or over, has nothing of these.
Blank(r) ==
    r.at = "off" => /\ r.verdict = "none" /\ r.claim = NoFile /\ r.ptr = "no" /\ ~r.misfit
                    /\ r.checked = "no" /\ r.chain = <<>>

\* What changed the image, at each stage.
Landed(j, r) ==
    /\ r.at \notin {"online", "report", "end", "off"} => r.landed = {} /\ r.ptr # "applied"
    /\ r.at = "online" /\ ~r.lossy => (r.ptr = "applied" <=> r.landed # {})
    /\ r.at = "report" /\ ~r.lossy => (r.verdict \in Good <=> r.landed # {})
    /\ r.at = "url" => Is(j, {"hash"})

RunOK(j, r) == Walked(j, r) /\ Claimed(r) /\ Whole(j, r) /\ Blank(r) /\ Landed(j, r)

\* monbooru has heard of this run, and what it keeps of it is so.
Heard(j, r) ==
    heard[j] = job[j].n /\ (told[j].n = job[j].n => (told[j].good <=> r.landed # {}))

Settled(j) ==
    /\ job[j].status # "running" => run[j].at = "off"
    /\ job[j].status = "none" <=> job[j].n = 0
    /\ job[j].status = "queued" => ~job[j].canceled
    /\ job[j].kind = "ptr" => job[j].sha
    /\ heard[j] <= job[j].n
    /\ job[j].mute => job[j].status = "failed"
    /\ ~Is(j, {"hash"}) /\ ~run[j].lossy =>
         /\ run[j].at = "end" \/ job[j].status \in {"succeeded", "failed"} =>
              job[j].mute \/ Heard(j, run[j])
         /\ job[j].status = "canceled" /\ ~job[j].canceled =>
              heard[j] = job[j].n \/ [job |-> j, n |-> job[j].n] \in drops

\* A report of a drop is of a run that never was, or of an attempt before.
Dropped(d) ==
    /\ d.n <= job[d.job].n
    /\ d.n = job[d.job].n => job[d.job].status = "canceled"

\* A service is closed until the last it said.
Cooling == \A s \in Services : \A end \in closed[s] : end <= until[s]

Inv ==
    /\ TypeOK
    /\ Cooling
    /\ \A j \in Ids : RunOK(j, run[j]) /\ Settled(j)
    /\ \A d \in drops : Dropped(d)

-----------------------------------------------------------------------------
(* Lemmas of the walk *)

\* A record that a walk may carry: nothing of it changed the image yet.
Carried(j, r) ==
    /\ r \in Runs /\ Claimed(r)
    /\ r.verdict # "missed" /\ r.landed = {} /\ r.ptr # "applied"
    /\ r.ptr # "no" => Vouched(j, r)
    /\ r.misfit => r.checked \in {"moved", "trusted"}
    /\ r.checked = "yes" => file = job[j].hash

\* The service a record's turn is at has said nothing that is not over.
Open(r) == \A end \in closed[r.chain[Turn(r.left)]] : end <= clock

\* A record that a step of a run may leave; one that ends has told monbooru of itself,
\* unless its call was lost.
Onward(j, r) ==
    /\ r \in Runs /\ RunOK(j, r)
    /\ r.at # "off" /\ (r.at = "end" => Is(j, {"hash"}) \/ r.lossy)
    /\ r.at = "search" => run[j].at = "search" \/ Open(r)

\* A step that keeps the invariant, and asks no service that said it is closed.
Goes ==
    /\ Inv'
    /\ \A j \in Ids : run[j].at # "search" /\ run'[j].at = "search" =>
           \A end \in closed[Source(j)'] : end <= clock

LEMMA LeastNumber ==
    ASSUME NEW T \in SUBSET Nat, T # {}
    PROVE  \E x \in T : \A y \in T : x <= y
  <1>1. IsWellFoundedOn({ss \in Nat \X Nat : ss[1] < ss[2]}, Nat)
    BY NatLessThanWellFounded DEF OpToRel
  <1>2. PICK x \in T : \A y \in T : <<y, x>> \notin {ss \in Nat \X Nat : ss[1] < ss[2]}
    BY <1>1, WFMin
  <1>3. ASSUME NEW y \in T PROVE x <= y
    <2>1. SUFFICES ASSUME y < x PROVE FALSE
      BY SMT
    <2>2. QED
      BY <1>2, <2>1
  <1>4. QED
    BY <1>3

LEMMA TurnIsLeft ==
    ASSUME NEW left \in SUBSET Nat, left # {}
    PROVE  Turn(left) \in left
  BY LeastNumber DEF Turn

\* The source that is asked has a name.
LEMMA SourceIsNamed ==
    ASSUME TypeOK, NEW j \in Ids, run[j].at \in Walks, RunOK(j, run[j])
    PROVE  Source(j) \in Notables /\ Turn(run[j].left) \in run[j].left
  <1>1. run[j] \in Runs /\ run[j].chain \in Seq(STRING) /\ run[j].left \in SUBSET Nat
    BY DEF TypeOK, Runs
  <1>2. run[j].left # {} /\ run[j].left \subseteq DOMAIN run[j].chain
    BY DEF RunOK, Walked, Covered, Asked
  <1>3. Turn(run[j].left) \in run[j].left
    BY <1>1, <1>2, TurnIsLeft
  <1>4. QED
    BY <1>1, <1>2, <1>3 DEF Source, Notables

\* What the stage of a run does not touch.
Kept(s, r) ==
    /\ s.chain = r.chain /\ s.trail = r.trail /\ s.hit = r.hit /\ s.thumb = r.thumb
    /\ s.claim = r.claim /\ s.post = r.post /\ s.ptr = r.ptr /\ s.found = r.found
    /\ s.landed = r.landed /\ s.lossy = r.lossy
    /\ s.ready = r.ready /\ s.checked = r.checked /\ s.misfit = r.misfit

\* A walk that is over goes on by its match, or reports a miss that every source it
\* asked explains.
LEMMA MatchedIsOK ==
    ASSUME NEW j \in Ids, NEW r, Carried(j, r),
           r.found = "nothing" => \A i \in Asked(j, r.chain) : Explained(r, i)
    PROVE  Onward(j, Matched(j, r))
  <1>1. r \in Runs
    BY DEF Carried
  <1>2. CASE Is(j, {"hash"}) /\ r.found = "nothing"
    <2> DEFINE s == [ItemFails(r) EXCEPT !.verdict = "missed"]
    <2>0. r.ptr # "hit"
      BY <1>2 DEF Carried, Vouched, Is
    <2>1. Matched(j, r) = s
      BY <1>2, <2>0 DEF Matched
    <2>2. s \in Runs /\ s.at = "end" /\ Kept(s, r) /\ s.verdict = "missed"
      BY <1>1 DEF Runs, Stages, Kept, ItemFails
    <2> HIDE DEF s
    <2>3. RunOK(j, s)
      BY <1>2, <2>0, <2>2
         DEF Carried, RunOK, Walked, Claimed, Whole, Blank, Landed, Walks, Vouched, Kept, Explained
    <2>4. QED
      BY <1>2, <2>1, <2>2, <2>3 DEF Onward
  <1>3. CASE Is(j, {"hash"}) /\ r.found # "nothing"
    <2> DEFINE s == [r EXCEPT !.at = "url"]
    <2>0. r.ptr # "hit"
      BY <1>3 DEF Carried, Vouched, Is
    <2>1. Matched(j, r) = s
      BY <1>3, <2>0 DEF Matched
    <2>2. s \in Runs /\ s.at = "url" /\ Kept(s, r) /\ s.verdict = r.verdict
      BY <1>1 DEF Runs, Stages, Kept
    <2> HIDE DEF s
    <2>3. RunOK(j, s)
      BY <1>3, <2>0, <2>2
         DEF Carried, RunOK, Walked, Claimed, Whole, Blank, Landed, Walks, Vouched, Kept
    <2>4. QED
      BY <1>3, <2>1, <2>2, <2>3 DEF Onward
  <1>4. CASE ~Is(j, {"hash"}) /\ r.ptr = "hit"
    <2> DEFINE s == [r EXCEPT !.at = "ptr push"]
    <2>1. Matched(j, r) = s
      BY <1>4 DEF Matched
    <2>2. s \in Runs /\ s.at = "ptr push" /\ Kept(s, r) /\ s.verdict = r.verdict
      BY <1>1 DEF Runs, Stages, Kept
    <2> HIDE DEF s
    <2>3. RunOK(j, s)
      BY <1>4, <2>2
         DEF Carried, RunOK, Walked, Claimed, Whole, Blank, Landed, Walks, Vouched, Kept
    <2>4. QED
      BY <1>4, <2>1, <2>2, <2>3 DEF Onward
  <1>5. CASE ~Is(j, {"hash"}) /\ r.ptr # "hit" /\ r.found = "nothing"
    <2> DEFINE s == Failing(r, "missed")
    <2>1. Matched(j, r) = s
      BY <1>5 DEF Matched
    <2>2. s \in Runs /\ s.at = "report" /\ Kept(s, r) /\ s.verdict = "missed"
      BY <1>1 DEF Runs, Stages, Kept, Failing
    <2> HIDE DEF s
    <2>3. RunOK(j, s)
      BY <1>5, <2>2
         DEF Carried, RunOK, Walked, Claimed, Whole, Blank, Landed, Walks, Vouched, Kept, Explained, Good
    <2>4. QED
      BY <1>5, <2>1, <2>2, <2>3 DEF Onward
  <1>6. CASE ~Is(j, {"hash"}) /\ r.ptr # "hit" /\ r.found # "nothing"
    <2> DEFINE s == [r EXCEPT !.at = "online"]
    <2>1. Matched(j, r) = s
      BY <1>6 DEF Matched
    <2>2. s \in Runs /\ s.at = "online" /\ Kept(s, r) /\ s.verdict = r.verdict
      BY <1>1 DEF Runs, Stages, Kept
    <2> HIDE DEF s
    <2>3. RunOK(j, s)
      BY <1>6, <2>2
         DEF Carried, RunOK, Walked, Claimed, Whole, Blank, Landed, Walks, Vouched, Kept
    <2>4. QED
      BY <1>6, <2>1, <2>2, <2>3 DEF Onward
  <1>7. QED
    BY <1>2, <1>3, <1>4, <1>5, <1>6

\* The next source is asked, or the walk is over.
LEMMA PassesIsOK ==
    ASSUME NEW j \in Ids, NEW r, Carried(j, r), Covered(j, r),
           r.hit \/ Explained(r, Turn(r.left))
    PROVE  Onward(j, Passes(j, r))
  <1>1. r \in Runs
    BY DEF Carried
  <1> DEFINE rest == r.left \ {Turn(r.left)}
  <1>2. \A i \in Asked(j, r.chain) \ rest : r.hit \/ Explained(r, i)
    BY DEF Covered
  <1>3. CASE rest # {}
    <2> DEFINE s == [r EXCEPT !.left = rest, !.at = "chain"]
    <2>1. Passes(j, r) = s
      BY <1>3 DEF Passes
    <2>2. rest \in SUBSET Nat /\ rest \subseteq Asked(j, r.chain)
      BY <1>1 DEF Runs, Covered
    <2>3. s \in Runs /\ s.at = "chain" /\ s.left = rest /\ Kept(s, r) /\ s.verdict = r.verdict
      BY <1>1, <2>2 DEF Runs, Stages, Kept
    <2> HIDE DEF s
    <2>4. Covered(j, s)
      BY <1>2, <1>3, <2>2, <2>3 DEF Covered, Kept, Explained
    <2>5. RunOK(j, s)
      BY <2>3, <2>4
         DEF Carried, RunOK, Walked, Claimed, Whole, Blank, Landed, Walks, Vouched, Kept
    <2>6. QED
      BY <2>1, <2>3, <2>5 DEF Onward
  <1>4. CASE rest = {} /\ r.hit
    <2> DEFINE s == [Forgets(r) EXCEPT !.found = "link"]
    <2>1. Passes(j, r) = Matched(j, s)
      BY <1>4 DEF Passes
    <2>2. Carried(j, s) /\ s.found # "nothing"
      <3>1. /\ s \in Runs /\ s.found = "link" /\ s.claim = r.claim /\ s.post = r.post
            /\ s.ptr = r.ptr /\ s.landed = r.landed /\ s.verdict = r.verdict
            /\ s.ready = r.ready /\ s.checked = r.checked /\ s.misfit = r.misfit
        <4>1. {} \in SUBSET Nat /\ {} \in SUBSET Notables /\ <<>> \in Seq(STRING)
          OBVIOUS
        <4>2. QED
          BY <1>1, <4>1 DEF Forgets, Runs
      <3>2. QED
        BY <3>1 DEF Carried, Claimed, Vouched
    <2>3. Onward(j, Matched(j, s))
      BY <2>2, MatchedIsOK
    <2>4. QED
      BY <2>1, <2>3
  <1>5. CASE rest = {} /\ ~r.hit
    <2>1. Passes(j, r) = Matched(j, r)
      BY <1>5 DEF Passes
    <2>2. \A i \in Asked(j, r.chain) : Explained(r, i)
      BY <1>2, <1>5
    <2>3. QED
      BY <2>1, <2>2, MatchedIsOK
  <1>6. QED
    BY <1>3, <1>4, <1>5

\* What a walk forgets when a match ends it, and what it keeps.
LEMMA ForgottenIsCarried ==
    ASSUME NEW j \in Ids, NEW r, Carried(j, r), NEW post \in Files, NEW claim \in Files,
           claim # NoFile => claim = post, NEW found \in {"exact", "similar"}
    PROVE  Onward(j, Matched(j, [Forgets(r) EXCEPT !.found = found, !.post = post, !.claim = claim]))
  <1> DEFINE s == [Forgets(r) EXCEPT !.found = found, !.post = post, !.claim = claim]
  <1>1. /\ s \in Runs /\ s.found = found /\ s.claim = claim /\ s.post = post
        /\ s.ptr = r.ptr /\ s.landed = r.landed /\ s.verdict = r.verdict
        /\ s.ready = r.ready /\ s.checked = r.checked /\ s.misfit = r.misfit
    <2>1. {} \in SUBSET Nat /\ {} \in SUBSET Notables /\ <<>> \in Seq(STRING) /\ r \in Runs
      BY DEF Carried
    <2>2. QED
      BY <2>1 DEF Forgets, Runs
  <1>2. Carried(j, s) /\ s.found # "nothing"
    BY <1>1 DEF Carried, Claimed, Vouched
  <1>3. QED
    BY <1>2, MatchedIsOK

LEMMA FindsIsOK ==
    ASSUME TypeOK, NEW j \in Ids, NEW r, Carried(j, r), NEW similar \in BOOLEAN,
           NEW post \in Files, similar \/ post = job[j].hash,
           Finds(j, r, post, similar)
    PROVE  \E s : Onward(j, s) /\ Becomes(j, s)
  <1>1. PICK named \in BOOLEAN :
          Becomes(j, Matched(j, [Forgets(r) EXCEPT
            !.found = IF similar THEN "similar" ELSE "exact",
            !.post = post, !.claim = Claim(post, named, job[j].hash, similar)]))
    BY DEF Finds
  <1> DEFINE claim == Claim(post, named, job[j].hash, similar)
             found == IF similar THEN "similar" ELSE "exact"
  <1>2. job[j].hash \in Files /\ NoFile \in Files
    BY LookupsAssumption DEF TypeOK, Jobs, Files
  <1>3. claim \in Files /\ (claim # NoFile => claim = post) /\ found \in {"exact", "similar"}
    BY <1>2 DEF Claim
  <1> HIDE DEF claim, found
  <1>4. Onward(j, Matched(j, [Forgets(r) EXCEPT !.found = found, !.post = post, !.claim = claim]))
    BY <1>3, ForgottenIsCarried
  <1>5. Becomes(j, Matched(j, [Forgets(r) EXCEPT !.found = found, !.post = post, !.claim = claim]))
    BY <1>1 DEF claim, found
  <1>6. QED
    BY <1>4, <1>5

LEMMA StartIsOK ==
    ASSUME NEW j \in Ids, NEW r, Carried(j, r), r.chain = <<>>, r.thumb = "untried",
           StartChain(j, r)
    PROVE  \E s : Onward(j, s) /\ Becomes(j, s)
  <1>1. PICK c \in Chains[j] :
          Becomes(j, IF Asked(j, c) = {} THEN Matched(j, r)
                     ELSE [r EXCEPT !.at = "chain", !.chain = c, !.left = Asked(j, c)])
    BY DEF StartChain
  <1>2. r \in Runs
    BY DEF Carried
  <1>3. c \in Seq(STRING) /\ Asked(j, c) \in SUBSET Nat
    <2>1. c \in Seq(STRING)
      BY LookupsAssumption
    <2>2. QED
      BY <2>1 DEF Asked
  <1>4. CASE Asked(j, c) = {}
    <2>1. \A i \in Asked(j, r.chain) : Explained(r, i)
      BY DEF Asked
    <2>2. Onward(j, Matched(j, r))
      BY <2>1, MatchedIsOK
    <2>3. QED
      BY <1>1, <1>4, <2>2
  <1>5. CASE Asked(j, c) # {}
    <2> DEFINE s == [r EXCEPT !.at = "chain", !.chain = c, !.left = Asked(j, c)]
    <2>1. /\ s \in Runs /\ s.at = "chain" /\ s.chain = c /\ s.left = Asked(j, c)
          /\ s.thumb = "untried"
          /\ s.claim = r.claim /\ s.post = r.post /\ s.ptr = r.ptr
          /\ s.landed = r.landed /\ s.lossy = r.lossy /\ s.verdict = r.verdict
          /\ s.ready = r.ready /\ s.checked = r.checked /\ s.misfit = r.misfit
      BY <1>2, <1>3 DEF Runs, Stages
    <2>2. Becomes(j, s)
      BY <1>1, <1>5
    <2> HIDE DEF s
    <2>3. Covered(j, s)
      BY <1>5, <2>1 DEF Covered
    <2>4. RunOK(j, s)
      BY <2>1, <2>3
         DEF Carried, RunOK, Walked, Claimed, Whole, Blank, Landed, Walks, Vouched
    <2>5. QED
      BY <2>1, <2>2, <2>4 DEF Onward
  <1>6. QED
    BY <1>4, <1>5

-----------------------------------------------------------------------------
(* Lemmas of the steps: whose records they touch *)

LEMMA RunStands ==
    ASSUME NEW k \in Ids, NEW r, RunOK(k, r), file' = file, ptr' = ptr,
           job'[k].kind = job[k].kind, job'[k].sha = job[k].sha, job'[k].hash = job[k].hash
    PROVE  RunOK(k, r)'
  BY DEF RunOK, Walked, Covered, Asked, Explained, Claimed, Whole, Vouched, Blank, Landed, Is

LEMMA SettledStands ==
    ASSUME NEW k \in Ids, Settled(k),
           job'[k] = job[k], run'[k] = run[k], told'[k] = told[k], heard'[k] = heard[k],
           [job |-> k, n |-> job[k].n] \in drops => [job |-> k, n |-> job[k].n] \in drops'
    PROVE  Settled(k)'
  BY DEF Settled, Heard, Is

\* A step of a run that monbooru hears nothing of.
LEMMA RunMoves ==
    ASSUME Inv, NEW j \in Ids, job[j].status = "running",
           \E s : Onward(j, s) /\ Becomes(j, s),
           UNCHANGED <<file, ptr, clock, job, drops, told, heard>>,
           until' \in [Services -> Nat], closed' \in [Services -> SUBSET Nat], Cooling',
           events' \in Nat
    PROVE  Goes
  <1>1. PICK s : Onward(j, s) /\ Becomes(j, s)
    OBVIOUS
  <1>2. run' = [run EXCEPT ![j] = s] /\ s \in Runs /\ run \in [Ids -> Runs]
    BY <1>1 DEF Becomes, Onward, Inv, TypeOK
  <1>3. TypeOK'
    BY <1>2 DEF Inv, TypeOK
  <1>4. ASSUME NEW k \in Ids
        PROVE  RunOK(k, run[k])' /\ Settled(k)'
    <2>1. CASE k = j
      <3>1. run'[k] = s
        BY <1>2, <2>1
      <3>2. RunOK(k, s)'
        BY <1>1, <2>1, RunStands DEF Onward
      <3>3. Settled(k)'
        BY <1>1, <2>1, <3>1 DEF Inv, Settled, Onward, Is
      <3>4. QED
        BY <3>1, <3>2, <3>3
    <2>2. CASE k # j
      <3>1. run'[k] = run[k] /\ RunOK(k, run[k]) /\ Settled(k)
        BY <1>2, <2>2 DEF Inv
      <3>2. RunOK(k, run[k])'
        <4>1. PICK r : r = run[k]
          OBVIOUS
        <4>2. RunOK(k, r)'
          BY <3>1, <4>1, RunStands
        <4>3. QED
          BY <3>1, <4>1, <4>2
      <3>3. Settled(k)'
        BY <3>1, SettledStands
      <3>4. QED
        BY <3>2, <3>3
    <2>3. QED
      BY <2>1, <2>2
  <1>5. \A d \in drops' : Dropped(d)'
    BY DEF Inv, Dropped
  <1>6. ASSUME NEW k \in Ids, run[k].at # "search", run'[k].at = "search"
        PROVE  \A end \in closed[Source(k)'] : end <= clock
    <2>1. k = j /\ run'[k] = s
      BY <1>2, <1>6
    <2>2. Open(s)
      BY <1>1, <1>6, <2>1 DEF Onward
    <2>3. QED
      BY <2>1, <2>2 DEF Open, Source
  <1>7. QED
    BY <1>3, <1>4, <1>5, <1>6 DEF Inv, Goes

-----------------------------------------------------------------------------
(* The walk *)

\* A record of a walk that has asked its source, and knows no less than before.
Walker(j, s) ==
    /\ s \in Runs
    /\ s.chain = run[j].chain /\ s.left = run[j].left
    /\ s.claim = run[j].claim /\ s.post = run[j].post /\ s.ptr = run[j].ptr
    /\ s.landed = run[j].landed /\ s.verdict = run[j].verdict
    /\ s.ready = run[j].ready /\ s.checked = run[j].checked /\ s.misfit = run[j].misfit
    /\ run[j].trail \subseteq s.trail /\ (run[j].hit => s.hit)
    /\ s.thumb = "none" => "similarity" \in s.trail

LEMMA UnderwayIsCarried ==
    ASSUME Inv, NEW j \in Ids, run[j].at \notin {"online", "report", "end", "off"}
    PROVE  Carried(j, run[j])
  BY DEF Inv, TypeOK, RunOK, Walked, Claimed, Whole, Landed, Carried

LEMMA WalkerIsCarried ==
    ASSUME Inv, NEW j \in Ids, run[j].at \in Walks, NEW s, Walker(j, s)
    PROVE  Carried(j, s) /\ Covered(j, s)
  <1>1. Carried(j, run[j]) /\ Covered(j, run[j])
    BY UnderwayIsCarried DEF Walks, Inv, RunOK, Walked
  <1>2. Carried(j, s)
    BY <1>1 DEF Carried, Walker, Claimed, Vouched
  <1>3. Covered(j, s)
    BY <1>1 DEF Covered, Walker, Explained
  <1>4. QED
    BY <1>2, <1>3

LEMMA WalkerPasses ==
    ASSUME Inv, NEW j \in Ids, run[j].at \in Walks, NEW s, Walker(j, s),
           \/ s.hit \/ Source(j) \in s.trail
           \/ Source(j) \in Services /\ "similarity" \in s.trail
    PROVE  Onward(j, Passes(j, s))
  <1>1. Carried(j, s) /\ Covered(j, s)
    BY WalkerIsCarried
  <1>2. s.hit \/ Explained(s, Turn(s.left))
    BY DEF Walker, Source, Explained
  <1>3. QED
    BY <1>1, <1>2, PassesIsOK

LEMMA WalkerAsks ==
    ASSUME Inv, NEW j \in Ids, run[j].at \in Walks, NEW s, Walker(j, s),
           s.at \in Walks, s.at = "cands" => s.cands > 0, s.at = "search" => Open(s)
    PROVE  Onward(j, s)
  <1>1. Carried(j, s) /\ Covered(j, s)
    BY WalkerIsCarried
  <1>2. RunOK(j, s)
    BY <1>1 DEF Carried, RunOK, Walked, Claimed, Whole, Blank, Landed, Walks, Vouched
  <1>3. QED
    BY <1>1, <1>2 DEF Onward, Carried, Walks

\* The record itself, and with the note that its source gave nothing.
LEMMA NotesWalk ==
    ASSUME Inv, NEW j \in Ids, run[j].at \in Walks
    PROVE  /\ run[j] \in Runs /\ Walker(j, run[j])
           /\ Walker(j, Notes(run[j], Source(j))) /\ Source(j) \in Notes(run[j], Source(j)).trail
           /\ \A extra \in BOOLEAN :
                LET s == [Notes(run[j], Source(j)) EXCEPT !.hit = @ \/ extra]
                IN  Walker(j, s) /\ Source(j) \in s.trail
  <1>1. run[j] \in Runs /\ RunOK(j, run[j]) /\ TypeOK
    BY DEF Inv, TypeOK
  <1>2. Source(j) \in Notables
    BY <1>1, SourceIsNamed
  <1>3. run[j].thumb = "none" => "similarity" \in run[j].trail
    BY <1>1 DEF RunOK, Walked, Covered
  <1> DEFINE r == Notes(run[j], Source(j))
  <1>4. /\ r \in Runs /\ r.trail = run[j].trail \cup {Source(j)} /\ Kept([r EXCEPT !.trail = run[j].trail], run[j])
        /\ r.left = run[j].left /\ r.verdict = run[j].verdict
    BY <1>1, <1>2 DEF Notes, Runs, Kept
  <1>5. Walker(j, run[j])
    BY <1>1, <1>3 DEF Walker
  <1>6. Walker(j, r) /\ Source(j) \in r.trail
    BY <1>3, <1>4 DEF Walker, Kept, Runs
  <1>7. ASSUME NEW extra \in BOOLEAN
        PROVE  LET s == [r EXCEPT !.hit = @ \/ extra] IN Walker(j, s) /\ Source(j) \in s.trail
    BY <1>6 DEF Walker, Runs
  <1>8. QED
    BY <1>1, <1>5, <1>6, <1>7

\* A cooldown and what the service said of it move together.
LEMMA CooldownsKept ==
    ASSUME TypeOK, Cooling, NEW s, Spends(s) \/ Refuses(s)
    PROVE  until' \in [Services -> Nat] /\ closed' \in [Services -> SUBSET Nat] /\ Cooling'
  <1>1. ASSUME NEW d \in Nat, Closes(s, d)
        PROVE  until' \in [Services -> Nat] /\ closed' \in [Services -> SUBSET Nat] /\ Cooling'
    <2>1. /\ until' = [until EXCEPT ![s] = IF clock + d > @ THEN clock + d ELSE @]
          /\ closed' = [closed EXCEPT ![s] = @ \cup {clock + d}]
      BY <1>1 DEF Closes, Limited
    <2>2. clock + d \in Nat /\ until \in [Services -> Nat] /\ closed \in [Services -> SUBSET Nat]
      BY DEF TypeOK
    <2>3. ASSUME NEW x \in Services, NEW end \in closed'[x] PROVE end <= until'[x]
      <3>1. until[x] \in Nat /\ closed[x] \in SUBSET Nat /\ \A e \in closed[x] : e <= until[x]
        BY <2>2 DEF Cooling
      <3>2. CASE x = s
        <4>1. until'[x] = IF clock + d > until[x] THEN clock + d ELSE until[x]
          BY <2>1, <2>2, <3>2
        <4>2. end \in closed[x] \/ end = clock + d
          BY <2>1, <2>2, <2>3, <3>2
        <4>3. QED
          BY <2>2, <3>1, <4>1, <4>2
      <3>3. CASE x # s
        BY <2>1, <2>2, <2>3, <3>1, <3>3
      <3>4. QED
        BY <3>2, <3>3
    <2>4. until' \in [Services -> Nat] /\ closed' \in [Services -> SUBSET Nat]
      BY <2>1, <2>2
    <2>5. QED
      BY <2>3, <2>4 DEF Cooling
  <1>2. CASE Stays
    BY <1>2 DEF Stays, TypeOK, Cooling
  <1>3. QED
    BY <1>1, <1>2, LookupsAssumption DEF Spends, Refuses

\* Whose records a step of the walk leaves alone.
LEMMA WalkMoves ==
    ASSUME Inv, NEW j \in Ids, job[j].status = "running",
           NEW s, Onward(j, s), Becomes(j, s), UNCHANGED LocalVars \/ (Happens /\ Unheard /\ OnlyCalls)
    PROVE  Goes
  <1>1. /\ UNCHANGED <<file, ptr, clock, job, drops, told, heard, until, closed>>
        /\ events' \in Nat
    BY DEF LocalVars, Happens, Unheard, OnlyCalls, Inv, TypeOK
  <1>2. until' \in [Services -> Nat] /\ closed' \in [Services -> SUBSET Nat] /\ Cooling'
    BY <1>1 DEF Inv, TypeOK, Cooling
  <1>3. QED
    BY <1>1, <1>2, RunMoves

LEMMA SkipSourceKeeps == ASSUME Inv, NEW j \in Ids, SkipSource(j) PROVE Goes
  <1>1. run[j].at \in Walks /\ job[j].status = "running"
    BY DEF SkipSource, Walking, At, Walks
  <1>2. Onward(j, Passes(j, Notes(run[j], Source(j))))
    BY <1>1, NotesWalk, WalkerPasses
  <1>3. QED
    BY <1>1, <1>2, WalkMoves DEF SkipSource

LEMMA WalkSiteKeeps == ASSUME Inv, NEW j \in Ids, WalkSite(j) PROVE Goes
  <1>1. run[j].at \in Walks /\ job[j].status = "running"
    BY DEF WalkSite, Walking, At, Walks
  <1>2. CASE Finds(j, run[j], job[j].hash, FALSE)
    <2>1. Carried(j, run[j])
      BY <1>1, UnderwayIsCarried DEF Walks
    <2>2. job[j].hash \in Files /\ TypeOK
      BY DEF Inv, TypeOK, Jobs, Files
    <2>3. PICK s : Onward(j, s) /\ Becomes(j, s)
      BY <1>2, <2>1, <2>2, FindsIsOK
    <2>4. QED
      BY <1>1, <2>3, WalkMoves DEF WalkSite
  <1>3. CASE Becomes(j, Passes(j, Notes(run[j], Source(j))))
    <2>1. Onward(j, Passes(j, Notes(run[j], Source(j))))
      BY <1>1, NotesWalk, WalkerPasses
    <2>2. QED
      BY <1>1, <1>3, <2>1, WalkMoves DEF WalkSite
  <1>4. QED
    BY <1>2, <1>3 DEF WalkSite

\* A service is sent the query, or passed over while it cools down.
LEMMA SearchesIsOK ==
    ASSUME Inv, NEW j \in Ids, run[j].at \in Walks, Source(j) \in Services, NEW r, Walker(j, r)
    PROVE  Onward(j, Searches(j, r))
  <1>1. Source(j) \in Notables /\ r \in Runs
    BY SourceIsNamed DEF Inv, Walker
  <1>2. CASE clock < until[Source(j)]
    <2> DEFINE s == Notes(r, Source(j))
    <2>1. /\ s \in Runs /\ s.trail = r.trail \cup {Source(j)} /\ s.left = r.left
          /\ s.verdict = r.verdict /\ s.chain = r.chain /\ s.hit = r.hit /\ s.thumb = r.thumb
          /\ s.claim = r.claim /\ s.post = r.post /\ s.ptr = r.ptr
          /\ s.landed = r.landed /\ s.ready = r.ready /\ s.checked = r.checked
          /\ s.misfit = r.misfit
      BY <1>1 DEF Notes, Runs
    <2> HIDE DEF s
    <2>2. Walker(j, s) /\ Source(j) \in s.trail
      BY <2>1 DEF Walker
    <2>3. Onward(j, Passes(j, s))
      BY <2>2, WalkerPasses
    <2>4. QED
      BY <1>2, <2>3 DEF Searches, s
  <1>3. CASE ~(clock < until[Source(j)])
    <2> DEFINE s == [r EXCEPT !.at = "search"]
    <2>1. s \in Runs /\ s.at = "search" /\ Kept(s, r) /\ s.left = r.left /\ s.verdict = r.verdict
      BY <1>1 DEF Kept, Runs, Stages
    <2> HIDE DEF s
    <2>2. Walker(j, s)
      BY <2>1 DEF Walker, Kept
    <2>3. Open(s)
      <3>1. s.chain[Turn(s.left)] = Source(j)
        BY <2>2 DEF Walker, Source
      <3>2. /\ clock \in Nat /\ until[Source(j)] \in Nat /\ closed[Source(j)] \in SUBSET Nat
            /\ \A end \in closed[Source(j)] : end <= until[Source(j)]
        BY DEF Inv, TypeOK, Cooling
      <3>3. \A end \in closed[Source(j)] : end <= clock
        BY <1>3, <3>2
      <3>4. QED
        BY <3>1, <3>3 DEF Open
    <2>4. Onward(j, s)
      BY <2>1, <2>2, <2>3, WalkerAsks DEF Walks
    <2>5. QED
      BY <1>3, <2>4 DEF Searches, s
  <1>4. QED
    BY <1>2, <1>3

LEMMA FetchThumbnailKeeps == ASSUME Inv, NEW j \in Ids, FetchThumbnail(j) PROVE Goes
  <1>1. run[j].at \in Walks /\ job[j].status = "running"
    BY DEF FetchThumbnail, Walking, At, Walks
  <1>2. Walker(j, run[j]) /\ run[j] \in Runs
    BY <1>1, NotesWalk
  <1>3. CASE Becomes(j, Searches(j, [run[j] EXCEPT !.thumb = "have"])) /\ UNCHANGED events
    <2>1. Walker(j, [run[j] EXCEPT !.thumb = "have"])
      BY <1>2 DEF Walker, Runs
    <2>2. Onward(j, Searches(j, [run[j] EXCEPT !.thumb = "have"]))
      BY <1>1, <2>1, SearchesIsOK DEF FetchThumbnail
    <2>3. UNCHANGED LocalVars
      BY <1>3 DEF FetchThumbnail, Unheard, OnlyCalls, LocalVars
    <2>4. QED
      BY <1>1, <1>3, <2>2, <2>3, WalkMoves
  <1>4. CASE Happens /\ Becomes(j, Passes(j, Notes([run[j] EXCEPT !.thumb = "none"], "similarity")))
    <2> DEFINE s == Notes([run[j] EXCEPT !.thumb = "none"], "similarity")
    <2>1. /\ s \in Runs /\ s.trail = run[j].trail \cup {"similarity"} /\ s.left = run[j].left
          /\ s.verdict = run[j].verdict /\ s.chain = run[j].chain /\ s.hit = run[j].hit
          /\ s.claim = run[j].claim /\ s.post = run[j].post /\ s.ptr = run[j].ptr
          /\ s.landed = run[j].landed /\ s.ready = run[j].ready
          /\ s.checked = run[j].checked /\ s.misfit = run[j].misfit
      <3>1. PICK u : u = [run[j] EXCEPT !.thumb = "none"]
        OBVIOUS
      <3>2. /\ u \in Runs /\ u.trail = run[j].trail /\ u.left = run[j].left
            /\ u.verdict = run[j].verdict /\ u.chain = run[j].chain /\ u.hit = run[j].hit
            /\ u.claim = run[j].claim /\ u.post = run[j].post /\ u.ptr = run[j].ptr
            /\ u.landed = run[j].landed /\ u.ready = run[j].ready
            /\ u.checked = run[j].checked /\ u.misfit = run[j].misfit
        BY <1>2, <3>1 DEF Runs
      <3>3. PICK t : t = u.trail \cup {"similarity"}
        OBVIOUS
      <3>4. t \in SUBSET Notables
        BY <3>2, <3>3 DEF Runs, Notables
      <3>5. s = [u EXCEPT !.trail = t]
        BY <3>1, <3>3, Zenon DEF Notes
      <3> HIDE DEF s
      <3>6. QED
        BY <3>2, <3>3, <3>4, <3>5 DEF Runs
    <2>2. Becomes(j, Passes(j, s))
      BY <1>4
    <2> HIDE DEF s
    <2>3. Walker(j, s) /\ "similarity" \in s.trail
      BY <2>1 DEF Walker
    <2>4. Source(j) \in Services
      BY DEF FetchThumbnail
    <2>5. Onward(j, Passes(j, s))
      BY <1>1, <2>3, <2>4, WalkerPasses
    <2>6. Happens /\ Unheard /\ OnlyCalls
      BY <1>4 DEF FetchThumbnail
    <2>7. QED
      BY <1>1, <2>2, <2>5, <2>6, WalkMoves
  <1>5. QED
    BY <1>3, <1>4 DEF FetchThumbnail

LEMMA NoThumbnailKeeps == ASSUME Inv, NEW j \in Ids, NoThumbnail(j) PROVE Goes
  <1>1. run[j].at \in Walks /\ job[j].status = "running"
    BY DEF NoThumbnail, Walking, At, Walks
  <1>2. Walker(j, run[j]) /\ Source(j) \in Services /\ run[j].thumb = "none"
    BY <1>1, NotesWalk DEF NoThumbnail
  <1>3. Onward(j, Passes(j, run[j]))
    BY <1>1, <1>2, WalkerPasses DEF Walker
  <1>4. QED
    BY <1>1, <1>3, WalkMoves DEF NoThumbnail

LEMMA SearchKeeps == ASSUME Inv, NEW j \in Ids, Search(j) PROVE Goes
  <1>1. run[j].at \in Walks /\ job[j].status = "running"
    BY DEF Search, Walking, At, Walks
  <1>2. Onward(j, Searches(j, run[j]))
    BY <1>1, NotesWalk, SearchesIsOK DEF Search
  <1>3. QED
    BY <1>1, <1>2, WalkMoves DEF Search

LEMMA AnswerKeeps == ASSUME Inv, NEW j \in Ids, Answer(j) PROVE Goes
  <1>1. run[j].at \in Walks /\ job[j].status = "running"
    BY DEF Answer, At, Walks
  <1>2. /\ UNCHANGED <<file, ptr, clock, job, drops, told, heard>> /\ events' \in Nat
        /\ until' \in [Services -> Nat] /\ closed' \in [Services -> SUBSET Nat] /\ Cooling'
    BY CooldownsKept DEF Answer, Inv, TypeOK
  <1>3. run[j] \in Runs /\ Walker(j, run[j])
    BY <1>1, NotesWalk
  <1>4. \E s : Onward(j, s) /\ Becomes(j, s)
    <2>1. CASE Becomes(j, NoAnswer(j))
      <3>1. Onward(j, NoAnswer(j))
        BY <1>1, NotesWalk, WalkerPasses DEF NoAnswer
      <3>2. QED
        BY <2>1, <3>1
    <2>2. ASSUME NEW extra \in BOOLEAN,
                 Becomes(j, Passes(j, [Notes(run[j], Source(j)) EXCEPT !.hit = @ \/ extra]))
          PROVE  \E s : Onward(j, s) /\ Becomes(j, s)
      <3> DEFINE s == [Notes(run[j], Source(j)) EXCEPT !.hit = @ \/ extra]
      <3>1. Walker(j, s) /\ Source(j) \in s.trail
        BY <1>1, NotesWalk
      <3> HIDE DEF s
      <3>2. Onward(j, Passes(j, s))
        BY <1>1, <3>1, WalkerPasses
      <3>3. QED
        BY <2>2, <3>2 DEF s
    <2>3. ASSUME NEW n \in 1 .. MaxCands,
                 Becomes(j, [run[j] EXCEPT !.at = "cands", !.cands = n, !.tries = 0])
          PROVE  \E s : Onward(j, s) /\ Becomes(j, s)
      <3> DEFINE s == [run[j] EXCEPT !.at = "cands", !.cands = n, !.tries = 0]
      <3>1. n \in Nat /\ n > 0
        BY LookupsAssumption
      <3>2. s \in Runs /\ s.at = "cands" /\ s.cands = n /\ Kept(s, run[j]) /\ s.left = run[j].left
            /\ s.verdict = run[j].verdict
        BY <1>3, <3>1 DEF Runs, Stages, Kept
      <3>3. Becomes(j, s)
        BY <2>3
      <3> HIDE DEF s
      <3>4. Walker(j, s)
        BY <1>3, <3>2 DEF Walker, Kept
      <3>5. Onward(j, s)
        BY <1>1, <3>1, <3>2, <3>4, WalkerAsks DEF Walks
      <3>6. QED
        BY <3>3, <3>5
    <2>4. QED
      BY <2>1, <2>2, <2>3 DEF Answer
  <1>5. QED
    BY <1>1, <1>2, <1>4, RunMoves

LEMMA CandidateKeeps == ASSUME Inv, NEW j \in Ids, Candidate(j) PROVE Goes
  <1>1. run[j].at = "cands" /\ run[j].at \in Walks /\ job[j].status = "running"
    BY DEF Candidate, At, Walks
  <1>2. run[j] \in Runs /\ Walker(j, run[j]) /\ run[j].cands \in Nat /\ run[j].cands > 0
    BY <1>1, NotesWalk DEF Inv, RunOK, Walked, Runs
  <1> DEFINE r == [run[j] EXCEPT !.cands = @ - 1]
  <1>3. r \in Runs /\ r.at = "cands" /\ Kept(r, run[j]) /\ r.left = run[j].left
        /\ r.verdict = run[j].verdict
    BY <1>1, <1>2 DEF Runs, Kept
  <1>0. \/ Finds(j, r, Other, TRUE)
        \/ Becomes(j, Fruitless(j, r))
        \/ Becomes(j, Fruitless(j, [r EXCEPT !.tries = @ + 1]))
    BY DEF Candidate
  <1> HIDE DEF r
  <1> DEFINE q == [r EXCEPT !.tries = @ + 1]
  <1>4. q \in Runs /\ q.at = "cands" /\ Kept(q, run[j]) /\ q.left = run[j].left
        /\ q.verdict = run[j].verdict
    BY <1>3 DEF Runs, Kept
  <1>5. \/ Finds(j, r, Other, TRUE)
        \/ Becomes(j, Fruitless(j, r))
        \/ Becomes(j, Fruitless(j, q))
    BY <1>0
  <1>6. UNCHANGED LocalVars
    BY DEF Candidate
  <1> HIDE DEF q
  <1>7. ASSUME NEW s, s \in Runs, s.at = "cands", Kept(s, run[j]), s.left = run[j].left,
               s.verdict = run[j].verdict
        PROVE  Walker(j, s) /\ Onward(j, Fruitless(j, s))
    <2>1. Walker(j, s)
      BY <1>2, <1>7 DEF Walker, Kept
    <2>2. CASE s.cands = 0 \/ s.tries = MaxFetches
      <3> DEFINE u == [s EXCEPT !.hit = TRUE]
      <3>1. Walker(j, u) /\ u.hit
        BY <2>1 DEF Walker, Runs
      <3> HIDE DEF u
      <3>2. Onward(j, Passes(j, u))
        BY <1>1, <3>1, WalkerPasses
      <3>3. QED
        BY <2>1, <2>2, <3>2 DEF Fruitless, u
    <2>3. CASE ~(s.cands = 0 \/ s.tries = MaxFetches)
      <3>1. s.cands > 0
        BY <1>7, <2>3 DEF Runs
      <3>2. Onward(j, s)
        BY <1>1, <1>7, <2>1, <3>1, WalkerAsks DEF Walks
      <3>3. QED
        BY <2>1, <2>3, <3>2 DEF Fruitless
    <2>4. QED
      BY <2>2, <2>3
  <1>8. \E s : Onward(j, s) /\ Becomes(j, s)
    <2>1. CASE Finds(j, r, Other, TRUE)
      <3>1. Carried(j, r)
        BY <1>1, <1>3, <1>7, WalkerIsCarried
      <3>2. Other \in Files /\ TypeOK
        BY DEF Inv, Files
      <3>3. QED
        BY <2>1, <3>1, <3>2, FindsIsOK
    <2>2. QED
      BY <1>3, <1>4, <1>5, <1>7, <2>1
  <1>9. QED
    BY <1>1, <1>6, <1>8, WalkMoves

-----------------------------------------------------------------------------
(* Before and after the walk *)

\* A run that fails reports it, and nothing of it landed.
LEMMA FailingIsOK ==
    ASSUME NEW j \in Ids, NEW r, Carried(j, r), NEW what \in {"missed", "failed"},
           what = "missed" => r.chain = <<>>
    PROVE  Onward(j, Failing(r, what))
  <1> DEFINE s == Failing(r, what)
  <1>1. s \in Runs /\ s.at = "report" /\ Kept(s, r) /\ s.verdict = what
    <2>1. r \in Runs
      BY DEF Carried
    <2>2. what \in Good \cup {"none", "missed", "failed"}
      OBVIOUS
    <2>3. s = [r EXCEPT !.failed = TRUE, !.verdict = what, !.at = "report"]
      BY DEF Failing
    <2> HIDE DEF s
    <2>4. QED
      BY <2>1, <2>2, <2>3 DEF Runs, Stages, Kept
  <1> HIDE DEF s
  <1>2. what = "missed" => Asked(j, s.chain) = {}
    BY <1>1 DEF Kept, Asked
  <1>3. RunOK(j, s)
    BY <1>1, <1>2
       DEF Carried, RunOK, Walked, Claimed, Whole, Blank, Landed, Walks, Vouched, Kept, Good
  <1>4. QED
    BY <1>1, <1>3 DEF Onward, s

LEMMA CheckHashKeeps == ASSUME Inv, NEW j \in Ids, CheckHash(j) PROVE Goes
  <1>1. run[j].at = "check" /\ job[j].status = "running" /\ run[j] \in Runs /\ RunOK(j, run[j])
    BY DEF CheckHash, At, Inv, TypeOK
  <1>2. Carried(j, run[j])
    BY <1>1, UnderwayIsCarried
  <1>3. /\ run[j].ptr = "no" /\ ~run[j].misfit /\ run[j].chain = <<>> /\ run[j].thumb = "untried"
        /\ ptr = "ready" => run[j].ready
    BY <1>1 DEF RunOK, Whole, Vouched, Walked
  <1>4. ASSUME NEW s, s \in Runs, s.at = "ask",
               s.checked = "trusted" \/ (s.checked = "yes" /\ file = job[j].hash),
               s.chain = run[j].chain /\ s.thumb = run[j].thumb /\ s.verdict = run[j].verdict,
               s.claim = run[j].claim /\ s.post = run[j].post /\ s.ptr = run[j].ptr,
               s.landed = run[j].landed /\ s.ready = run[j].ready /\ s.misfit = run[j].misfit
        PROVE  Onward(j, s)
    BY <1>2, <1>3, <1>4
       DEF Carried, Onward, RunOK, Walked, Claimed, Whole, Blank, Landed, Walks
  <1>5. CASE Becomes(j, CheckedHash(j)) /\ UNCHANGED events
    <2>1. Onward(j, CheckedHash(j))
      <3>1. CASE file = job[j].hash
        <4> DEFINE s == [run[j] EXCEPT !.checked = "yes", !.at = "ask"]
        <4>1. /\ s \in Runs /\ s.at = "ask" /\ s.checked = "yes"
              /\ s.chain = run[j].chain /\ s.thumb = run[j].thumb /\ s.verdict = run[j].verdict
              /\ s.claim = run[j].claim /\ s.post = run[j].post /\ s.ptr = run[j].ptr
              /\ s.landed = run[j].landed /\ s.ready = run[j].ready /\ s.misfit = run[j].misfit
          BY <1>1 DEF Runs, Stages
        <4>2. CheckedHash(j) = s
          BY <3>1 DEF CheckedHash
        <4> HIDE DEF s
        <4>3. QED
          BY <1>4, <3>1, <4>1, <4>2
      <3>2. CASE file # job[j].hash
        BY <1>2, <3>2, FailingIsOK DEF CheckedHash
      <3>3. QED
        BY <3>1, <3>2
    <2>2. UNCHANGED LocalVars
      BY <1>5 DEF CheckHash, Unheard, OnlyCalls, LocalVars
    <2>3. QED
      BY <1>1, <1>5, <2>1, <2>2, WalkMoves
  <1>6. CASE Happens /\ Becomes(j, Lossy([run[j] EXCEPT !.checked = "trusted", !.at = "ask"]))
    <2> DEFINE s == Lossy([run[j] EXCEPT !.checked = "trusted", !.at = "ask"])
    <2>1. /\ s \in Runs /\ s.at = "ask" /\ s.checked = "trusted"
          /\ s.chain = run[j].chain /\ s.thumb = run[j].thumb /\ s.verdict = run[j].verdict
          /\ s.claim = run[j].claim /\ s.post = run[j].post /\ s.ptr = run[j].ptr
          /\ s.landed = run[j].landed /\ s.ready = run[j].ready /\ s.misfit = run[j].misfit
      BY <1>1 DEF Runs, Stages, Lossy
    <2>2. Becomes(j, s)
      BY <1>6
    <2> HIDE DEF s
    <2>3. Onward(j, s)
      BY <1>4, <2>1
    <2>4. Happens /\ Unheard /\ OnlyCalls
      BY <1>6 DEF CheckHash
    <2>5. QED
      BY <1>1, <2>2, <2>3, <2>4, WalkMoves
  <1>7. QED
    BY <1>5, <1>6 DEF CheckHash

\* The PTR is asked only of a hash that was checked, with a whole index.
LEMMA AskKeeps == ASSUME Inv, NEW j \in Ids, Ask(j) PROVE Goes
  <1>1. run[j].at = "ask" /\ job[j].status = "running" /\ run[j] \in Runs /\ RunOK(j, run[j])
    BY DEF Ask, At, Inv, TypeOK
  <1>2. Carried(j, run[j]) /\ run[j].chain = <<>> /\ run[j].thumb = "untried"
    BY <1>1, UnderwayIsCarried DEF RunOK, Walked
  <1>3. /\ ptr = "ready" => run[j].ready
        /\ job[j].sha => run[j].checked # "no"
        /\ Is(j, {"ptr"}) => job[j].sha
    BY <1>1 DEF RunOK, Whole, Inv, Settled, Is
  <1> DEFINE both == Is(j, {"all"}) /\ job[j].sha
             n == Notes(run[j], "ptr")
  <1>4. Carried(j, n) /\ n.chain = <<>> /\ n.thumb = "untried"
    <2>1. /\ n \in Runs /\ n.chain = run[j].chain /\ n.thumb = run[j].thumb
          /\ n.verdict = run[j].verdict
          /\ n.claim = run[j].claim /\ n.post = run[j].post /\ n.ptr = run[j].ptr
          /\ n.landed = run[j].landed /\ n.ready = run[j].ready /\ n.misfit = run[j].misfit
          /\ n.checked = run[j].checked
      BY <1>1 DEF Notes, Runs, Notables
    <2>2. QED
      BY <1>2, <2>1 DEF Carried, Claimed, Vouched
  <1>5. \/ StartChain(j, run[j])
        \/ (both \/ Is(j, {"ptr"})) /\ AsksPtr /\ Moves(j, "read")
        \/ Becomes(j, Failing(run[j], "failed"))
        \/ StartChain(j, n)
    BY DEF Ask
  <1>6. \E s : Onward(j, s) /\ Becomes(j, s)
    <2>1. CASE StartChain(j, run[j])
      BY <1>2, <2>1, StartIsOK
    <2>2. CASE (both \/ Is(j, {"ptr"})) /\ AsksPtr /\ Moves(j, "read")
      <3> DEFINE s == [run[j] EXCEPT !.at = "read"]
      <3>1. s \in Runs /\ s.at = "read" /\ Kept(s, run[j]) /\ s.verdict = run[j].verdict
        BY <1>1 DEF Runs, Stages, Kept
      <3>2. Becomes(j, s)
        BY <2>2 DEF Moves
      <3> HIDE DEF s
      <3>3. Vouched(j, s)
        BY <1>3, <2>2, <3>1 DEF Vouched, Kept, AsksPtr, Is
      <3>4. RunOK(j, s)
        BY <1>2, <3>1, <3>3
           DEF Carried, RunOK, Walked, Claimed, Whole, Blank, Landed, Walks, Kept
      <3>5. QED
        BY <3>1, <3>2, <3>4 DEF Onward
    <2>3. CASE Becomes(j, Failing(run[j], "failed"))
      BY <1>2, <2>3, FailingIsOK
    <2>4. CASE StartChain(j, n)
      BY <1>4, <2>4, StartIsOK
    <2>5. QED
      BY <1>5, <2>1, <2>2, <2>3, <2>4
  <1>7. QED
    BY <1>1, <1>6, WalkMoves DEF Ask

LEMMA ReadKeeps == ASSUME Inv, NEW j \in Ids, Read(j) PROVE Goes
  <1>1. run[j].at = "read" /\ job[j].status = "running" /\ run[j] \in Runs /\ RunOK(j, run[j])
    BY DEF Read, At, Inv, TypeOK
  <1>2. Carried(j, run[j]) /\ run[j].chain = <<>> /\ run[j].thumb = "untried" /\ Vouched(j, run[j])
    BY <1>1, UnderwayIsCarried DEF RunOK, Walked, Whole
  <1>3. PICK why \in {"hit", "empty", "failed"} :
          LET r == [IF why = "hit" THEN run[j] ELSE Notes(run[j], "ptr")
                       EXCEPT !.ptr = IF why = "failed" THEN @ ELSE why]
          IN  IF Is(j, {"all"}) THEN StartChain(j, r)
              ELSE Becomes(j, CASE why = "hit" -> [r EXCEPT !.at = "ptr push"]
                                [] why = "empty" -> Failing(r, "missed")
                                [] why = "failed" -> Failing(r, "failed"))
    BY DEF Read
  <1>4. PICK u : u = IF why = "hit" THEN run[j] ELSE Notes(run[j], "ptr")
    OBVIOUS
  <1>5. /\ u \in Runs /\ u.chain = run[j].chain /\ u.thumb = run[j].thumb /\ u.at = "read"
        /\ u.verdict = run[j].verdict
        /\ u.claim = run[j].claim /\ u.post = run[j].post /\ u.ptr = run[j].ptr
        /\ u.landed = run[j].landed /\ u.ready = run[j].ready /\ u.misfit = run[j].misfit
        /\ u.checked = run[j].checked
    <2>1. CASE why = "hit"
      BY <1>1, <1>4, <2>1
    <2>2. CASE why # "hit"
      BY <1>1, <1>4, <2>2 DEF Notes, Runs, Notables
    <2>3. QED
      BY <2>1, <2>2
  <1> DEFINE r == [u EXCEPT !.ptr = IF why = "failed" THEN @ ELSE why]
  <1>6. IF Is(j, {"all"}) THEN StartChain(j, r)
        ELSE Becomes(j, CASE why = "hit" -> [r EXCEPT !.at = "ptr push"]
                          [] why = "empty" -> Failing(r, "missed")
                          [] why = "failed" -> Failing(r, "failed"))
    BY <1>3, <1>4
  <1>7. /\ r \in Runs /\ r.chain = <<>> /\ r.thumb = "untried"
        /\ r.verdict = run[j].verdict
        /\ r.claim = run[j].claim /\ r.post = run[j].post
        /\ r.ptr \in {run[j].ptr, "hit", "empty"}
        /\ r.landed = run[j].landed /\ r.ready = run[j].ready /\ r.misfit = run[j].misfit
        /\ r.checked = run[j].checked
    BY <1>2, <1>5 DEF Runs
  <1> HIDE DEF r
  <1>8. Carried(j, r) /\ Vouched(j, r)
    BY <1>2, <1>7 DEF Carried, Claimed, Vouched
  <1>9. \E s : Onward(j, s) /\ Becomes(j, s)
    <2>1. CASE Is(j, {"all"})
      BY <1>6, <1>7, <1>8, <2>1, StartIsOK
    <2>2. CASE ~Is(j, {"all"}) /\ why = "hit"
      <3> DEFINE s == [r EXCEPT !.at = "ptr push"]
      <3>1. s \in Runs /\ s.at = "ptr push" /\ Kept(s, r) /\ s.verdict = r.verdict
        BY <1>7 DEF Runs, Stages, Kept
      <3>2. Becomes(j, s)
        BY <1>6, <2>2
      <3> HIDE DEF s
      <3>3. RunOK(j, s)
        BY <1>8, <3>1
           DEF Carried, RunOK, Walked, Claimed, Whole, Blank, Landed, Walks, Vouched, Kept
      <3>4. QED
        BY <3>1, <3>2, <3>3 DEF Onward
    <2>3. CASE ~Is(j, {"all"}) /\ why = "empty"
      <3>1. Becomes(j, Failing(r, "missed"))
        BY <1>6, <2>3
      <3>2. QED
        BY <1>7, <1>8, <3>1, FailingIsOK
    <2>4. CASE ~Is(j, {"all"}) /\ why = "failed"
      <3>1. Becomes(j, Failing(r, "failed"))
        BY <1>6, <2>4
      <3>2. QED
        BY <1>8, <3>1, FailingIsOK
    <2>5. QED
      BY <2>1, <2>2, <2>3, <2>4
  <1>10. UNCHANGED LocalVars
    BY DEF Read
  <1>11. QED
    BY <1>1, <1>9, <1>10, WalkMoves

\* A stage that asks nothing of the walk or the PTR.
Plain == {"url", "resolve", "download", "file push", "online"}

LEMMA PlainIsOK ==
    ASSUME NEW j \in Ids, NEW r, Carried(j, r), NEW s, s \in Runs, s.at \in Plain, Claimed(s),
           s.at = "url" => Is(j, {"hash"}),
           s.landed = r.landed /\ s.ptr = r.ptr /\ s.ready = r.ready /\ s.misfit = r.misfit,
           s.checked = r.checked /\ s.verdict = r.verdict
    PROVE  Onward(j, s)
  BY DEF Onward, Carried, RunOK, Walked, Whole, Blank, Landed, Walks, Vouched, Plain

LEMMA FetchMetaKeeps == ASSUME Inv, NEW j \in Ids, FetchMeta(j) PROVE Goes
  <1>1. run[j].at = "resolve" /\ job[j].status = "running" /\ run[j] \in Runs
    BY DEF FetchMeta, At, Inv, TypeOK
  <1>2. Carried(j, run[j])
    BY <1>1, UnderwayIsCarried
  <1>3. CASE Becomes(j, Failing(run[j], "failed"))
    BY <1>1, <1>2, <1>3, FailingIsOK, WalkMoves DEF FetchMeta
  <1>4. ASSUME NEW post \in {job[j].hash, Other}, NEW named \in BOOLEAN,
               Becomes(j, [run[j] EXCEPT !.found = "exact", !.post = post, !.at = "online",
                                         !.claim = IF named THEN post ELSE NoFile])
        PROVE  Goes
    <2>1. PICK claim : claim = IF named THEN post ELSE NoFile
      OBVIOUS
    <2>2. post \in Files /\ claim \in Files
      BY <2>1 DEF Files, Inv, TypeOK, Jobs
    <2> DEFINE s == [run[j] EXCEPT !.found = "exact", !.post = post, !.at = "online", !.claim = claim]
    <2>3. /\ s \in Runs /\ s.at = "online" /\ s.post = post /\ s.claim = claim
          /\ s.landed = run[j].landed /\ s.ptr = run[j].ptr /\ s.ready = run[j].ready
          /\ s.misfit = run[j].misfit /\ s.checked = run[j].checked /\ s.verdict = run[j].verdict
      BY <1>1, <2>2 DEF Runs, Stages
    <2>4. Becomes(j, s)
      BY <1>4, <2>1
    <2> HIDE DEF s
    <2>5. Onward(j, s)
      BY <1>2, <2>1, <2>3, PlainIsOK DEF Plain, Claimed
    <2>6. QED
      BY <1>1, <2>4, <2>5, WalkMoves DEF FetchMeta
  <1>5. QED
    BY <1>3, <1>4 DEF FetchMeta

LEMMA DownloadReplaceKeeps == ASSUME Inv, NEW j \in Ids, DownloadReplace(j) PROVE Goes
  <1>1. run[j].at = "download" /\ job[j].status = "running" /\ run[j] \in Runs
    BY DEF DownloadReplace, At, Inv, TypeOK
  <1>2. Carried(j, run[j])
    BY <1>1, UnderwayIsCarried
  <1>3. CASE Becomes(j, Failing(run[j], "failed"))
    BY <1>1, <1>2, <1>3, FailingIsOK, WalkMoves DEF DownloadReplace
  <1>4. ASSUME NEW got \in {Other, Broken}, NEW claim \in {Other, NoFile}, claim \in {NoFile, got},
               Becomes(j, [run[j] EXCEPT !.post = got, !.claim = claim, !.at = "file push"])
        PROVE  Goes
    <2> DEFINE s == [run[j] EXCEPT !.post = got, !.claim = claim, !.at = "file push"]
    <2>1. got \in Files /\ claim \in Files
      BY DEF Files
    <2>2. /\ s \in Runs /\ s.at = "file push" /\ s.post = got /\ s.claim = claim
          /\ s.landed = run[j].landed /\ s.ptr = run[j].ptr /\ s.ready = run[j].ready
          /\ s.misfit = run[j].misfit /\ s.checked = run[j].checked /\ s.verdict = run[j].verdict
      BY <1>1, <2>1 DEF Runs, Stages
    <2>3. Becomes(j, s)
      BY <1>4
    <2> HIDE DEF s
    <2>4. Onward(j, s)
      BY <1>2, <1>4, <2>2, PlainIsOK DEF Plain, Claimed
    <2>5. QED
      BY <1>1, <2>3, <2>4, WalkMoves DEF DownloadReplace
  <1>5. \/ Becomes(j, Failing(run[j], "failed"))
        \/ \E got \in {Other, Broken}, claim \in {Other, NoFile} :
             claim \in {NoFile, got}
             /\ Becomes(j, [run[j] EXCEPT !.post = got, !.claim = claim, !.at = "file push"])
    BY DEF DownloadReplace
  <1>6. QED
    BY <1>3, <1>4, <1>5

LEMMA PostURLKeeps == ASSUME Inv, NEW j \in Ids, PostURL(j) PROVE Goes
  <1>1. run[j].at = "url" /\ job[j].status = "running" /\ run[j] \in Runs /\ Is(j, {"hash"})
    BY DEF PostURL, At, Inv, TypeOK, RunOK, Landed
  <1>2. Carried(j, run[j])
    BY <1>1, UnderwayIsCarried
  <1>3. ASSUME NEW s, s \in Runs, s.at = "end", Kept(s, run[j]), s.verdict = run[j].verdict
        PROVE  Onward(j, s)
    BY <1>1, <1>2, <1>3
       DEF Onward, Carried, RunOK, Walked, Claimed, Whole, Blank, Landed, Walks, Vouched, Kept
  <1>4. [run[j] EXCEPT !.at = "end"] \in Runs /\ ItemFails(run[j]) \in Runs
    BY <1>1 DEF Runs, Stages, ItemFails
  <1>5. /\ [run[j] EXCEPT !.at = "end"].at = "end" /\ Kept([run[j] EXCEPT !.at = "end"], run[j])
        /\ [run[j] EXCEPT !.at = "end"].verdict = run[j].verdict
    BY <1>1 DEF Runs, Kept
  <1>6. ItemFails(run[j]).at = "end" /\ Kept(ItemFails(run[j]), run[j])
        /\ ItemFails(run[j]).verdict = run[j].verdict
    BY <1>1 DEF Runs, ItemFails, Kept
  <1>7. Onward(j, [run[j] EXCEPT !.at = "end"]) /\ Onward(j, ItemFails(run[j]))
    BY <1>3, <1>4, <1>5, <1>6
  <1>8. QED
    BY <1>1, <1>7, WalkMoves DEF PostURL, Moves

-----------------------------------------------------------------------------
(* What lands, and what monbooru hears of it *)

\* A step of a run that monbooru records a verdict of.
LEMMA RunIsTold ==
    ASSUME Inv, NEW j \in Ids, job[j].status = "running",
           NEW s, s \in Runs, RunOK(j, s), s.at \notin {"off", "search"}, Becomes(j, s),
           NEW what, Verdict(j, what),
           s.at = "end" => Is(j, {"hash"}) \/ s.lossy \/ (what \in Good <=> s.landed # {}),
           UNCHANGED <<file, ptr, clock, until, closed, job, drops>>, events' \in Nat
    PROVE  Goes
  <1>1. run' = [run EXCEPT ![j] = s] /\ run \in [Ids -> Runs]
    BY DEF Becomes, Inv, TypeOK
  <1>2. /\ told' = [told EXCEPT ![j] = [n |-> job[j].n, good |-> what \in Good]]
        /\ heard' = [heard EXCEPT ![j] = job[j].n]
    BY DEF Verdict
  <1>3. job[j].n \in Nat /\ told \in [Ids -> [n : Nat, good : BOOLEAN]] /\ heard \in [Ids -> Nat]
    BY DEF Inv, TypeOK, Jobs
  <1>4. told' \in [Ids -> [n : Nat, good : BOOLEAN]] /\ heard' \in [Ids -> Nat]
    <2>1. [n |-> job[j].n, good |-> what \in Good] \in [n : Nat, good : BOOLEAN]
      BY <1>3
    <2>2. QED
      BY <1>2, <1>3, <2>1
  <1>5. TypeOK'
    BY <1>1, <1>4 DEF Inv, TypeOK
  <1>6. ASSUME NEW k \in Ids
        PROVE  RunOK(k, run[k])' /\ Settled(k)'
    <2>1. CASE k = j
      <3>1. run'[k] = s
        BY <1>1, <2>1
      <3>2. RunOK(k, s)'
        BY <2>1, RunStands
      <3>3. heard'[j] = job[j].n /\ told'[j].n = job[j].n /\ (told'[j].good <=> what \in Good)
        BY <1>2, <1>3
      <3>4. s.at = "end" /\ ~Is(j, {"hash"}) /\ ~s.lossy => (told'[j].good <=> s.landed # {})
        BY <3>3
      <3>5. Settled(j) /\ job'[j] = job[j]
        BY DEF Inv
      <3>6. Settled(k)'
        BY <1>3, <2>1, <3>1, <3>3, <3>4, <3>5 DEF Settled, Is, Heard
      <3>7. QED
        BY <3>1, <3>2, <3>6
    <2>2. CASE k # j
      <3>1. /\ run'[k] = run[k] /\ told'[k] = told[k] /\ heard'[k] = heard[k]
            /\ RunOK(k, run[k]) /\ Settled(k)
        BY <1>1, <1>2, <1>3, <2>2 DEF Inv
      <3>2. PICK r : r = run[k]
        OBVIOUS
      <3>3. RunOK(k, r)'
        BY <3>1, <3>2, RunStands
      <3>4. Settled(k)'
        BY <3>1, SettledStands
      <3>5. QED
        BY <3>1, <3>2, <3>3, <3>4
    <2>3. QED
      BY <2>1, <2>2
  <1>7. Cooling' /\ \A d \in drops' : Dropped(d)'
    BY DEF Inv, Dropped, Cooling
  <1>8. \A k \in Ids : run'[k].at = "search" => run[k].at = "search"
    BY <1>1
  <1>9. QED
    BY <1>5, <1>6, <1>7, <1>8 DEF Inv, Goes

\* The records an enrich may leave: of one that landed or one that did not, and of
\* either with the answer lost.
LEMMA EnrichKeeps ==
    ASSUME Inv, NEW j \in Ids, job[j].status = "running", NEW takes, NEW landing,
           NEW done, NEW undone, NEW all, NEW some,
           EnrichImage(j, takes, landing, done, undone), OnlyCalls,
           all = [done EXCEPT !.landed = @ \cup {landing},
                              !.misfit = @ \/ (landing = "ptr" /\ file # job[j].hash)],
           some = [undone EXCEPT !.landed = @ \cup {landing},
                                 !.misfit = @ \/ (landing = "ptr" /\ file # job[j].hash)],
           takes => /\ all \in Runs /\ RunOK(j, all) /\ all.at \notin {"off", "search"} /\ all.landed # {}
                    /\ Lossy(some) \in Runs /\ RunOK(j, Lossy(some))
                    /\ Lossy(some).lossy /\ Lossy(some).at \notin {"off", "search"},
           undone \in Runs, RunOK(j, undone), undone.at \notin {"off", "search"},
           undone.at = "end" => undone.landed = {} \/ undone.lossy,
           Onward(j, Lossy(undone))
    PROVE  Goes
  <1>1. events' \in Nat \/ ~(Happens \/ UNCHANGED events)
    BY DEF Happens, Inv, TypeOK
  <1>2. UNCHANGED <<file, ptr, clock, until, closed, job, drops>>
    BY DEF OnlyCalls
  <1>3. \/ takes /\ Verdict(j, "enriched") /\ Becomes(j, all) /\ UNCHANGED events
        \/ Verdict(j, "refused") /\ Becomes(j, undone) /\ UNCHANGED events
        \/ Happens /\ Unheard /\ Becomes(j, Lossy(undone))
        \/ takes /\ Happens /\ Verdict(j, "enriched") /\ Becomes(j, Lossy(some))
    BY DEF EnrichImage
  <1>4. CASE takes /\ Verdict(j, "enriched") /\ Becomes(j, all) /\ UNCHANGED events
    <2>1. "enriched" \in Good
      BY DEF Good
    <2>2. QED
      BY <1>1, <1>2, <1>4, <2>1, RunIsTold
  <1>5. CASE Verdict(j, "refused") /\ Becomes(j, undone) /\ UNCHANGED events
    <2>1. "refused" \notin Good
      BY DEF Good
    <2>2. QED
      BY <1>1, <1>2, <1>5, <2>1, RunIsTold
  <1>6. CASE Happens /\ Unheard /\ Becomes(j, Lossy(undone))
    BY <1>6, WalkMoves
  <1>7. CASE takes /\ Happens /\ Verdict(j, "enriched") /\ Becomes(j, Lossy(some))
    BY <1>1, <1>2, <1>7, RunIsTold
  <1>8. QED
    BY <1>3, <1>4, <1>5, <1>6, <1>7

\* What the PTR's push may leave of a run.
LEMMA PushedIsOK ==
    ASSUME NEW j \in Ids, NEW r, Carried(j, r), Vouched(j, r), NEW s, s \in Runs,
           s.claim = r.claim /\ s.post = r.post /\ s.ready = r.ready /\ s.checked = r.checked,
           s.misfit => r.misfit \/ file # job[j].hash,
           s.at \in {"online", "report", "end"}, s.verdict # "missed",
           s.at = "online" /\ ~s.lossy => (s.ptr = "applied" <=> s.landed # {}),
           s.at = "report" /\ ~s.lossy => (s.verdict \in Good <=> s.landed # {})
    PROVE  RunOK(j, s)
  <1>1. s.checked \in {"no", "yes", "moved", "trusted"}
    BY DEF Runs
  <1>2. QED
    BY <1>1 DEF RunOK, Carried, Walked, Claimed, Whole, Blank, Landed, Walks, Vouched

LEMMA PushPtrKeeps == ASSUME Inv, NEW j \in Ids, PushPtr(j) PROVE Goes
  <1>1. run[j].at = "ptr push" /\ job[j].status = "running" /\ run[j] \in Runs /\ RunOK(j, run[j])
    BY DEF PushPtr, At, Inv, TypeOK
  <1>2. Carried(j, run[j]) /\ Vouched(j, run[j])
    BY <1>1, UnderwayIsCarried DEF RunOK, Whole
  <1> DEFINE r == run[j]
             online == Is(j, {"all"}) /\ r.found # "nothing"
  <1>3. PICK next : next = IF online THEN "online" ELSE IF Is(j, {"all"}) THEN "report" ELSE "end"
    OBVIOUS
  <1>4. PICK verdict : verdict = IF Is(j, {"all"}) THEN "ptr only" ELSE r.verdict
    OBVIOUS
  <1>5. /\ verdict \in Good \cup {"none", "missed", "failed"} /\ verdict # "missed"
        /\ next = "report" => verdict \in Good
        /\ next \in {"online", "report", "end"}
    BY <1>1, <1>2, <1>3, <1>4 DEF Runs, Good, Carried
  <1>6. PICK misfit \in BOOLEAN : misfit <=> r.misfit \/ ("ptr" = "ptr" /\ file # job[j].hash)
    OBVIOUS
  <1>7. PICK done : done = [r EXCEPT !.ptr = "applied", !.verdict = verdict, !.at = next]
    OBVIOUS
  <1>8. PICK undone : undone = IF online THEN [r EXCEPT !.at = "online"] ELSE Failing(r, "failed")
    OBVIOUS
  <1>9. PICK all : all = [done EXCEPT !.landed = @ \cup {"ptr"},
                                      !.misfit = @ \/ ("ptr" = "ptr" /\ file # job[j].hash)]
    OBVIOUS
  <1>10. PICK some : some = [undone EXCEPT !.landed = @ \cup {"ptr"},
                                           !.misfit = @ \/ ("ptr" = "ptr" /\ file # job[j].hash)]
    OBVIOUS
  <1>11. EnrichImage(j, TRUE, "ptr", done, undone) /\ OnlyCalls
    BY <1>3, <1>4, <1>7, <1>8 DEF PushPtr
  <1>12. /\ done \in Runs /\ done.at = next /\ done.verdict = verdict /\ done.ptr = "applied"
         /\ done.claim = r.claim /\ done.post = r.post /\ done.ready = r.ready
         /\ done.checked = r.checked /\ done.misfit = r.misfit /\ done.landed = {}
    <2>1. next \in Stages
      BY <1>5 DEF Stages
    <2>2. r.landed = {}
      BY <1>2 DEF Carried
    <2>3. QED
      BY <1>1, <1>5, <1>7, <2>1, <2>2 DEF Runs
  <1>13. /\ all \in Runs /\ all.at = next /\ all.verdict = verdict /\ all.ptr = "applied"
         /\ all.claim = r.claim /\ all.post = r.post /\ all.ready = r.ready
         /\ all.checked = r.checked /\ (all.misfit <=> misfit) /\ all.landed = {"ptr"}
    BY <1>6, <1>9, <1>12 DEF Runs
  <1>14. /\ undone \in Runs /\ undone.at \in {"online", "report"} /\ undone.verdict # "missed"
         /\ undone.ptr = r.ptr
         /\ undone.claim = r.claim /\ undone.post = r.post /\ undone.ready = r.ready
         /\ undone.checked = r.checked /\ undone.misfit = r.misfit /\ undone.landed = {}
         /\ undone.at = "report" => undone.verdict = "failed"
    <2>1. r.landed = {} /\ r.verdict # "missed"
      BY <1>2 DEF Carried
    <2>2. CASE online
      BY <1>1, <1>8, <2>1, <2>2 DEF Runs, Stages
    <2>3. CASE ~online
      BY <1>1, <1>8, <2>1, <2>3 DEF Runs, Stages, Failing
    <2>4. QED
      BY <2>2, <2>3
  <1>15. /\ some \in Runs /\ some.at = undone.at /\ some.verdict = undone.verdict
         /\ some.ptr = r.ptr
         /\ some.claim = r.claim /\ some.post = r.post /\ some.ready = r.ready
         /\ some.checked = r.checked /\ (some.misfit <=> misfit)
    BY <1>6, <1>10, <1>14 DEF Runs
  <1> HIDE DEF online
  <1>16. RunOK(j, all) /\ all.at \notin {"off", "search"} /\ all.landed # {}
    BY <1>2, <1>5, <1>6, <1>13, PushedIsOK
  <1>17. RunOK(j, undone) /\ undone.at \notin {"off", "search", "end"}
    BY <1>2, <1>14, PushedIsOK DEF Good, Carried
  <1>18. /\ Lossy(undone) \in Runs /\ Lossy(undone).at = undone.at /\ Lossy(undone).lossy
         /\ Lossy(undone).verdict = undone.verdict
         /\ Lossy(undone).claim = r.claim /\ Lossy(undone).post = r.post
         /\ Lossy(undone).ready = r.ready /\ Lossy(undone).checked = r.checked
         /\ Lossy(undone).misfit = r.misfit
    BY <1>14 DEF Lossy, Runs
  <1>19. Onward(j, Lossy(undone))
    <2>1. RunOK(j, Lossy(undone))
      BY <1>2, <1>14, <1>18, PushedIsOK
    <2>2. QED
      BY <1>14, <1>18, <2>1 DEF Onward
  <1>20. /\ Lossy(some) \in Runs /\ Lossy(some).at = undone.at /\ Lossy(some).lossy
         /\ Lossy(some).verdict = undone.verdict
         /\ Lossy(some).claim = r.claim /\ Lossy(some).post = r.post
         /\ Lossy(some).ready = r.ready /\ Lossy(some).checked = r.checked
         /\ (Lossy(some).misfit <=> misfit)
    BY <1>15 DEF Lossy, Runs
  <1>21. RunOK(j, Lossy(some)) /\ Lossy(some).at \notin {"off", "search"}
    BY <1>2, <1>6, <1>14, <1>20, PushedIsOK
  <1>22. TRUE => /\ all \in Runs /\ RunOK(j, all) /\ all.at \notin {"off", "search"} /\ all.landed # {}
                 /\ Lossy(some) \in Runs /\ RunOK(j, Lossy(some))
                 /\ Lossy(some).lossy /\ Lossy(some).at \notin {"off", "search"}
    BY <1>13, <1>16, <1>20, <1>21
  <1>23. undone \in Runs /\ (undone.at = "end" => undone.landed = {} \/ undone.lossy)
    BY <1>14
  <1> HIDE DEF r
  <1>24. QED
    BY <1>1, <1>9, <1>10, <1>11, <1>17, <1>19, <1>22, <1>23, EnrichKeeps

\* What a push or a report leaves of a run that is about to end.
LEMMA EndingIsOK ==
    ASSUME NEW j \in Ids, NEW r, RunOK(j, r), r.at # "off", NEW s, Claimed(s),
           s.ready = r.ready /\ s.checked = r.checked /\ s.misfit = r.misfit /\ s.ptr = r.ptr,
           s.at \in {"report", "end"}, s.verdict # "missed",
           s.at = "report" /\ ~s.lossy => (s.verdict \in Good <=> s.landed # {})
    PROVE  RunOK(j, s)
  BY DEF RunOK, Walked, Claimed, Whole, Blank, Landed, Walks, Vouched

LEMMA OnlineKeeps == ASSUME Inv, NEW j \in Ids, Online(j) PROVE Goes
  <1>1. run[j].at = "online" /\ job[j].status = "running" /\ run[j] \in Runs /\ RunOK(j, run[j])
    BY DEF Online, At, Inv, TypeOK
  <1>2. /\ run[j].verdict # "missed" /\ Claimed(run[j])
        /\ ~run[j].lossy => (run[j].ptr = "applied" <=> run[j].landed # {})
    BY <1>1 DEF RunOK, Walked, Landed
  <1> DEFINE r == run[j]
  <1>3. PICK takes : takes = (r.found # "exact" \/ r.claim \in {NoFile, file})
    OBVIOUS
  <1>4. PICK done : done = [r EXCEPT !.at = "end"]
    OBVIOUS
  <1>5. PICK undone : undone = OnlineFailed(r)
    OBVIOUS
  <1>6. PICK all : all = [done EXCEPT !.landed = @ \cup {"post"},
                                      !.misfit = @ \/ ("post" = "ptr" /\ file # job[j].hash)]
    OBVIOUS
  <1>7. PICK some : some = [undone EXCEPT !.landed = @ \cup {"post"},
                                          !.misfit = @ \/ ("post" = "ptr" /\ file # job[j].hash)]
    OBVIOUS
  <1>8. EnrichImage(j, takes, "post", done, undone) /\ OnlyCalls
    BY <1>3, <1>4, <1>5 DEF Online
  <1>9. done \in Runs /\ done.at = "end" /\ Kept(done, r) /\ done.verdict = r.verdict
    BY <1>1, <1>4 DEF Runs, Stages, Kept
  <1>10. /\ all \in Runs /\ all.at = "end" /\ all.verdict = r.verdict /\ all.ptr = r.ptr
         /\ all.claim = r.claim /\ all.post = r.post /\ all.ready = r.ready
         /\ all.checked = r.checked /\ all.misfit = r.misfit /\ all.landed # {}
    <2>1. done.misfit \/ ("post" = "ptr" /\ file # job[j].hash) <=> done.misfit
      OBVIOUS
    <2>2. PICK misfit : misfit = (done.misfit \/ ("post" = "ptr" /\ file # job[j].hash))
      OBVIOUS
    <2>3. misfit = done.misfit
      BY <1>9, <2>1, <2>2 DEF Runs
    <2>4. all = [done EXCEPT !.landed = @ \cup {"post"}, !.misfit = misfit]
      BY <1>6, <2>2
    <2>5. QED
      BY <1>9, <2>3, <2>4 DEF Runs, Kept
  <1>11. /\ undone \in Runs /\ undone.at \in {"report", "end"} /\ undone.verdict # "missed"
         /\ undone.ptr = r.ptr /\ undone.lossy = r.lossy
         /\ undone.claim = r.claim /\ undone.post = r.post /\ undone.ready = r.ready
         /\ undone.checked = r.checked /\ undone.misfit = r.misfit /\ undone.landed = r.landed
         /\ undone.at = "report" => r.ptr = "applied" /\ undone.verdict = "ptr only"
         /\ undone.at = "end" => r.ptr # "applied"
    <2>1. CASE r.ptr = "applied"
      <3>1. undone = [r EXCEPT !.verdict = "ptr only", !.at = "report"]
        BY <1>5, <2>1 DEF OnlineFailed
      <3>2. QED
        BY <1>1, <2>1, <3>1 DEF Runs, Stages, Good
    <2>2. CASE r.ptr # "applied"
      <3>1. undone = [r EXCEPT !.failed = TRUE, !.at = "end"]
        BY <1>5, <2>2 DEF OnlineFailed, ItemFails
      <3>2. QED
        BY <1>1, <1>2, <2>2, <3>1 DEF Runs, Stages
    <2>3. QED
      BY <2>1, <2>2
  <1>12. /\ some \in Runs /\ some.at = undone.at /\ some.verdict = undone.verdict
         /\ some.ptr = r.ptr
         /\ some.claim = r.claim /\ some.post = r.post /\ some.ready = r.ready
         /\ some.checked = r.checked /\ some.misfit = r.misfit
    <2>1. undone.misfit \/ ("post" = "ptr" /\ file # job[j].hash) <=> undone.misfit
      OBVIOUS
    <2>2. PICK misfit : misfit = (undone.misfit \/ ("post" = "ptr" /\ file # job[j].hash))
      OBVIOUS
    <2>3. misfit = undone.misfit
      BY <1>11, <2>1, <2>2 DEF Runs
    <2>4. some = [undone EXCEPT !.landed = @ \cup {"post"}, !.misfit = misfit]
      BY <1>7, <2>2
    <2>5. QED
      BY <1>11, <2>3, <2>4 DEF Runs
  <1> HIDE DEF r
  <1>13. RunOK(j, r) /\ r.at # "off" /\ Claimed(r)
    BY <1>1, <1>2 DEF r
  <1>14. r.verdict # "missed" /\ (~r.lossy => (r.ptr = "applied" <=> r.landed # {}))
    BY <1>2 DEF r
  <1>15. RunOK(j, all)
    BY <1>10, <1>13, <1>14, EndingIsOK DEF Claimed
  <1>16. RunOK(j, undone)
    BY <1>11, <1>13, <1>14, EndingIsOK DEF Claimed, Good
  <1>17. undone.at = "end" => undone.landed = {} \/ undone.lossy
    BY <1>11, <1>14
  <1>18. /\ Lossy(undone) \in Runs /\ Lossy(undone).at = undone.at /\ Lossy(undone).lossy
         /\ Lossy(undone).verdict = undone.verdict /\ Lossy(undone).ptr = r.ptr
         /\ Lossy(undone).claim = r.claim /\ Lossy(undone).post = r.post
         /\ Lossy(undone).ready = r.ready /\ Lossy(undone).checked = r.checked
         /\ Lossy(undone).misfit = r.misfit
    BY <1>11 DEF Lossy, Runs
  <1>19. RunOK(j, Lossy(undone))
    BY <1>11, <1>13, <1>18, EndingIsOK DEF Claimed
  <1>20. Onward(j, Lossy(undone)) /\ undone.at \notin {"off", "search"}
    BY <1>11, <1>18, <1>19 DEF Onward
  <1>21. /\ Lossy(some) \in Runs /\ Lossy(some).at = undone.at /\ Lossy(some).lossy
         /\ Lossy(some).verdict = undone.verdict /\ Lossy(some).ptr = r.ptr
         /\ Lossy(some).claim = r.claim /\ Lossy(some).post = r.post
         /\ Lossy(some).ready = r.ready /\ Lossy(some).checked = r.checked
         /\ Lossy(some).misfit = r.misfit
    BY <1>12 DEF Lossy, Runs
  <1>22. RunOK(j, Lossy(some)) /\ Lossy(some).at \notin {"off", "search"}
    BY <1>11, <1>13, <1>21, EndingIsOK DEF Claimed
  <1>23. takes => /\ all \in Runs /\ RunOK(j, all) /\ all.at \notin {"off", "search"} /\ all.landed # {}
                  /\ Lossy(some) \in Runs /\ RunOK(j, Lossy(some))
                  /\ Lossy(some).lossy /\ Lossy(some).at \notin {"off", "search"}
    BY <1>10, <1>15, <1>21, <1>22
  <1>24. undone \in Runs
    BY <1>11
  <1>25. QED
    BY <1>1, <1>6, <1>7, <1>8, <1>16, <1>17, <1>20, <1>23, <1>24, EnrichKeeps

LEMMA OverIsOK ==
    ASSUME NEW j \in Ids, NEW r \in Runs
    PROVE  /\ Over(r) \in Runs /\ RunOK(j, Over(r)) /\ Over(r).at = "end"
           /\ Over(r).landed = r.landed /\ Over(r).lossy = r.lossy
  <1>1. /\ Over(r) \in Runs /\ Over(r).at = "end" /\ Over(r).landed = r.landed
        /\ Over(r).lossy = r.lossy /\ Over(r).verdict = "none" /\ Over(r).claim = NoFile
        /\ Over(r).ptr = "no" /\ Over(r).misfit = FALSE /\ Over(r).checked = "no"
    <2>1. <<>> \in Seq(STRING) /\ {} \in SUBSET Nat /\ {} \in SUBSET Notables
      OBVIOUS
    <2>2. NoFile \in Files
      BY DEF Files
    <2>3. r.landed \in SUBSET {"ptr", "post", "file"} /\ r.failed \in BOOLEAN /\ r.lossy \in BOOLEAN
      BY DEF Runs
    <2>4. NoRun \in Runs
      BY <2>1, <2>2 DEF NoRun, Runs, Stages
    <2>5. /\ NoRun.verdict = "none" /\ NoRun.claim = NoFile /\ NoRun.ptr = "no"
          /\ NoRun.misfit = FALSE /\ NoRun.checked = "no"
      BY DEF NoRun
    <2>6. Over(r) = [NoRun EXCEPT !.at = "end", !.failed = r.failed, !.landed = r.landed,
                                  !.lossy = r.lossy]
      BY DEF Over
    <2>7. PICK s : s = Over(r)
      OBVIOUS
    <2>8. /\ s.at = "end" /\ s.landed = r.landed /\ s.lossy = r.lossy
          /\ s.verdict = NoRun.verdict /\ s.claim = NoRun.claim
          /\ s.ptr = NoRun.ptr /\ s.misfit = NoRun.misfit /\ s.checked = NoRun.checked
      BY <2>4, <2>6, <2>7 DEF Runs
    <2>9. s \in Runs
      <3>1. PICK failed, landed, lossy : failed = r.failed /\ landed = r.landed /\ lossy = r.lossy
        OBVIOUS
      <3>2. s = [NoRun EXCEPT !.at = "end", !.failed = failed, !.landed = landed, !.lossy = lossy]
        BY <2>6, <2>7, <3>1
      <3>3. failed \in BOOLEAN /\ landed \in SUBSET {"ptr", "post", "file"} /\ lossy \in BOOLEAN
        BY <2>3, <3>1
      <3>4. "end" \in Stages
        BY DEF Stages
      <3>5. QED
        BY <2>4, <3>2, <3>3, <3>4 DEF Runs
    <2>10. QED
      BY <2>5, <2>7, <2>8, <2>9
  <1>2. QED
    BY <1>1 DEF RunOK, Walked, Claimed, Whole, Blank, Landed, Walks

LEMMA ReportKeeps == ASSUME Inv, NEW j \in Ids, Report(j) PROVE Goes
  <1>1. run[j].at = "report" /\ job[j].status = "running" /\ run[j] \in Runs /\ RunOK(j, run[j])
    BY DEF Report, At, Inv, TypeOK
  <1>2. ~run[j].lossy => (run[j].verdict \in Good <=> run[j].landed # {})
    BY <1>1 DEF RunOK, Landed
  <1>3. PICK s : s = Over(run[j])
    OBVIOUS
  <1>4. s \in Runs /\ RunOK(j, s) /\ s.at = "end" /\ s.landed = run[j].landed /\ s.lossy = run[j].lossy
    BY <1>1, <1>3, OverIsOK
  <1>5. CASE Verdict(j, run[j].verdict) /\ Becomes(j, s) /\ UNCHANGED events
    <2>1. UNCHANGED <<file, ptr, clock, until, closed, job, drops>> /\ events' \in Nat
      BY <1>5 DEF Report, Inv, TypeOK
    <2>2. QED
      BY <1>1, <1>2, <1>4, <1>5, <2>1, RunIsTold
  <1>6. CASE Happens /\ Unheard /\ Becomes(j, Lossy(s))
    <2>1. PICK u : u = Lossy(s)
      OBVIOUS
    <2>2. /\ u \in Runs /\ u.at = "end" /\ u.lossy
          /\ u.verdict = s.verdict /\ u.ptr = s.ptr
          /\ u.claim = s.claim /\ u.post = s.post /\ u.ready = s.ready
          /\ u.checked = s.checked /\ u.misfit = s.misfit
      BY <1>4, <2>1 DEF Lossy, Runs
    <2>3. Claimed(s) /\ s.verdict = "none"
      BY <1>3, <1>4 DEF RunOK, Over, NoRun
    <2>4. RunOK(j, u)
      BY <1>4, <2>2, <2>3, EndingIsOK DEF Claimed
    <2>5. Onward(j, u)
      BY <2>2, <2>4 DEF Onward
    <2>6. OnlyCalls /\ Becomes(j, u)
      BY <1>6, <2>1 DEF Report, OnlyCalls
    <2>7. QED
      BY <1>1, <1>6, <2>5, <2>6, WalkMoves
  <1>7. QED
    BY <1>3, <1>5, <1>6 DEF Report

\* The image gets another file: a check that passed no longer holds.
LEMMA RefiledIsOK ==
    ASSUME NEW k \in Ids, NEW r \in Runs, RunOK(k, r), ptr' = ptr, job'[k] = job[k],
           NEW s, s = IF r.checked = "yes" THEN [r EXCEPT !.checked = "moved"] ELSE r
    PROVE  /\ s \in Runs /\ RunOK(k, s)'
           /\ s.at = r.at /\ s.lossy = r.lossy /\ s.landed = r.landed
  <1>1. CASE r.checked = "yes"
    <2>1. s \in Runs /\ s.checked = "moved"
          /\ s.at = r.at /\ s.verdict = r.verdict /\ s.left = r.left /\ s.cands = r.cands
      BY <1>1 DEF Runs, Kept
    <2>2. /\ s.chain = r.chain /\ s.trail = r.trail /\ s.hit = r.hit /\ s.thumb = r.thumb
          /\ s.claim = r.claim /\ s.post = r.post /\ s.ptr = r.ptr
          /\ s.landed = r.landed /\ s.lossy = r.lossy
          /\ s.ready = r.ready /\ s.misfit = r.misfit
      BY <1>1 DEF Runs
    <2>3. Walked(k, s)'
      BY <2>1, <2>2 DEF RunOK, Walked, Covered, Asked, Explained, Is
    <2>4. Claimed(s)' /\ Blank(s)' /\ Landed(k, s)' /\ Whole(k, s)'
      BY <1>1, <2>1, <2>2 DEF RunOK, Claimed, Blank, Landed, Whole, Vouched, Is
    <2>5. QED
      BY <2>1, <2>2, <2>3, <2>4 DEF RunOK
  <1>2. CASE r.checked # "yes"
    <2>1. s = r
      BY <1>2
    <2>2. Walked(k, s)'
      BY <2>1 DEF RunOK, Walked, Covered, Asked, Explained, Is
    <2>3. Claimed(s)' /\ Blank(s)' /\ Landed(k, s)'
      BY <2>1 DEF RunOK, Claimed, Blank, Landed, Is
    <2>4. Whole(k, s)'
      BY <1>2, <2>1 DEF RunOK, Whole, Vouched, Is
    <2>5. QED
      BY <2>1, <2>2, <2>3, <2>4 DEF RunOK
  <1>3. QED
    BY <1>1, <1>2

LEMMA FilesStand == ASSUME TypeOK, file' = file + 1, file < MaxFiles PROVE file' \in 0 .. MaxFiles
  BY LookupsAssumption DEF TypeOK

\* A replace lands, whatever monbooru's answer.
LEMMA FileLands ==
    ASSUME Inv, NEW j \in Ids, job[j].status = "running",
           NEW s, s \in Runs, RunOK(j, s), s.at \notin {"off", "search"}, s.landed # {},
           run' = Refiled([run EXCEPT ![j] = s]), file < MaxFiles, file' = file + 1,
           Verdict(j, "replaced"),
           UNCHANGED <<ptr, clock, until, closed, job, drops>>, events' \in Nat
    PROVE  Goes
  <1>1. run \in [Ids -> Runs] /\ "replaced" \in Good
    BY DEF Inv, TypeOK, Good
  <1>2. /\ told' = [told EXCEPT ![j] = [n |-> job[j].n, good |-> TRUE]]
        /\ heard' = [heard EXCEPT ![j] = job[j].n]
    BY <1>1 DEF Verdict
  <1>3. job[j].n \in Nat /\ told \in [Ids -> [n : Nat, good : BOOLEAN]] /\ heard \in [Ids -> Nat]
    BY DEF Inv, TypeOK, Jobs
  <1>4. told' \in [Ids -> [n : Nat, good : BOOLEAN]] /\ heard' \in [Ids -> Nat]
    BY <1>2, <1>3
  <1>5. ASSUME NEW k \in Ids
        PROVE  run'[k] \in Runs /\ RunOK(k, run[k])' /\ Settled(k)'
               /\ (run'[k].at = "search" => run[k].at = "search")
    <2>1. PICK r : r = IF k = j THEN s ELSE run[k]
      OBVIOUS
    <2>2. r \in Runs /\ RunOK(k, r)
      BY <1>1, <2>1 DEF Inv
    <2>3. PICK u : u = IF r.checked = "yes" THEN [r EXCEPT !.checked = "moved"] ELSE r
      OBVIOUS
    <2>4. u \in Runs /\ RunOK(k, u)' /\ u.at = r.at /\ u.lossy = r.lossy /\ u.landed = r.landed
      BY <2>2, <2>3, RefiledIsOK
    <2>5. run'[k] = u
      BY <1>1, <2>1, <2>3 DEF Refiled
    <2>6. Settled(k)'
      <3>1. Settled(k) /\ job'[k] = job[k]
        BY DEF Inv
      <3>2. CASE k = j
        <4>1. heard'[k] = job[k].n /\ told'[k].good /\ job[k].status = "running"
          BY <1>2, <1>3, <3>2
        <4>2. run'[k].at # "off" /\ run'[k].landed # {}
          BY <2>1, <2>4, <2>5, <3>2
        <4>3. heard'[k] <= job[k].n
          BY <1>3, <3>2, <4>1
        <4>4. QED
          BY <3>1, <3>2, <4>1, <4>2, <4>3 DEF Settled, Heard, Is
      <3>3. CASE k # j
        <4>1. heard'[k] = heard[k] /\ told'[k] = told[k]
          BY <1>2, <1>3, <3>3
        <4>2. run'[k].at = run[k].at /\ run'[k].lossy = run[k].lossy /\ run'[k].landed = run[k].landed
          BY <2>1, <2>4, <2>5, <3>3
        <4>3. QED
          BY <3>1, <4>1, <4>2 DEF Settled, Heard, Is
      <3>4. QED
        BY <3>2, <3>3
    <2>7. run'[k].at = "search" => run[k].at = "search"
      BY <2>1, <2>4, <2>5
    <2>8. QED
      BY <2>4, <2>5, <2>6, <2>7
  <1>6. run' \in [Ids -> Runs]
    BY <1>1, <1>5 DEF Refiled
  <1>7. TypeOK'
    BY <1>4, <1>6, FilesStand DEF Inv, TypeOK
  <1>8. Cooling' /\ \A d \in drops' : Dropped(d)'
    BY DEF Inv, Dropped, Cooling
  <1>9. QED
    BY <1>5, <1>7, <1>8 DEF Inv, Goes

LEMMA RefileKeeps == ASSUME Inv, Refile PROVE Goes
  <1>1. /\ run' = Refiled(run) /\ file < MaxFiles /\ file' = file + 1 /\ events' \in Nat
        /\ UNCHANGED <<ptr, clock, until, closed, job, drops, told, heard>>
    BY DEF Refile, Happens, Inv, TypeOK
  <1>2. run \in [Ids -> Runs]
    BY DEF Inv, TypeOK
  <1>3. ASSUME NEW k \in Ids
        PROVE  run'[k] \in Runs /\ RunOK(k, run[k])' /\ Settled(k)'
               /\ (run'[k].at = "search" => run[k].at = "search")
    <2>1. PICK r : r = run[k]
      OBVIOUS
    <2>2. PICK u : u = IF r.checked = "yes" THEN [r EXCEPT !.checked = "moved"] ELSE r
      OBVIOUS
    <2>3. u \in Runs /\ RunOK(k, u)' /\ u.at = r.at /\ u.lossy = r.lossy /\ u.landed = r.landed
      BY <1>1, <1>2, <2>1, <2>2, RefiledIsOK DEF Inv
    <2>4. run'[k] = u
      BY <1>1, <1>2, <2>1, <2>2 DEF Refiled
    <2>5. Settled(k) /\ job'[k] = job[k]
      BY <1>1 DEF Inv
    <2>6. Settled(k)'
      BY <1>1, <2>1, <2>3, <2>4, <2>5 DEF Settled, Heard, Is
    <2>7. QED
      BY <2>1, <2>3, <2>4, <2>6
  <1>4. run' \in [Ids -> Runs]
    BY <1>1, <1>3 DEF Refiled
  <1>5. TypeOK'
    BY <1>1, <1>4, FilesStand DEF Inv, TypeOK
  <1>6. Cooling' /\ \A d \in drops' : Dropped(d)'
    BY <1>1 DEF Inv, Dropped, Cooling
  <1>7. QED
    BY <1>3, <1>5, <1>6 DEF Inv, Goes

LEMMA PushFileKeeps == ASSUME Inv, NEW j \in Ids, PushFile(j) PROVE Goes
  <1>1. run[j].at = "file push" /\ job[j].status = "running" /\ run[j] \in Runs /\ RunOK(j, run[j])
    BY DEF PushFile, At, Inv, TypeOK
  <1>2. Carried(j, run[j])
    BY <1>1, UnderwayIsCarried
  <1>3. run[j].verdict # "missed" /\ Claimed(run[j]) /\ run[j].landed = {}
    BY <1>2 DEF Carried
  <1>4. UNCHANGED <<ptr, clock, until, closed, job, drops>>
    BY DEF PushFile
  <1> DEFINE r == run[j]
  <1>5. PICK u : u = [r EXCEPT !.landed = {"file"}]
    OBVIOUS
  <1>6. PICK landed : landed = [r EXCEPT !.landed = {"file"}, !.at = "end"]
    OBVIOUS
  <1>7. PICK lost : lost = Lossy(Failing(u, "failed"))
    OBVIOUS
  <1>8. \/ /\ file < MaxFiles /\ file' = file + 1 /\ Verdict(j, "replaced")
           /\ run' = Refiled([run EXCEPT ![j] = landed]) /\ UNCHANGED events
        \/ /\ file < MaxFiles /\ file' = file + 1 /\ Verdict(j, "replaced")
           /\ Happens /\ run' = Refiled([run EXCEPT ![j] = lost])
        \/ Verdict(j, "refused") /\ Becomes(j, ItemFails(r)) /\ UNCHANGED <<file, events>>
        \/ Unheard /\ Becomes(j, Failing(r, "failed")) /\ UNCHANGED <<file, events>>
        \/ Unheard /\ Happens /\ Becomes(j, Lossy(Failing(r, "failed"))) /\ UNCHANGED file
    BY <1>5, <1>6, <1>7 DEF PushFile, RefusedPush
  <1>9. /\ landed \in Runs /\ landed.at = "end" /\ landed.landed = {"file"} /\ landed.verdict = r.verdict
        /\ landed.ptr = r.ptr /\ landed.claim = r.claim /\ landed.post = r.post
        /\ landed.ready = r.ready /\ landed.checked = r.checked /\ landed.misfit = r.misfit
    BY <1>1, <1>6 DEF Runs, Stages
  <1>10. /\ u \in Runs /\ u.landed = {"file"}
         /\ u.ptr = r.ptr /\ u.claim = r.claim /\ u.post = r.post
         /\ u.ready = r.ready /\ u.checked = r.checked /\ u.misfit = r.misfit
    BY <1>1, <1>5 DEF Runs
  <1>11. /\ lost \in Runs /\ lost.at = "report" /\ lost.landed = {"file"} /\ lost.verdict = "failed"
         /\ lost.lossy /\ lost.ptr = r.ptr /\ lost.claim = r.claim /\ lost.post = r.post
         /\ lost.ready = r.ready /\ lost.checked = r.checked /\ lost.misfit = r.misfit
    BY <1>7, <1>10 DEF Lossy, Failing, Runs, Stages
  <1>12. PICK fails : fails = Failing(r, "failed")
    OBVIOUS
  <1>13. Onward(j, fails)
    BY <1>2, <1>12, FailingIsOK
  <1>14. Claimed(landed) /\ Claimed(lost)
    BY <1>3, <1>9, <1>11 DEF Claimed
  <1>15. RunOK(j, landed)
    BY <1>1, <1>3, <1>9, <1>14, EndingIsOK
  <1>16. RunOK(j, lost)
    BY <1>1, <1>11, <1>14, EndingIsOK
  <1>17. CASE /\ file < MaxFiles /\ file' = file + 1 /\ Verdict(j, "replaced")
              /\ run' = Refiled([run EXCEPT ![j] = landed]) /\ UNCHANGED events
    <2>1. events' \in Nat
      BY <1>17 DEF Inv, TypeOK
    <2>2. QED
      BY <1>1, <1>4, <1>9, <1>15, <1>17, <2>1, FileLands
  <1>18. CASE /\ file < MaxFiles /\ file' = file + 1 /\ Verdict(j, "replaced")
              /\ Happens /\ run' = Refiled([run EXCEPT ![j] = lost])
    <2>1. events' \in Nat
      BY <1>18 DEF Inv, TypeOK, Happens
    <2>2. QED
      BY <1>1, <1>4, <1>11, <1>16, <1>18, <2>1, FileLands
  <1>19. CASE Verdict(j, "refused") /\ Becomes(j, ItemFails(r)) /\ UNCHANGED <<file, events>>
    <2>1. PICK s : s = ItemFails(r)
      OBVIOUS
    <2>2. s = [r EXCEPT !.failed = TRUE, !.at = "end"]
      BY <2>1 DEF ItemFails
    <2>3. /\ s \in Runs /\ s.at = "end" /\ s.landed = {} /\ s.verdict = r.verdict
          /\ s.ptr = r.ptr /\ s.claim = r.claim /\ s.post = r.post
          /\ s.ready = r.ready /\ s.checked = r.checked /\ s.misfit = r.misfit
      BY <1>1, <1>3, <2>2 DEF Runs, Stages
    <2>4. RunOK(j, s)
      BY <1>1, <1>3, <2>3, EndingIsOK DEF Claimed
    <2>5. "refused" \notin Good /\ events' \in Nat
      BY <1>19 DEF Good, Inv, TypeOK
    <2>6. QED
      BY <1>1, <1>4, <1>19, <2>1, <2>3, <2>4, <2>5, RunIsTold
  <1>20. CASE Unheard /\ Becomes(j, fails) /\ UNCHANGED <<file, events>>
    <2>1. UNCHANGED LocalVars
      BY <1>4, <1>20 DEF LocalVars, Unheard
    <2>2. QED
      BY <1>1, <1>13, <1>20, <2>1, WalkMoves
  <1>21. CASE Unheard /\ Happens /\ Becomes(j, Lossy(fails)) /\ UNCHANGED file
    <2>1. PICK s : s = Lossy(fails)
      OBVIOUS
    <2>2. fails \in Runs /\ fails.at = "report" /\ RunOK(j, fails) /\ Claimed(fails) /\ fails.verdict = "failed"
      <3>1. fails = [r EXCEPT !.failed = TRUE, !.verdict = "failed", !.at = "report"]
        BY <1>12 DEF Failing
      <3>2. fails.at = "report" /\ fails.verdict = "failed"
        BY <1>1, <3>1 DEF Runs
      <3>3. QED
        BY <1>13, <3>2 DEF Onward, RunOK
    <2>3. /\ s \in Runs /\ s.at = "report" /\ s.lossy /\ s.verdict = "failed"
          /\ s.ptr = fails.ptr /\ s.claim = fails.claim /\ s.post = fails.post
          /\ s.ready = fails.ready /\ s.checked = fails.checked /\ s.misfit = fails.misfit
      BY <2>1, <2>2 DEF Lossy, Runs
    <2>4. RunOK(j, s)
      BY <2>2, <2>3, EndingIsOK DEF Claimed
    <2>5. Onward(j, s)
      BY <2>3, <2>4 DEF Onward
    <2>6. OnlyCalls
      BY <1>4, <1>21 DEF OnlyCalls
    <2>7. QED
      BY <1>1, <1>21, <2>1, <2>5, <2>6, WalkMoves
  <1>22. QED
    BY <1>8, <1>12, <1>17, <1>18, <1>19, <1>20, <1>21

-----------------------------------------------------------------------------
(* The queue and the surroundings *)

LEMMA FlipKeeps == ASSUME Inv, Flip PROVE Goes
  <1>1. /\ events' \in Nat
        /\ UNCHANGED <<file, clock, until, closed, job, drops, told, heard>>
        /\ run \in [Ids -> Runs]
    BY DEF Flip, Happens, Inv, TypeOK
  <1>2. /\ ptr' \in {"off", "syncing", "ready"}
        /\ run' = [k \in Ids |-> IF ptr' = "ready" THEN [run[k] EXCEPT !.ready = TRUE] ELSE run[k]]
    BY DEF Flip, Inv, TypeOK
  <1>3. ASSUME NEW k \in Ids
        PROVE  run'[k] \in Runs /\ RunOK(k, run[k])' /\ Settled(k)'
               /\ (run'[k].at = "search" => run[k].at = "search")
    <2>1. PICK r : r = run[k]
      OBVIOUS
    <2>2. r \in Runs /\ RunOK(k, r) /\ Settled(k) /\ job'[k] = job[k]
      BY <1>1, <2>1 DEF Inv
    <2>3. PICK s : s = run'[k]
      OBVIOUS
    <2>4. s = IF ptr' = "ready" THEN [r EXCEPT !.ready = TRUE] ELSE r
      BY <1>2, <2>1, <2>3
    <2>5. /\ s \in Runs /\ (s.ready <=> r.ready \/ ptr' = "ready")
          /\ s.at = r.at /\ s.verdict = r.verdict /\ s.left = r.left /\ s.cands = r.cands
          /\ s.chain = r.chain /\ s.trail = r.trail /\ s.hit = r.hit /\ s.thumb = r.thumb
          /\ s.claim = r.claim /\ s.post = r.post /\ s.ptr = r.ptr
          /\ s.landed = r.landed /\ s.lossy = r.lossy
          /\ s.checked = r.checked /\ s.misfit = r.misfit
      <3>1. CASE ptr' = "ready"
        BY <2>2, <2>4, <3>1 DEF Runs, Kept
      <3>2. CASE ptr' # "ready"
        BY <2>2, <2>4, <3>2 DEF Runs, Kept
      <3>3. QED
        BY <3>1, <3>2
    <2>6. Walked(k, s)'
      BY <2>2, <2>5 DEF RunOK, Walked, Covered, Asked, Explained, Is
    <2>7. Claimed(s)' /\ Blank(s)' /\ Landed(k, s)'
      BY <2>2, <2>5 DEF RunOK, Claimed, Blank, Landed, Is
    <2>8. Whole(k, s)'
      BY <1>1, <2>2, <2>5 DEF RunOK, Whole, Vouched, Is
    <2>9. Settled(k)'
      BY <1>1, <2>1, <2>2, <2>3, <2>5 DEF Settled, Heard, Is
    <2>10. QED
      BY <2>1, <2>3, <2>5, <2>6, <2>7, <2>8, <2>9 DEF RunOK
  <1>4. TypeOK'
    BY <1>1, <1>2, <1>3 DEF Inv, TypeOK
  <1>5. Cooling' /\ \A d \in drops' : Dropped(d)'
    BY <1>1 DEF Inv, Dropped, Cooling
  <1>6. QED
    BY <1>3, <1>4, <1>5 DEF Inv, Goes

LEMMA TickKeeps == ASSUME Inv, Tick PROVE Goes
  <1>1. /\ events' \in Nat /\ clock' \in Nat
        /\ UNCHANGED <<file, ptr, until, closed, job, run, drops, told, heard>>
    BY DEF Tick, Happens, Inv, TypeOK
  <1>2. TypeOK'
    BY <1>1 DEF Inv, TypeOK
  <1>3. ASSUME NEW k \in Ids
        PROVE  RunOK(k, run[k])' /\ Settled(k)'
    <2>1. PICK r : r = run[k]
      OBVIOUS
    <2>2. RunOK(k, r) /\ Settled(k)
      BY <2>1 DEF Inv
    <2>3. RunOK(k, r)' /\ Settled(k)'
      BY <1>1, <2>2, RunStands, SettledStands
    <2>4. QED
      BY <1>1, <2>1, <2>3
  <1>4. Cooling' /\ \A d \in drops' : Dropped(d)'
    BY <1>1 DEF Inv, Dropped, Cooling
  <1>5. QED
    BY <1>1, <1>2, <1>3, <1>4 DEF Inv, Goes

\* A run that is not under way says nothing, whatever its job is.
LEMMA OffIsOK ==
    ASSUME NEW j \in Ids, NEW r, r.at = "off", Blank(r)
    PROVE  RunOK(j, r) /\ RunOK(j, r)'
  <1>1. /\ r.verdict = "none" /\ r.claim = NoFile /\ r.ptr = "no" /\ ~r.misfit
        /\ r.checked = "no"
    BY DEF Blank
  <1>2. RunOK(j, r)
    BY <1>1 DEF RunOK, Walked, Claimed, Whole, Blank, Landed, Walks
  <1>3. RunOK(j, r)'
    BY <1>1 DEF RunOK, Walked, Claimed, Whole, Blank, Landed, Walks
  <1>4. QED
    BY <1>2, <1>3

LEMMA NoRunIsBlank == NoRun \in Runs /\ NoRun.at = "off" /\ Blank(NoRun)
  <1>1. <<>> \in Seq(STRING) /\ {} \in SUBSET Nat /\ {} \in SUBSET Notables
    OBVIOUS
  <1>2. NoFile \in Files
    BY DEF Files
  <1>3. NoRun \in Runs
    BY <1>1, <1>2 DEF NoRun, Runs, Stages
  <1>4. QED
    BY <1>3 DEF NoRun, Blank

\* A step of the queue on one job.
LEMMA QueueMoves ==
    ASSUME Inv, NEW j \in Ids, NEW q \in Jobs, job' = [job EXCEPT ![j] = q],
           NEW s \in Runs, run' = [run EXCEPT ![j] = s], RunOK(j, s)', Settled(j)',
           s.at = "search" => run[j].at = "search" \/ Open(s),
           UNCHANGED <<QueueVars, told, heard>>, events' \in Nat,
           drops' \in SUBSET [job : Ids, n : Nat], drops \subseteq drops',
           \A d \in drops' : d.job = j => Dropped(d)',
           \A d \in drops' \ drops : d.job = j
    PROVE  Goes
  <1>1. job \in [Ids -> Jobs] /\ run \in [Ids -> Runs] /\ drops \in SUBSET [job : Ids, n : Nat]
    BY DEF Inv, TypeOK
  <1>2. TypeOK' /\ Cooling'
    BY <1>1 DEF Inv, TypeOK, Cooling, QueueVars
  <1>3. ASSUME NEW k \in Ids
        PROVE  RunOK(k, run[k])' /\ Settled(k)'
    <2>1. CASE k = j
      BY <1>1, <2>1
    <2>2. CASE k # j
      <3>1. /\ run'[k] = run[k] /\ job'[k] = job[k] /\ told' = told /\ heard' = heard
            /\ file' = file /\ ptr' = ptr /\ RunOK(k, run[k]) /\ Settled(k)
        BY <1>1, <2>2 DEF Inv, QueueVars
      <3>2. PICK r : r = run[k]
        OBVIOUS
      <3>3. RunOK(k, r)'
        BY <3>1, <3>2, RunStands
      <3>4. Settled(k)'
        BY <3>1, SettledStands
      <3>5. QED
        BY <3>1, <3>2, <3>3, <3>4
    <2>3. QED
      BY <2>1, <2>2
  <1>4. ASSUME NEW d \in drops' PROVE Dropped(d)'
    <2>1. CASE d.job = j
      BY <2>1
    <2>2. CASE d.job # j
      <3>1. d \in drops /\ Dropped(d) /\ d.job \in Ids
        BY <1>1, <2>2 DEF Inv
      <3>2. job'[d.job] = job[d.job]
        BY <1>1, <2>2, <3>1
      <3>3. QED
        BY <3>1, <3>2 DEF Dropped
    <2>3. QED
      BY <2>1, <2>2
  <1>5. ASSUME NEW k \in Ids, run[k].at # "search", run'[k].at = "search"
        PROVE  \A end \in closed[Source(k)'] : end <= clock
    <2>1. k = j /\ run'[k] = s
      BY <1>1, <1>5
    <2>2. QED
      BY <1>5, <2>1 DEF Open, Source
  <1>6. QED
    BY <1>2, <1>3, <1>4, <1>5 DEF Inv, Goes

LEMMA EnqueueKeeps == ASSUME Inv, NEW j \in Ids, Enqueue(j) PROVE Goes
  <1>1. /\ job[j].status = "none" /\ job[j] \in Jobs /\ job[j].n = 0 /\ heard[j] <= 0
        /\ run[j] \in Runs /\ run[j].at = "off" /\ Blank(run[j])
        /\ job \in [Ids -> Jobs] /\ run \in [Ids -> Runs] /\ heard \in [Ids -> Nat]
    BY DEF Enqueue, Inv, TypeOK, Settled, RunOK
  <1>2. PICK q \in Requests[j] :
          job' = [job EXCEPT ![j] = [kind |-> q.kind, sha |-> q.sha, hash |-> file,
                                     status |-> "queued", canceled |-> FALSE,
                                     mute |-> FALSE, n |-> 1]]
    BY DEF Enqueue
  <1>3. q.kind \in Kinds /\ q.sha \in BOOLEAN /\ (q.kind = "ptr" => q.sha)
    BY LookupsAssumption
  <1>4. PICK p : p = [kind |-> q.kind, sha |-> q.sha, hash |-> file,
                      status |-> "queued", canceled |-> FALSE, mute |-> FALSE, n |-> 1]
    OBVIOUS
  <1>5. /\ p \in Jobs /\ p.kind = q.kind /\ p.sha = q.sha /\ p.status = "queued" /\ p.n = 1
        /\ ~p.canceled /\ ~p.mute
    BY <1>3, <1>4 DEF Jobs, Inv, TypeOK
  <1>6. /\ run' = run /\ drops' = drops /\ told' = told /\ heard' = heard
        /\ UNCHANGED <<QueueVars, told, heard>> /\ events' \in Nat
    BY DEF Enqueue, Inv, TypeOK
  <1>7. job' = [job EXCEPT ![j] = p] /\ job'[j] = p
    BY <1>1, <1>2, <1>4
  <1>8. PICK r : r = run[j]
    OBVIOUS
  <1>9. RunOK(j, r)'
    BY <1>1, <1>8, OffIsOK
  <1>10. Settled(j)'
    BY <1>1, <1>3, <1>5, <1>6, <1>7 DEF Settled
  <1>11. ASSUME NEW d \in drops, d.job = j PROVE Dropped(d)'
    <2>1. Dropped(d) /\ d.n \in Nat
      BY DEF Inv, TypeOK
    <2>2. QED
      BY <1>1, <1>11, <2>1 DEF Dropped
  <1>12. run' = [run EXCEPT ![j] = r] /\ drops \in SUBSET [job : Ids, n : Nat]
    BY <1>1, <1>6, <1>8 DEF Inv, TypeOK
  <1>13. QED
    BY <1>1, <1>5, <1>6, <1>7, <1>8, <1>9, <1>10, <1>11, <1>12, QueueMoves

LEMMA BeginKeeps == ASSUME Inv, NEW j \in Ids, Begin(j) PROVE Goes
  <1>1. /\ job[j].status = "queued" /\ job[j] \in Jobs /\ Settled(j)
        /\ job \in [Ids -> Jobs] /\ run \in [Ids -> Runs]
    BY DEF Begin, Inv, TypeOK
  <1>2. PICK ready \in BOOLEAN : ready = (ptr = "ready")
    OBVIOUS
  <1> DEFINE r == [NoRun EXCEPT !.ready = ready]
             lookup == Is(j, {"booru", "ptr", "all"})
  <1>3. /\ r \in Runs /\ (r.ready <=> ready) /\ r.chain = <<>> /\ r.thumb = "untried"
        /\ r.claim = NoFile /\ r.landed = {} /\ r.verdict = "none" /\ r.ptr = "no"
        /\ ~r.misfit /\ r.checked = "no" /\ ~r.lossy
    <2>1. NoRun \in Runs
      BY NoRunIsBlank
    <2>2. /\ NoRun.chain = <<>> /\ NoRun.thumb = "untried" /\ NoRun.claim = NoFile
          /\ NoRun.landed = {} /\ NoRun.verdict = "none" /\ NoRun.ptr = "no"
          /\ ~NoRun.misfit /\ NoRun.checked = "no" /\ ~NoRun.lossy
      BY DEF NoRun
    <2>3. QED
      BY <2>1, <2>2 DEF Runs
  <1>4. Carried(j, r)
    BY <1>3 DEF Carried, Claimed
  <1>5. \/ lookup /\ Becomes(j, [r EXCEPT !.at = IF job[j].sha THEN "check" ELSE "ask"])
        \/ Is(j, {"hash"}) /\ StartChain(j, r)
        \/ Is(j, {"metadata", "replace"}) /\ Becomes(j, [r EXCEPT !.at = "resolve"])
    BY <1>2 DEF Begin
  <1> HIDE DEF r
  <1>6. \E s : Onward(j, s) /\ Becomes(j, s)
    <2>1. CASE lookup /\ Becomes(j, [r EXCEPT !.at = IF job[j].sha THEN "check" ELSE "ask"])
      <3>1. PICK at : at = IF job[j].sha THEN "check" ELSE "ask"
        OBVIOUS
      <3>2. PICK s : s = [r EXCEPT !.at = at]
        OBVIOUS
      <3>3. s \in Runs /\ s.at = at /\ Kept(s, r) /\ s.verdict = r.verdict
        BY <1>3, <3>1, <3>2 DEF Runs, Stages, Kept
      <3>4. RunOK(j, s)
        BY <1>2, <1>3, <3>1, <3>3
           DEF RunOK, Walked, Claimed, Whole, Blank, Landed, Walks, Vouched, Kept
      <3>5. at \notin {"off", "end", "search"}
        BY <3>1
      <3>6. Becomes(j, s)
        BY <2>1, <3>1, <3>2
      <3>7. QED
        BY <3>3, <3>4, <3>5, <3>6 DEF Onward
    <2>2. CASE Is(j, {"hash"}) /\ StartChain(j, r)
      BY <1>3, <1>4, <2>2, StartIsOK
    <2>3. CASE Is(j, {"metadata", "replace"}) /\ Becomes(j, [r EXCEPT !.at = "resolve"])
      <3>1. PICK s : s = [r EXCEPT !.at = "resolve"]
        OBVIOUS
      <3>2. s \in Runs /\ s.at = "resolve" /\ Kept(s, r) /\ s.verdict = r.verdict
        BY <1>3, <3>1 DEF Runs, Stages, Kept
      <3>3. Onward(j, s)
        BY <1>3, <1>4, <3>2, PlainIsOK DEF Plain, Claimed, Kept
      <3>4. QED
        BY <2>3, <3>1, <3>3
    <2>4. QED
      BY <1>5, <2>1, <2>2, <2>3
  <1>7. PICK s : Onward(j, s) /\ Becomes(j, s)
    BY <1>6
  <1>8. PICK q : q = [job[j] EXCEPT !.status = "running"]
    OBVIOUS
  <1>9. /\ q \in Jobs /\ q.kind = job[j].kind /\ q.sha = job[j].sha /\ q.hash = job[j].hash
        /\ q.status = "running" /\ q.n = job[j].n /\ q.mute = job[j].mute
    BY <1>1, <1>8 DEF Jobs
  <1>10. job' = [job EXCEPT ![j] = q] /\ job'[j] = q
    BY <1>1, <1>8 DEF Begin
  <1>11. /\ drops' = drops /\ told' = told /\ heard' = heard /\ file' = file /\ ptr' = ptr
         /\ UNCHANGED <<QueueVars, told, heard>> /\ events' \in Nat
    BY DEF Begin, QueueVars, Inv, TypeOK
  <1>12. s \in Runs /\ run' = [run EXCEPT ![j] = s] /\ run'[j] = s
    BY <1>1, <1>7 DEF Onward, Becomes
  <1>13. RunOK(j, s)'
    BY <1>7, <1>9, <1>10, <1>11, RunStands DEF Onward
  <1>14. Settled(j)'
    BY <1>1, <1>7, <1>9, <1>10, <1>11, <1>12 DEF Settled, Onward, Is
  <1>15. ASSUME NEW d \in drops, d.job = j PROVE Dropped(d)'
    <2>1. Dropped(d) /\ d.n \in Nat
      BY DEF Inv, TypeOK
    <2>2. QED
      BY <1>1, <1>9, <1>10, <1>15, <2>1 DEF Dropped
  <1>16. drops \in SUBSET [job : Ids, n : Nat]
    BY DEF Inv, TypeOK
  <1>17. s.at = "search" => run[j].at = "search" \/ Open(s)
    BY <1>7 DEF Onward
  <1>18. QED
    BY <1>9, <1>10, <1>11, <1>12, <1>13, <1>14, <1>15, <1>16, <1>17, QueueMoves

LEMMA CancelQueuedKeeps == ASSUME Inv, NEW j \in Ids, CancelQueued(j) PROVE Goes
  <1>1. /\ job[j].status = "queued" /\ job[j] \in Jobs /\ Settled(j)
        /\ job \in [Ids -> Jobs] /\ run \in [Ids -> Runs] /\ drops \in SUBSET [job : Ids, n : Nat]
    BY DEF CancelQueued, Inv, TypeOK
  <1>2. PICK q : q = [job[j] EXCEPT !.status = "canceled"]
    OBVIOUS
  <1>3. /\ q \in Jobs /\ q.kind = job[j].kind /\ q.sha = job[j].sha
        /\ q.status = "canceled" /\ q.n = job[j].n /\ q.n \in Nat /\ q.mute = job[j].mute
    BY <1>1, <1>2 DEF Jobs
  <1>4. PICK s : s = NoRun
    OBVIOUS
  <1>5. s \in Runs /\ s.at = "off" /\ Blank(s)
    BY <1>4, NoRunIsBlank
  <1>6. job' = [job EXCEPT ![j] = q] /\ job'[j] = q /\ run' = [run EXCEPT ![j] = s] /\ run'[j] = s
    BY <1>1, <1>2, <1>4 DEF CancelQueued
  <1>7. /\ told' = told /\ heard' = heard
        /\ UNCHANGED <<QueueVars, told, heard>> /\ events' \in Nat
    BY DEF CancelQueued, Happens, Inv, TypeOK
  <1>8. drops' = IF Is(j, {"hash"}) THEN drops ELSE drops \cup {[job |-> j, n |-> q.n]}
    BY <1>3 DEF CancelQueued
  <1>9. drops' \in SUBSET [job : Ids, n : Nat] /\ drops \subseteq drops'
    BY <1>1, <1>3, <1>8
  <1>10. RunOK(j, s)'
    BY <1>5, OffIsOK
  <1>11. Settled(j)'
    BY <1>1, <1>3, <1>5, <1>6, <1>7, <1>8 DEF Settled, Is
  <1>12. ASSUME NEW d \in drops', d.job = j PROVE Dropped(d)'
    <2>1. d.n <= q.n
      <3>1. CASE d \in drops
        BY <1>3, <1>12, <3>1 DEF Inv, Dropped
      <3>2. CASE d \notin drops
        <4>1. d = [job |-> j, n |-> q.n]
          BY <1>8, <3>2
        <4>2. QED
          BY <1>3, <4>1
      <3>3. QED
        BY <3>1, <3>2
    <2>2. QED
      BY <1>3, <1>6, <1>12, <2>1 DEF Dropped
  <1>13. \A d \in drops' \ drops : d.job = j
    BY <1>8
  <1>14. QED
    BY <1>3, <1>5, <1>6, <1>7, <1>9, <1>10, <1>11, <1>12, <1>13, QueueMoves

LEMMA CancelRunningKeeps == ASSUME Inv, NEW j \in Ids, CancelRunning(j) PROVE Goes
  <1>1. /\ job[j].status = "running" /\ job[j] \in Jobs /\ Settled(j) /\ RunOK(j, run[j])
        /\ job \in [Ids -> Jobs] /\ run \in [Ids -> Runs] /\ drops \in SUBSET [job : Ids, n : Nat]
    BY DEF CancelRunning, Inv, TypeOK
  <1>2. PICK q : q = [job[j] EXCEPT !.canceled = TRUE]
    OBVIOUS
  <1>3. /\ q \in Jobs /\ q.kind = job[j].kind /\ q.sha = job[j].sha /\ q.hash = job[j].hash
        /\ q.status = "running" /\ q.n = job[j].n /\ q.mute = job[j].mute
    BY <1>1, <1>2 DEF Jobs
  <1>4. PICK s : s = run[j]
    OBVIOUS
  <1>5. /\ job' = [job EXCEPT ![j] = q] /\ job'[j] = q /\ run' = run
        /\ s \in Runs /\ run' = [run EXCEPT ![j] = s]
    BY <1>1, <1>2, <1>4 DEF CancelRunning
  <1>6. /\ told' = told /\ heard' = heard /\ drops' = drops /\ file' = file /\ ptr' = ptr
        /\ UNCHANGED <<QueueVars, told, heard>> /\ events' \in Nat
    BY DEF CancelRunning, QueueVars, Happens, Inv, TypeOK
  <1>7. RunOK(j, s)'
    BY <1>1, <1>3, <1>4, <1>5, <1>6, RunStands
  <1>8. Settled(j)'
    BY <1>1, <1>3, <1>5, <1>6 DEF Settled, Heard, Is
  <1>9. ASSUME NEW d \in drops', d.job = j PROVE Dropped(d)'
    <2>1. Dropped(d) /\ d.n \in Nat
      BY <1>1, <1>6, <1>9 DEF Inv
    <2>2. d.n <= job[j].n /\ d.n # job[j].n
      BY <1>1, <1>9, <2>1 DEF Dropped
    <2>3. QED
      BY <1>3, <1>5, <1>9, <2>1, <2>2 DEF Dropped
  <1>10. QED
    BY <1>1, <1>3, <1>4, <1>5, <1>6, <1>7, <1>8, <1>9, QueueMoves

\* A run that is over for the queue.
LEMMA RestsIsBlank ==
    ASSUME NEW j \in Ids, NEW r \in Runs
    PROVE  /\ Rests(r) \in Runs /\ Rests(r).at = "off" /\ Blank(Rests(r))
           /\ Rests(r).landed = r.landed /\ Rests(r).lossy = r.lossy
  <1>1. PICK o : o = Over(r)
    OBVIOUS
  <1>2. /\ o \in Runs /\ o.verdict = "none" /\ o.claim = NoFile /\ o.ptr = "no" /\ ~o.misfit
        /\ o.checked = "no" /\ o.chain = <<>> /\ o.landed = r.landed /\ o.lossy = r.lossy
    BY <1>1, OverIsOK DEF Over, NoRun
  <1>3. PICK s : s = [o EXCEPT !.at = "off", !.failed = FALSE]
    OBVIOUS
  <1>4. /\ s \in Runs /\ s.at = "off" /\ Blank(s)
        /\ s.landed = r.landed /\ s.lossy = r.lossy
    BY <1>2, <1>3 DEF Runs, Stages, Blank
  <1>5. QED
    BY <1>1, <1>3, <1>4 DEF Rests

\* A job that dies reports nothing.
LEMMA DiesGoes ==
    ASSUME Inv, NEW j \in Ids, job[j].status = "running", Dies(j),
           UNCHANGED <<QueueVars, drops, told, heard>>, events' \in Nat
    PROVE  Goes
  <1>1. /\ job[j] \in Jobs /\ Settled(j) /\ run[j] \in Runs
        /\ job \in [Ids -> Jobs] /\ run \in [Ids -> Runs] /\ drops \in SUBSET [job : Ids, n : Nat]
    BY DEF Inv, TypeOK
  <1>2. PICK q : q = [job[j] EXCEPT !.status = "failed", !.mute = TRUE]
    OBVIOUS
  <1>3. /\ q \in Jobs /\ q.kind = job[j].kind /\ q.sha = job[j].sha
        /\ q.status = "failed" /\ q.n = job[j].n /\ q.mute
    BY <1>1, <1>2 DEF Jobs
  <1>4. PICK s : s = Rests(run[j])
    OBVIOUS
  <1>5. s \in Runs /\ s.at = "off" /\ Blank(s)
    BY <1>1, <1>4, RestsIsBlank
  <1>6. job' = [job EXCEPT ![j] = q] /\ job'[j] = q /\ run' = [run EXCEPT ![j] = s] /\ run'[j] = s
    BY <1>1, <1>2, <1>4 DEF Dies, Becomes
  <1>7. RunOK(j, s)'
    BY <1>5, OffIsOK
  <1>8. Settled(j)'
    BY <1>1, <1>3, <1>5, <1>6 DEF Settled, Is
  <1>9. ASSUME NEW d \in drops', d.job = j PROVE Dropped(d)'
    BY <1>1, <1>3, <1>6, <1>9 DEF Inv, Dropped
  <1>10. QED
    BY <1>1, <1>3, <1>5, <1>6, <1>7, <1>8, <1>9, QueueMoves

LEMMA PanicKeeps == ASSUME Inv, NEW j \in Ids, Panic(j) PROVE Goes
  <1>1. job[j].status = "running" /\ events' \in Nat
    BY DEF Panic, Happens, Inv, TypeOK
  <1>2. QED
    BY <1>1, DiesGoes DEF Panic

LEMMA ResolveReplaceKeeps == ASSUME Inv, NEW j \in Ids, ResolveReplace(j) PROVE Goes
  <1>1. run[j].at = "resolve" /\ job[j].status = "running" /\ run[j] \in Runs
    BY DEF ResolveReplace, At, Inv, TypeOK
  <1>2. Carried(j, run[j])
    BY <1>1, UnderwayIsCarried
  <1>3. CASE Becomes(j, Failing(run[j], "failed")) /\ UNCHANGED <<job, events>>
    <2>1. Onward(j, Failing(run[j], "failed"))
      BY <1>2, FailingIsOK
    <2>2. UNCHANGED LocalVars
      BY <1>3 DEF ResolveReplace, LocalVars
    <2>3. QED
      BY <1>1, <1>3, <2>1, <2>2, WalkMoves
  <1>4. CASE Moves(j, "download") /\ UNCHANGED <<job, events>>
    <2> DEFINE s == [run[j] EXCEPT !.at = "download"]
    <2>1. s \in Runs /\ s.at = "download" /\ Kept(s, run[j]) /\ s.verdict = run[j].verdict
      BY <1>1 DEF Runs, Stages, Kept
    <2>2. Becomes(j, s)
      BY <1>4 DEF Moves
    <2> HIDE DEF s
    <2>3. Onward(j, s)
      BY <1>2, <2>1, PlainIsOK DEF Plain, Claimed, Kept, Carried
    <2>4. UNCHANGED LocalVars
      BY <1>4 DEF ResolveReplace, LocalVars
    <2>5. QED
      BY <1>1, <2>2, <2>3, <2>4, WalkMoves
  <1>5. CASE Happens /\ Dies(j)
    <2>1. UNCHANGED <<QueueVars, drops, told, heard>> /\ events' \in Nat
      BY <1>5 DEF ResolveReplace, QueueVars, Happens, Inv, TypeOK
    <2>2. QED
      BY <1>1, <1>5, <2>1, DiesGoes
  <1>6. QED
    BY <1>3, <1>4, <1>5 DEF ResolveReplace

LEMMA FinishKeeps == ASSUME Inv, NEW j \in Ids, Finish(j) PROVE Goes
  <1>1. /\ job[j].status = "running" /\ job[j] \in Jobs /\ Settled(j) /\ run[j] \in Runs
        /\ job \in [Ids -> Jobs] /\ run \in [Ids -> Runs] /\ drops \in SUBSET [job : Ids, n : Nat]
        /\ job[j].canceled \/ run[j].at = "end"
    BY DEF Finish, Inv, TypeOK
  <1>2. PICK status : status = IF job[j].canceled THEN "canceled"
                               ELSE IF run[j].failed THEN "failed" ELSE "succeeded"
    OBVIOUS
  <1>3. PICK q : q = [job[j] EXCEPT !.status = status]
    OBVIOUS
  <1>4. /\ q \in Jobs /\ q.kind = job[j].kind /\ q.sha = job[j].sha
        /\ q.status = status /\ q.n = job[j].n /\ q.canceled = job[j].canceled
        /\ q.mute = job[j].mute
    BY <1>1, <1>2, <1>3 DEF Jobs
  <1>5. PICK s : s = Rests(run[j])
    OBVIOUS
  <1>6. /\ s \in Runs /\ s.at = "off" /\ Blank(s)
        /\ s.landed = run[j].landed /\ s.lossy = run[j].lossy
    BY <1>1, <1>5, RestsIsBlank
  <1>7. job' = [job EXCEPT ![j] = q] /\ job'[j] = q /\ run' = [run EXCEPT ![j] = s] /\ run'[j] = s
    BY <1>1, <1>2, <1>3, <1>5 DEF Finish, Becomes
  <1>8. /\ told' = told /\ heard' = heard /\ drops' = drops
         /\ UNCHANGED <<QueueVars, told, heard>> /\ events' \in Nat
    BY DEF Finish, Inv, TypeOK
  <1>9. RunOK(j, s)'
    BY <1>6, OffIsOK
  <1>10. Settled(j)'
    <2>1. status \in {"canceled", "failed", "succeeded"} /\ (status = "canceled" <=> job[j].canceled)
      BY <1>1, <1>2 DEF Jobs
    <2>2. ~job[j].canceled /\ ~Is(j, {"hash"}) /\ ~run[j].lossy => Heard(j, run[j])
      BY <1>1 DEF Settled
    <2>3. QED
      BY <1>1, <1>4, <1>6, <1>7, <1>8, <2>1, <2>2 DEF Settled, Heard, Is
  <1>11. ASSUME NEW d \in drops', d.job = j PROVE Dropped(d)'
    BY <1>1, <1>4, <1>7, <1>8, <1>11 DEF Inv, Dropped
  <1>12. QED
    BY <1>1, <1>4, <1>6, <1>7, <1>8, <1>9, <1>10, <1>11, QueueMoves

LEMMA RetryKeeps == ASSUME Inv, NEW j \in Ids, Retry(j) PROVE Goes
  <1>1. /\ job[j].status \in {"canceled", "failed"} /\ job[j] \in Jobs /\ Settled(j)
        /\ job \in [Ids -> Jobs] /\ run \in [Ids -> Runs] /\ drops \in SUBSET [job : Ids, n : Nat]
        /\ heard[j] \in Nat
    BY DEF Retry, Inv, TypeOK
  <1>2. PICK q : q = [job[j] EXCEPT !.status = "queued", !.canceled = FALSE, !.mute = FALSE, !.n = @ + 1]
    OBVIOUS
  <1>3. /\ q \in Jobs /\ q.kind = job[j].kind /\ q.sha = job[j].sha
        /\ q.status = "queued" /\ q.n = job[j].n + 1 /\ ~q.canceled /\ ~q.mute
        /\ job[j].n \in Nat
    <2>1. job[j].n \in Nat
      BY <1>1 DEF Jobs
    <2>2. PICK m \in Nat : m = job[j].n + 1
      BY <2>1
    <2>3. q = [job[j] EXCEPT !.status = "queued", !.canceled = FALSE, !.mute = FALSE, !.n = m]
      BY <1>1, <1>2, <2>2 DEF Jobs
    <2>4. QED
      BY <1>1, <2>1, <2>2, <2>3 DEF Jobs
  <1>4. PICK s : s = NoRun
    OBVIOUS
  <1>5. s \in Runs /\ s.at = "off" /\ Blank(s)
    BY <1>4, NoRunIsBlank
  <1>6. job' = [job EXCEPT ![j] = q] /\ job'[j] = q /\ run' = [run EXCEPT ![j] = s] /\ run'[j] = s
    BY <1>1, <1>2, <1>4 DEF Retry
  <1>7. /\ told' = told /\ heard' = heard /\ drops' = drops
        /\ UNCHANGED <<QueueVars, told, heard>> /\ events' \in Nat
    BY DEF Retry, Inv, TypeOK
  <1>8. RunOK(j, s)'
    BY <1>5, OffIsOK
  <1>9. Settled(j)'
    BY <1>1, <1>3, <1>5, <1>6, <1>7 DEF Settled, Is
  <1>10. ASSUME NEW d \in drops', d.job = j PROVE Dropped(d)'
    <2>1. d.n \in Nat /\ d.n <= job[j].n
      BY <1>1, <1>7, <1>10 DEF Inv, Dropped
    <2>2. QED
      BY <1>3, <1>6, <1>10, <2>1 DEF Dropped
  <1>11. QED
    BY <1>1, <1>3, <1>5, <1>6, <1>7, <1>8, <1>9, <1>10, QueueMoves

\* The report of a dropped job comes after any number of steps of its retry.
LEMMA DropKeeps == ASSUME Inv, NEW d \in drops, Drop(d) PROVE Goes
  <1>1. /\ drops \in SUBSET [job : Ids, n : Nat] /\ run \in [Ids -> Runs]
        /\ told \in [Ids -> [n : Nat, good : BOOLEAN]] /\ heard \in [Ids -> Nat]
        /\ job \in [Ids -> Jobs]
    BY DEF Inv, TypeOK
  <1>2. PICK j \in Ids : j = d.job
    BY <1>1
  <1>3. /\ d.n \in Nat /\ job[j].n \in Nat /\ d.n <= job[j].n /\ d = [job |-> j, n |-> d.n]
        /\ d.n = job[j].n => job[j].status = "canceled"
    BY <1>1, <1>2 DEF Inv, Dropped, Jobs
  <1>4. /\ drops' = drops \ {d}
        /\ file' = file /\ ptr' = ptr /\ job' = job
        /\ UNCHANGED <<file, ptr, clock, until, closed, job>>
    BY DEF Drop
  <1>5. ASSUME NEW k \in Ids, k # j
        PROVE  [job |-> k, n |-> job[k].n] \in drops => [job |-> k, n |-> job[k].n] \in drops'
    <2>1. [job |-> k, n |-> job[k].n] # d
      BY <1>3, <1>5
    <2>2. QED
      BY <1>4, <2>1
  <1>6. CASE /\ told' = [told EXCEPT ![d.job] = [n |-> d.n, good |-> FALSE]]
             /\ heard' = [heard EXCEPT ![d.job] = IF @ < d.n THEN d.n ELSE @]
             /\ UNCHANGED <<events, run>>
    <2>1. told' \in [Ids -> [n : Nat, good : BOOLEAN]] /\ heard' \in [Ids -> Nat]
      BY <1>1, <1>2, <1>3, <1>6
    <2>2. TypeOK'
      BY <1>1, <1>4, <1>6, <2>1 DEF Inv, TypeOK
    <2>3. ASSUME NEW k \in Ids
          PROVE  RunOK(k, run[k])' /\ Settled(k)'
      <3>1. PICK r : r = run[k]
        OBVIOUS
      <3>2. RunOK(k, r) /\ Settled(k) /\ run'[k] = run[k] /\ job'[k] = job[k]
        BY <1>4, <1>6, <3>1 DEF Inv
      <3>3. RunOK(k, r)'
        BY <1>4, <3>2, RunStands
      <3>4. CASE k = j
        <4>1. /\ told'[k].n = d.n /\ heard[k] \in Nat
              /\ heard'[k] = IF heard[k] < d.n THEN d.n ELSE heard[k]
          BY <1>1, <1>2, <1>6, <3>4
        <4>2. heard[k] <= job[k].n
          BY <3>2 DEF Settled
        <4>3. /\ heard'[k] <= job[k].n
              /\ heard[k] = job[k].n => heard'[k] = job[k].n
              /\ d.n = job[k].n => heard'[k] = job[k].n
          BY <1>3, <3>4, <4>1, <4>2
        <4>4. d.n = job[k].n => job[k].status = "canceled" /\ run[k].at = "off"
          BY <1>3, <3>2, <3>4 DEF Settled
        <4>5. [job |-> k, n |-> job[k].n] \in drops /\ d.n # job[k].n => [job |-> k, n |-> job[k].n] \in drops'
          <5>1. d.n # job[k].n => [job |-> k, n |-> job[k].n] # d
            BY <1>3
          <5>2. QED
            BY <1>4, <5>1
        <4>6. QED
          BY <3>1, <3>2, <3>3, <4>1, <4>3, <4>4, <4>5 DEF Settled, Heard, Is
      <3>5. CASE k # j
        <4>1. told'[k] = told[k] /\ heard'[k] = heard[k]
          BY <1>1, <1>2, <1>6, <3>5
        <4>2. Settled(k)'
          BY <1>5, <3>2, <3>5, <4>1, SettledStands
        <4>3. QED
          BY <3>1, <3>2, <3>3, <4>2
      <3>6. QED
        BY <3>4, <3>5
    <2>4. Cooling' /\ \A e \in drops' : Dropped(e)'
      BY <1>4 DEF Inv, Dropped, Cooling
    <2>5. QED
      BY <1>6, <2>2, <2>3, <2>4 DEF Inv, Goes
  <1>7. CASE Happens /\ Unheard /\ run' = [run EXCEPT ![d.job].lossy = TRUE]
    <2>1. PICK r : r = run[j]
      OBVIOUS
    <2>2. PICK s : s = [r EXCEPT !.lossy = TRUE]
      OBVIOUS
    <2>3. r \in Runs /\ RunOK(j, r) /\ run' = [run EXCEPT ![j] = s]
      BY <1>1, <1>2, <1>7, <2>1, <2>2 DEF Inv
    <2>4. /\ s \in Runs /\ s.lossy /\ s.at = r.at /\ s.verdict = r.verdict /\ s.left = r.left
          /\ s.cands = r.cands /\ s.chain = r.chain /\ s.trail = r.trail /\ s.hit = r.hit
          /\ s.thumb = r.thumb /\ s.claim = r.claim /\ s.post = r.post /\ s.ptr = r.ptr
          /\ s.landed = r.landed /\ s.ready = r.ready /\ s.checked = r.checked /\ s.misfit = r.misfit
      BY <2>2, <2>3 DEF Runs
    <2>5. Walked(j, s)
      BY <2>3, <2>4 DEF RunOK, Walked, Covered, Explained
    <2>6. Claimed(s) /\ Whole(j, s) /\ Blank(s) /\ Landed(j, s)
      BY <2>3, <2>4 DEF RunOK, Claimed, Whole, Vouched, Blank, Landed
    <2>7. RunOK(j, s)
      BY <2>5, <2>6 DEF RunOK
    <2>8. told' = told /\ heard' = heard /\ events' \in Nat
      BY <1>7 DEF Unheard, Happens, Inv, TypeOK
    <2>9. TypeOK'
      BY <1>1, <1>4, <2>3, <2>4, <2>8 DEF Inv, TypeOK
    <2>10. ASSUME NEW k \in Ids
           PROVE  RunOK(k, run[k])' /\ Settled(k)'
      <3>1. CASE k = j
        <4>1. run'[k] = s /\ RunOK(k, s)'
          BY <1>1, <1>4, <2>3, <2>7, <3>1, RunStands
        <4>2. Settled(k) /\ job'[k] = job[k]
          BY <1>4 DEF Inv
        <4>3. Settled(k)'
          BY <2>1, <2>4, <2>8, <3>1, <4>1, <4>2 DEF Settled, Is
        <4>4. QED
          BY <4>1, <4>3
      <3>2. CASE k # j
        <4>1. PICK u : u = run[k]
          OBVIOUS
        <4>2. RunOK(k, u) /\ Settled(k) /\ run'[k] = run[k] /\ job'[k] = job[k]
          BY <1>1, <1>4, <2>3, <3>2, <4>1 DEF Inv
        <4>3. RunOK(k, u)'
          BY <1>4, <4>2, RunStands
        <4>4. Settled(k)'
          BY <1>5, <2>8, <3>2, <4>2, SettledStands
        <4>5. QED
          BY <4>1, <4>2, <4>3, <4>4
      <3>3. QED
        BY <3>1, <3>2
    <2>11. Cooling' /\ \A e \in drops' : Dropped(e)'
      BY <1>4 DEF Inv, Dropped, Cooling
    <2>12. \A k \in Ids : run'[k].at = "search" => run[k].at = "search"
      BY <1>1, <2>1, <2>3, <2>4
    <2>13. QED
      BY <2>9, <2>10, <2>11, <2>12 DEF Inv, Goes
  <1>8. QED
    BY <1>6, <1>7 DEF Drop

-----------------------------------------------------------------------------
(* The invariant holds *)

LEMMA InitHasInv == Init => Inv
  <1> SUFFICES ASSUME Init PROVE Inv
    OBVIOUS
  <1>1. NoRun \in Runs /\ NoRun.at = "off" /\ Blank(NoRun) /\ ~NoRun.lossy
    BY NoRunIsBlank DEF NoRun
  <1>2. /\ NoJob \in Jobs /\ NoJob.status = "none" /\ NoJob.n = 0 /\ ~NoJob.canceled
        /\ ~NoJob.mute /\ NoJob.kind = "booru"
    BY LookupsAssumption DEF NoJob, Jobs, Kinds
  <1>3. [n |-> 0, good |-> FALSE] \in [n : Nat, good : BOOLEAN]
    OBVIOUS
  <1>4. /\ file = 0 /\ ptr \in {"off", "syncing", "ready"} /\ clock = 0 /\ events = 0
        /\ until = [s \in Services |-> 0] /\ closed = [s \in Services |-> {}]
        /\ job = [j \in Ids |-> NoJob] /\ run = [j \in Ids |-> NoRun]
        /\ drops = {} /\ told = [j \in Ids |-> [n |-> 0, good |-> FALSE]]
        /\ heard = [j \in Ids |-> 0]
    BY DEF Init
  <1>5. TypeOK
    <2>1. job \in [Ids -> Jobs] /\ run \in [Ids -> Runs]
      BY <1>1, <1>2, <1>4
    <2>2. told \in [Ids -> [n : Nat, good : BOOLEAN]] /\ heard \in [Ids -> Nat]
      BY <1>3, <1>4
    <2>3. file \in 0 .. MaxFiles /\ clock \in Nat /\ events \in Nat
      BY <1>4, LookupsAssumption
    <2>4. until \in [Services -> Nat] /\ closed \in [Services -> SUBSET Nat] /\ drops \subseteq [job : Ids, n : Nat]
      BY <1>4
    <2>5. QED
      BY <1>4, <2>1, <2>2, <2>3, <2>4 DEF TypeOK
  <1>6. Cooling
    BY <1>4 DEF Cooling
  <1>7. ASSUME NEW j \in Ids PROVE RunOK(j, run[j]) /\ Settled(j)
    <2>1. run[j] = NoRun /\ job[j] = NoJob /\ heard[j] = 0
      BY <1>4
    <2>2. RunOK(j, NoRun)
      BY <1>1, OffIsOK
    <2>3. Settled(j)
      BY <1>1, <1>2, <2>1 DEF Settled
    <2>4. QED
      BY <2>1, <2>2, <2>3
  <1>8. QED
    BY <1>4, <1>5, <1>6, <1>7 DEF Inv

LEMMA NextGoes == Inv /\ [Next]_vars => Goes
  <1> SUFFICES ASSUME Inv, [Next]_vars PROVE Goes
    OBVIOUS
  <1>1. CASE Refile \/ Flip \/ Tick
    BY <1>1, RefileKeeps, FlipKeeps, TickKeeps
  <1>2. CASE \E d \in drops : Drop(d)
    BY <1>2, DropKeeps
  <1>3. ASSUME NEW j \in Ids, Enqueue(j) \/ Begin(j) \/ Finish(j) \/ Panic(j)
        PROVE  Goes
    BY <1>3, EnqueueKeeps, BeginKeeps, FinishKeeps, PanicKeeps
  <1>4. ASSUME NEW j \in Ids, CancelQueued(j) \/ CancelRunning(j) \/ Retry(j)
        PROVE  Goes
    BY <1>4, CancelQueuedKeeps, CancelRunningKeeps, RetryKeeps
  <1>5. ASSUME NEW j \in Ids, CheckHash(j) \/ Ask(j) \/ Read(j) \/ PushPtr(j)
        PROVE  Goes
    BY <1>5, CheckHashKeeps, AskKeeps, ReadKeeps, PushPtrKeeps
  <1>6. ASSUME NEW j \in Ids, SkipSource(j) \/ WalkSite(j) \/ FetchThumbnail(j) \/ NoThumbnail(j)
        PROVE  Goes
    BY <1>6, SkipSourceKeeps, WalkSiteKeeps, FetchThumbnailKeeps, NoThumbnailKeeps
  <1>7. ASSUME NEW j \in Ids, Search(j) \/ Answer(j) \/ Candidate(j)
        PROVE  Goes
    BY <1>7, SearchKeeps, AnswerKeeps, CandidateKeeps
  <1>8. ASSUME NEW j \in Ids, PostURL(j) \/ Online(j)
        PROVE  Goes
    BY <1>8, PostURLKeeps, OnlineKeeps
  <1>9. ASSUME NEW j \in Ids, FetchMeta(j) \/ ResolveReplace(j) \/ DownloadReplace(j)
        PROVE  Goes
    BY <1>9, FetchMetaKeeps, ResolveReplaceKeeps, DownloadReplaceKeeps
  <1>10. ASSUME NEW j \in Ids, PushFile(j) \/ Report(j)
         PROVE  Goes
    BY <1>10, PushFileKeeps, ReportKeeps
  <1>11. CASE UNCHANGED vars
    <2>1. TypeOK' /\ Cooling'
      BY <1>11 DEF vars, Inv, TypeOK, Cooling
    <2>2. ASSUME NEW j \in Ids PROVE RunOK(j, run[j])' /\ Settled(j)'
      <3>1. PICK r : r = run[j]
        OBVIOUS
      <3>2. RunOK(j, r) /\ Settled(j) /\ run'[j] = r /\ file' = file /\ ptr' = ptr /\ job' = job
        BY <1>11, <3>1 DEF vars, Inv
      <3>3. RunOK(j, r)'
        BY <3>2, RunStands
      <3>4. Settled(j)'
        BY <1>11, <3>2 DEF vars, Settled, Heard, Is
      <3>5. QED
        BY <3>2, <3>3, <3>4
    <2>3. \A d \in drops' : Dropped(d)'
      BY <1>11 DEF vars, Inv, Dropped
    <2>4. QED
      BY <1>11, <2>1, <2>2, <2>3 DEF vars, Inv, Goes
  <1>12. QED
    BY <1>1, <1>2, <1>3, <1>4, <1>5, <1>6, <1>7, <1>8, <1>9, <1>10, <1>11 DEF Next

LEMMA ToldOfRuns == Inv => EveryRunIsTold
  <1> SUFFICES ASSUME Inv, NEW j \in Ids
               PROVE  /\ Ended(j) /\ ~run[j].lossy /\ ~job[j].mute => heard[j] = job[j].n
                      /\ job[j].status = "canceled" /\ ~job[j].canceled /\ ~run[j].lossy /\ ~Is(j, {"hash"}) =>
                           heard[j] = job[j].n \/ [job |-> j, n |-> job[j].n] \in drops
    BY DEF EveryRunIsTold
  <1>1. Settled(j)
    BY DEF Inv
  <1>2. QED
    BY <1>1 DEF Settled, Heard, Ended

LEMMA ReportsAreSo == Inv => ReportsAreTrue
  <1> SUFFICES ASSUME Inv PROVE ReportsAreTrue
    OBVIOUS
  <1>1. ASSUME NEW j \in Ids PROVE Settled(j) /\ Walked(j, run[j]) /\ Claimed(run[j])
    BY DEF Inv, RunOK
  <1>2. VerdictIsTrue
    BY <1>1 DEF VerdictIsTrue, Settled, Heard, Ended
  <1>3. MissIsExplained
    BY <1>1 DEF MissIsExplained, Walked, Explained
  <1>4. ClaimsAreTrue
    BY <1>1 DEF ClaimsAreTrue, Claimed
  <1>5. QED
    BY <1>2, <1>3, <1>4 DEF ReportsAreTrue

LEMMA PtrFits == Inv => PtrIsFit
  <1> SUFFICES ASSUME Inv, NEW j \in Ids
               PROVE  /\ run[j].misfit => run[j].checked \in {"moved", "trusted"}
                      /\ run[j].ptr # "no" => run[j].ready
    BY DEF PtrIsFit, PtrTagsFit, PtrIsWhole
  <1>1. Whole(j, run[j])
    BY DEF Inv, RunOK
  <1>2. QED
    BY <1>1 DEF Whole, Vouched

LEMMA InvIsKept == Spec => []Inv
  <1>1. Inv /\ [Next]_vars => Inv'
    BY NextGoes DEF Goes
  <1>2. QED
    BY <1>1, InitHasInv, PTL DEF Spec

\* A job that ends leaves monbooru with a verdict of that very run unless a call was
\* lost, or the job died of a panic or of a directory it could not make, and a job dropped
\* before it ran is reported or about to be, however the runs, cancels and retries of the
\* jobs meet (ReportFetchOutcome and Queue.reportDropped).
THEOREM RunsAreTold == Spec => []EveryRunIsTold
  BY InvIsKept, ToldOfRuns, PTL

\* The verdict monbooru keeps says whether the run changed the image, a miss names every
\* source of the order and why it gave nothing, and a hash sent along is that of the
\* post or file it comes with (lookupAll's trail, runChain and claimedMD5).
THEOREM ReportsStayTrue == Spec => []ReportsAreTrue
  BY InvIsKept, ReportsAreSo, PTL

\* The PTR's tags land on the file looked up, unless it was replaced after the check or
\* could not be checked, and the PTR speaks only for a run that saw its index whole
\* (checkLookupHash and ptrTagsFor), whenever the engine comes and goes.
THEOREM PtrStaysFit == Spec => []PtrIsFit
  BY InvIsKept, PtrFits, PTL

\* No job asks a service before all the times it said it is closed until are over: the
\* last answer to come in never shortens what an earlier one said (Client.limit), and
\* Search looks before it sends, however many jobs share the service.
THEOREM CooldownsHold == Spec => CooldownsStand
  <1>1. Inv /\ [Next]_vars =>
          [\A j \in Ids : run[j].at # "search" /\ run'[j].at = "search" =>
               \A end \in closed[Source(j)'] : end <= clock]_vars
    BY NextGoes DEF Goes
  <1>2. QED
    BY <1>1, InvIsKept, PTL DEF Spec, CooldownsStand

=============================================================================
