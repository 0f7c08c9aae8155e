------------------------------- MODULE Lookups -------------------------------
(***************************************************************************)
(* The jobs that enrich an image monbooru already has: a lookup by hash    *)
(* (booru chain, PTR, or both), a metadata refetch and a file replace      *)
(* (src/internal/pipeline/lookup.go, replace.go and processor.go over the  *)
(* monbooru client and src/internal/similarity), and the walk of a hash    *)
(* import.                                                                  *)
(*                                                                          *)
(* monbooru shows each of them as in flight until it hears a verdict: an    *)
(* enrich or a replace it answers records one, the fetch report carries     *)
(* the others.  Its image may be replaced at any time, several jobs share   *)
(* the similarity services and their cooldowns, and the PTR index comes     *)
(* and goes.  A step is one call to a service, or what a job decides        *)
(* between two of them.                                                     *)
(***************************************************************************)
EXTENDS Integers, Sequences, FiniteSets

CONSTANTS
    Ids,         \* the jobs
    Requests,    \* what each job may ask
    Chains,      \* the lookup orders the settings may hold when each job reads them
    Services,    \* the similarity services among them
    Short, Daily,\* cooldowns: of the short window, of the daily quota
    MaxFetches,  \* candidates fetched of one answer
    MaxCands,    \* bound: candidates of one answer
    MaxFiles,    \* bound: versions of the image's file
    MaxRetried,  \* bound: jobs retried, each once
    MaxEvents    \* bound: cancels, lost calls, replaced files, changes of the PTR
                 \* engine and ticks of the clock, together

Kinds == {"booru", "ptr", "all", "metadata", "replace", "hash"}

\* sha: whether a lookup comes with the sha256 that the PTR goes by; the handler
\* refuses a PTR lookup without.
ASSUME LookupsAssumption ==
    /\ Requests \in [Ids -> SUBSET [kind : Kinds, sha : BOOLEAN]]
    /\ \A j \in Ids : \A q \in Requests[j] : q.kind = "ptr" => q.sha
    /\ Services \subseteq STRING
    /\ Chains \in [Ids -> SUBSET Seq(STRING)]
    /\ Short \in Nat /\ Daily \in Nat /\ MaxFetches \in Nat /\ MaxCands \in Nat
    /\ MaxFiles \in Nat /\ MaxRetried \in Nat /\ MaxEvents \in Nat

VARIABLES
    file,     \* the version of the image's file
    ptr,      \* the PTR engine: off, syncing or ready
    clock,
    until,    \* Client.limitedUntil
    closed,   \* history: until when each service ever said it would refuse
    job,      \* what the queue keeps of each job
    run,      \* what Process knows in the job's current run
    drops,    \* reports of dropped jobs on their way
    told,     \* monbooru: the last verdict on each job, of run n, and whether it is good
    heard,    \* history: the latest run monbooru has heard of
    events    \* how many of those there were, for the bound

vars == <<file, ptr, clock, until, closed, job, run, drops, told, heard, events>>

Good       == {"enriched", "replaced", "ptr only"}
NoFile     == -1   \* no claim
Other      == -2   \* the file of a post that is not the image's
Broken     == -3   \* a download that is not its post's file

\* mute: history, whether the job failed without a word.
NoJob == [kind |-> "booru", sha |-> FALSE, hash |-> 0, status |-> "none", canceled |-> FALSE,
          mute |-> FALSE, n |-> 0]

\* chain: the order read, and left: the places in it still to ask; trail: the sources
\* that said why they gave nothing, the wording left out; hit: a similarity link kept as a
\* fallback; post: the file of the post found, claim: the md5 sent for it; ready and
\* misfit, lossy: history.
NoRun == [at |-> "off", chain |-> <<>>, left |-> {}, thumb |-> "untried",
          trail |-> {}, cands |-> 0, tries |-> 0, hit |-> FALSE,
          found |-> "nothing", post |-> NoFile, claim |-> NoFile, ptr |-> "no",
          landed |-> {}, verdict |-> "none", failed |-> FALSE,
          checked |-> "no", misfit |-> FALSE, ready |-> FALSE, lossy |-> FALSE]

Init ==
    /\ file = 0 /\ ptr \in {"off", "syncing", "ready"} /\ clock = 0
    /\ until = [s \in Services |-> 0] /\ closed = [s \in Services |-> {}]
    /\ job = [j \in Ids |-> NoJob] /\ run = [j \in Ids |-> NoRun]
    /\ drops = {} /\ told = [j \in Ids |-> [n |-> 0, good |-> FALSE]]
    /\ heard = [j \in Ids |-> 0]
    /\ events = 0

Happens == events < MaxEvents /\ events' = events + 1

Is(j, kinds) == job[j].kind \in kinds

\* The context of a running job, in stage s, is not canceled.
At(j, s) == job[j].status = "running" /\ run[j].at = s /\ ~job[j].canceled

Becomes(j, r) == run' = [run EXCEPT ![j] = r]
Moves(j, s)   == Becomes(j, [run[j] EXCEPT !.at = s])
Notes(r, e)   == [r EXCEPT !.trail = @ \cup {e}]

LocalVars == <<file, ptr, clock, until, closed, job, drops, told, heard, events>>

-----------------------------------------------------------------------------
(* Calls to monbooru *)

Verdict(j, what) ==
    /\ told' = [told EXCEPT ![j] = [n |-> job[j].n, good |-> what \in Good]]
    /\ heard' = [heard EXCEPT ![j] = job[j].n]

Unheard == UNCHANGED <<told, heard>>
Lossy(r) == [r EXCEPT !.lossy = TRUE]

\* failEnrichFetch: the item fails, and the report is next.
Failing(r, what) == [r EXCEPT !.failed = TRUE, !.verdict = what, !.at = "report"]

\* failItem alone: monbooru has recorded the refusal it answered.
ItemFails(r) == [r EXCEPT !.failed = TRUE, !.at = "end"]

\* What matters of a run that is over.
Over(r) == [NoRun EXCEPT !.at = "end", !.failed = r.failed, !.landed = r.landed, !.lossy = r.lossy]
Rests(r) == [Over(r) EXCEPT !.at = "off", !.failed = FALSE]

\* job.Fail alone, or of a panic that runJob recovers: the job has failed, whatever its
\* context says after it, and nothing is sent.
Dies(j) ==
    /\ job' = [job EXCEPT ![j].status = "failed", ![j].mute = TRUE]
    /\ Becomes(j, Rests(run[j]))

\* ReportFetchOutcome, best-effort.
Report(j) ==
    /\ At(j, "report")
    /\ \/ Verdict(j, run[j].verdict) /\ Becomes(j, Over(run[j])) /\ UNCHANGED events
       \/ Happens /\ Unheard /\ Becomes(j, Lossy(Over(run[j])))
    /\ UNCHANGED <<file, ptr, clock, until, closed, job, drops>>

\* EnrichImage.  monbooru records the verdict itself, whether or not its answer
\* arrives; a refusal and a lost call look alike to the job but for the loss.
EnrichImage(j, takes, landing, done, undone) ==
    LET landed(r) == [r EXCEPT !.landed = @ \cup {landing},
                               !.misfit = @ \/ (landing = "ptr" /\ file # job[j].hash)]
    IN  \/ takes /\ Verdict(j, "enriched") /\ Becomes(j, landed(done)) /\ UNCHANGED events
        \/ Verdict(j, "refused") /\ Becomes(j, undone) /\ UNCHANGED events
        \/ Happens /\ Unheard /\ Becomes(j, Lossy(undone))
        \/ takes /\ Happens /\ Verdict(j, "enriched") /\ Becomes(j, Lossy(landed(undone)))

OnlyCalls == UNCHANGED <<file, ptr, clock, until, closed, job, drops>>

-----------------------------------------------------------------------------
(* The similarity services and their cooldowns *)

\* Mutant of Limited: the last answer decides.
LimitedLast(s, d) == [until EXCEPT ![s] = clock + d]

\* Client.limit: a cooldown is only ever extended.
Limited(s, d) == [until EXCEPT ![s] = IF clock + d > @ THEN clock + d ELSE @]

\* The service closes for d, as its answer says.
Closes(s, d) ==
    /\ until' = Limited(s, d)
    /\ closed' = [closed EXCEPT ![s] = @ \cup {clock + d}]

Stays == UNCHANGED <<until, closed>>

\* saucenao's answer may spend the daily quota or the short window and count all the
\* same; any service answers 429 with its short cooldown.
Spends(s) == Stays \/ (s = "saucenao" /\ (Closes(s, Daily) \/ Closes(s, Short)))
Refuses(s) == Stays \/ Closes(s, Short) \/ (s = "saucenao" /\ Closes(s, Daily))

-----------------------------------------------------------------------------
(* The walk *)

\* lookupBooru, lookupAll and processHashImport after the chain.
Matched(j, r) ==
    LET none == r.found = "nothing"
    IN  CASE Is(j, {"hash"}) /\ none -> [ItemFails(r) EXCEPT !.verdict = "missed"]
          [] Is(j, {"hash"}) /\ ~none -> [r EXCEPT !.at = "url"]
          [] r.ptr = "hit" -> [r EXCEPT !.at = "ptr push"]
          [] r.ptr # "hit" /\ ~Is(j, {"hash"}) /\ none -> Failing(r, "missed")
          [] r.ptr # "hit" /\ ~Is(j, {"hash"}) /\ ~none -> [r EXCEPT !.at = "online"]

\* Mutant of Claim: any match is taken for the file asked about.
ClaimAny(post, named, hash, similar) == IF named THEN post ELSE hash

\* claimedMD5: the post's own hash, else the one that found it.
Claim(post, named, hash, similar) ==
    IF named THEN post ELSE IF similar THEN NoFile ELSE hash

\* A match ends the walk, and what it noted is not needed.
Forgets(r) == [r EXCEPT !.chain = <<>>, !.left = {}, !.thumb = "untried", !.cands = 0, !.tries = 0,
                        !.hit = FALSE, !.trail = {}]

Finds(j, r, post, similar) ==
    \E named \in BOOLEAN :
        Becomes(j, Matched(j, [Forgets(r) EXCEPT
            !.found = IF similar THEN "similar" ELSE "exact",
            !.post = post, !.claim = Claim(post, named, job[j].hash, similar)]))

\* The place of the source that is asked.
Turn(left) == CHOOSE i \in left : \A k \in left : i <= k

\* The next source, with what this one noted, or the end of the chain.
Passes(j, r) ==
    LET rest == r.left \ {Turn(r.left)}
    IN  IF rest # {} THEN [r EXCEPT !.left = rest, !.at = "chain"]
        ELSE IF r.hit THEN Matched(j, [Forgets(r) EXCEPT !.found = "link"]) ELSE Matched(j, r)

\* LookupChain; LookupSites leaves the services out, an import has no image to show them.
Asked(j, c) == {i \in DOMAIN c : Is(j, {"hash"}) => c[i] \notin Services}

\* The order is read once.
StartChain(j, r) ==
    \E c \in Chains[j] :
        Becomes(j, IF Asked(j, c) = {} THEN Matched(j, r)
                   ELSE [r EXCEPT !.at = "chain", !.chain = c, !.left = Asked(j, c)])

Source(j) == run[j].chain[Turn(run[j].left)]
Walking(j) == At(j, "chain")

\* walkSite, and Client.Missing before a service is asked.
SkipSource(j) ==
    /\ Walking(j)
    /\ Becomes(j, Passes(j, Notes(run[j], Source(j))))
    /\ UNCHANGED LocalVars

\* walkSite: one search on a site.
WalkSite(j) ==
    /\ Walking(j) /\ Source(j) \notin Services
    /\ \/ Finds(j, run[j], job[j].hash, FALSE)
       \/ Becomes(j, Passes(j, Notes(run[j], Source(j))))
    /\ UNCHANGED LocalVars

\* Mutant of Searches: the cooldown is not looked at.
SearchesAnyway(j, r) == [r EXCEPT !.at = "search"]

\* Search sends its query, unless the service cools down.
Searches(j, r) ==
    IF clock < until[Source(j)] THEN Passes(j, Notes(r, Source(j))) ELSE [r EXCEPT !.at = "search"]

\* FetchThumbnail, tried once a chain; without it no service is asked.
FetchThumbnail(j) ==
    /\ Walking(j) /\ Source(j) \in Services
    /\ run[j].thumb = "untried"
    /\ \/ Becomes(j, Searches(j, [run[j] EXCEPT !.thumb = "have"])) /\ UNCHANGED events
       \/ Happens /\ Becomes(j, Passes(j, Notes([run[j] EXCEPT !.thumb = "none"], "similarity")))
    /\ Unheard /\ OnlyCalls

NoThumbnail(j) ==
    /\ Walking(j) /\ Source(j) \in Services
    /\ run[j].thumb = "none"
    /\ Becomes(j, Passes(j, run[j]))
    /\ UNCHANGED LocalVars

Search(j) ==
    /\ Walking(j) /\ Source(j) \in Services
    /\ run[j].thumb = "have"
    /\ Becomes(j, Searches(j, run[j]))
    /\ UNCHANGED LocalVars

\* Mutant of NoAnswer: an error leaves no trace.
NoAnswerUnsaid(j) == Passes(j, run[j])

\* similaritySource after an error of the service.
NoAnswer(j) == Passes(j, Notes(run[j], Source(j)))

\* searchIQDB, searchSauceNAO and similaritySource: the answer.  Without a candidate
\* a confident extra is kept as a link.  What a candidate itself adds to the trail is
\* left out: an answer with candidates is never a miss.
Answer(j) ==
    /\ At(j, "search")
    /\ \/ Refuses(Source(j)) /\ Becomes(j, NoAnswer(j))
       \/ /\ Spends(Source(j))
          /\ \E extra \in BOOLEAN :
                 Becomes(j, Passes(j, [Notes(run[j], Source(j)) EXCEPT !.hit = @ \/ extra]))
       \/ /\ Spends(Source(j))
          /\ \E n \in 1 .. MaxCands :
                 Becomes(j, [run[j] EXCEPT !.at = "cands", !.cands = n, !.tries = 0])
    /\ UNCHANGED <<file, ptr, clock, job, drops, told, heard, events>>

\* None came: the best one is kept as a link.
Fruitless(j, r) ==
    IF r.cands = 0 \/ r.tries = MaxFetches THEN Passes(j, [r EXCEPT !.hit = TRUE]) ELSE r

\* One candidate: fetched, not fetched for want of a credential, or not answering.
Candidate(j) ==
    /\ At(j, "cands")
    /\ LET r == [run[j] EXCEPT !.cands = @ - 1]
       IN  \/ Finds(j, r, Other, TRUE)
           \/ Becomes(j, Fruitless(j, r))
           \/ Becomes(j, Fruitless(j, [r EXCEPT !.tries = @ + 1]))
    /\ UNCHANGED LocalVars

-----------------------------------------------------------------------------
(* What a job does with it *)

\* processHashImport: the post's page is the URL of a download.
PostURL(j) ==
    /\ At(j, "url")
    /\ \/ Moves(j, "end")
       \/ Becomes(j, ItemFails(run[j]))
    /\ UNCHANGED LocalVars

\* Mutant of CheckedHash: the image is taken to be the one asked about.
CheckedHashNever(j) == [run[j] EXCEPT !.checked = "yes", !.at = "ask"]

\* checkLookupHash: an image that has another file stops the lookup.
CheckedHash(j) ==
    IF file = job[j].hash THEN [run[j] EXCEPT !.checked = "yes", !.at = "ask"]
    ELSE Failing(run[j], "failed")

\* An error of monbooru's trusts the caller.
CheckHash(j) ==
    /\ At(j, "check")
    /\ \/ Becomes(j, CheckedHash(j)) /\ UNCHANGED events
       \/ Happens /\ Becomes(j, Lossy([run[j] EXCEPT !.checked = "trusted", !.at = "ask"]))
    /\ Unheard /\ OnlyCalls

\* Mutant of AsksPtr: a sync on the way is no obstacle.
AsksPtrSyncing == ptr # "off"

\* Enabled and CaughtUp, in ptrTagsFor and lookupPTR.
AsksPtr == ptr = "ready"

Ask(j) ==
    /\ At(j, "ask")
    /\ LET r == run[j]
           both == Is(j, {"all"}) /\ job[j].sha
       IN  \/ ~both /\ Is(j, {"booru", "all"}) /\ StartChain(j, r)
           \/ (both \/ Is(j, {"ptr"})) /\ AsksPtr /\ Moves(j, "read")
           \/ Is(j, {"ptr"}) /\ ~AsksPtr /\ Becomes(j, Failing(r, "failed"))
           \/ both /\ ~AsksPtr
              /\ StartChain(j, IF ptr = "off" THEN r ELSE Notes(r, "ptr"))
    /\ UNCHANGED LocalVars

\* TagsForHash: an index closed meanwhile has no match.
Read(j) ==
    /\ At(j, "read")
    /\ \E why \in IF ptr = "off" THEN {"empty"} ELSE {"hit", "empty", "failed"} :
           LET r == [IF why = "hit" THEN run[j] ELSE Notes(run[j], "ptr")
                        EXCEPT !.ptr = IF why = "failed" THEN @ ELSE why]
           IN  IF Is(j, {"all"}) THEN StartChain(j, r)
               ELSE Becomes(j, CASE why = "hit" -> [r EXCEPT !.at = "ptr push"]
                                 [] why = "empty" -> Failing(r, "missed")
                                 [] why = "failed" -> Failing(r, "failed"))
    /\ UNCHANGED LocalVars

\* lookupPTR and lookupAll push the PTR's tags, unverified.  A lookup of both goes on
\* to its online match; without one, the trail reports the misses and the tags.
PushPtr(j) ==
    /\ At(j, "ptr push")
    /\ LET r == run[j]
           online == Is(j, {"all"}) /\ r.found # "nothing"
           done == [r EXCEPT !.ptr = "applied",
                             !.verdict = IF Is(j, {"all"}) THEN "ptr only" ELSE @,
                             !.at = IF online THEN "online" ELSE IF Is(j, {"all"}) THEN "report" ELSE "end"]
       IN  EnrichImage(j, TRUE, "ptr", done,
                       IF online THEN [r EXCEPT !.at = "online"] ELSE Failing(r, "failed"))
    /\ OnlyCalls

\* Mutant of OnlineFailed: the tags that did land are not told of.
OnlineFailedUntold(r) == ItemFails(r)

\* The online enrich failed: the PTR's tags that landed are reported over it.
OnlineFailed(r) ==
    IF r.ptr = "applied" THEN [r EXCEPT !.verdict = "ptr only", !.at = "report"] ELSE ItemFails(r)

\* enrichAllOnline, enrichFromMeta: a match is verified against the image's file, a
\* link is not.
Online(j) ==
    /\ At(j, "online")
    /\ LET r == run[j]
       IN  EnrichImage(j, r.found # "exact" \/ r.claim \in {NoFile, file}, "post",
                       [r EXCEPT !.at = "end"], OnlineFailed(r))
    /\ OnlyCalls

\* processMetadata: the post may have another file by now, and may not name it.
FetchMeta(j) ==
    /\ At(j, "resolve") /\ Is(j, {"metadata"})
    /\ \/ Becomes(j, Failing(run[j], "failed"))
       \/ \E post \in {job[j].hash, Other}, named \in BOOLEAN :
              Becomes(j, [run[j] EXCEPT !.found = "exact", !.post = post, !.at = "online",
                                        !.claim = IF named THEN post ELSE NoFile])
    /\ UNCHANGED LocalVars

\* processReplace: Resolve finds one post, or the replace fails; a directory that
\* cannot be made fails it without a report.
ResolveReplace(j) ==
    /\ At(j, "resolve") /\ Is(j, {"replace"})
    /\ \/ Becomes(j, Failing(run[j], "failed")) /\ UNCHANGED <<job, events>>
       \/ Moves(j, "download") /\ UNCHANGED <<job, events>>
       \/ Happens /\ Dies(j)
    /\ UNCHANGED <<file, ptr, clock, until, closed, drops, told, heard>>

\* The download: the site may claim a hash, and the bytes may not have it.
DownloadReplace(j) ==
    /\ At(j, "download")
    /\ \/ Becomes(j, Failing(run[j], "failed"))
       \/ \E got \in {Other, Broken}, claim \in {Other, NoFile} :
              Becomes(j, IF claim \notin {NoFile, got} THEN Failing(run[j], "failed")
                         ELSE [run[j] EXCEPT !.post = got, !.claim = claim, !.at = "file push"])
    /\ UNCHANGED LocalVars

\* The image gets another file, by a job or in monbooru itself.
Refiled(r) == [k \in Ids |-> IF r[k].checked = "yes" THEN [r[k] EXCEPT !.checked = "moved"] ELSE r[k]]

\* Mutant of RefusedPush: every refusal is taken to be on monbooru's record.
RefusedPushSilent(r, recorded) == ItemFails(r)

\* sendReplace: 409, 413 and 415 are on monbooru's record, the other errors are not.
RefusedPush(r, recorded) == IF recorded THEN ItemFails(r) ELSE Failing(r, "failed")

\* ReplaceImageFile.
PushFile(j) ==
    LET r == run[j]
        landed == [r EXCEPT !.landed = {"file"}, !.at = "end"]
    IN  /\ At(j, "file push")
        /\ \/ /\ file < MaxFiles /\ file' = file + 1
              /\ Verdict(j, "replaced")
              /\ \/ run' = Refiled([run EXCEPT ![j] = landed]) /\ UNCHANGED events
                 \/ Happens /\ run' = Refiled([run EXCEPT ![j] = Lossy(Failing([r EXCEPT !.landed = {"file"}], "failed"))])
           \/ Verdict(j, "refused") /\ Becomes(j, RefusedPush(r, TRUE)) /\ UNCHANGED <<file, events>>
           \/ Unheard /\ Becomes(j, RefusedPush(r, FALSE)) /\ UNCHANGED <<file, events>>
           \/ Unheard /\ Happens /\ Becomes(j, Lossy(Failing(r, "failed"))) /\ UNCHANGED file
        /\ UNCHANGED <<ptr, clock, until, closed, job, drops>>

-----------------------------------------------------------------------------
(* The queue *)

QueueVars == <<file, ptr, clock, until, closed>>

\* The lookup, metadata, replace and enqueue handlers.  A PTR lookup is only taken while
\* the index is whole.
Enqueue(j) ==
    /\ job[j].status = "none"
    /\ \E q \in Requests[j] :
           /\ q.kind = "ptr" => ptr = "ready"
           /\ job' = [job EXCEPT ![j] = [kind |-> q.kind, sha |-> q.sha, hash |-> file,
                                         status |-> "queued", canceled |-> FALSE,
                                         mute |-> FALSE, n |-> 1]]
    /\ UNCHANGED <<QueueVars, run, drops, told, heard, events>>

\* The start of a run, to its first call.
Begin(j) ==
    LET r == [NoRun EXCEPT !.ready = (ptr = "ready")]
        lookup == Is(j, {"booru", "ptr", "all"})
    IN  /\ job[j].status = "queued"
        /\ job' = [job EXCEPT ![j].status = "running"]
        /\ \/ lookup /\ Becomes(j, [r EXCEPT !.at = IF job[j].sha THEN "check" ELSE "ask"])
           \/ Is(j, {"hash"}) /\ StartChain(j, r)
           \/ Is(j, {"metadata", "replace"}) /\ Becomes(j, [r EXCEPT !.at = "resolve"])
        /\ UNCHANGED <<QueueVars, drops, told, heard, events>>

\* A cancel of a waiting job settles it; monbooru is told of it after that.
CancelQueued(j) ==
    /\ job[j].status = "queued" /\ Happens
    /\ job' = [job EXCEPT ![j].status = "canceled"]
    /\ run' = [run EXCEPT ![j] = NoRun]
    /\ drops' = IF Is(j, {"hash"}) THEN drops ELSE drops \cup {[job |-> j, n |-> job[j].n]}
    /\ UNCHANGED <<QueueVars, told, heard>>

\* ReportDropped arrives, or is lost.
Drop(d) ==
    /\ d \in drops /\ drops' = drops \ {d}
    /\ \/ /\ told' = [told EXCEPT ![d.job] = [n |-> d.n, good |-> FALSE]]
          /\ heard' = [heard EXCEPT ![d.job] = IF @ < d.n THEN d.n ELSE @]
          /\ UNCHANGED <<events, run>>
       \/ Happens /\ Unheard /\ run' = [run EXCEPT ![d.job].lossy = TRUE]
    /\ UNCHANGED <<file, ptr, clock, until, closed, job>>

\* A cancel of a running job cuts its calls short and reports nothing.
CancelRunning(j) ==
    /\ job[j].status = "running" /\ ~job[j].canceled /\ Happens
    /\ job' = [job EXCEPT ![j].canceled = TRUE]
    /\ UNCHANGED <<QueueVars, run, drops, told, heard>>

\* runJob after Process.
Finish(j) ==
    /\ job[j].status = "running" /\ (job[j].canceled \/ run[j].at = "end")
    /\ job' = [job EXCEPT ![j].status = IF job[j].canceled THEN "canceled"
                                        ELSE IF run[j].failed THEN "failed" ELSE "succeeded"]
    /\ Becomes(j, Rests(run[j]))
    /\ UNCHANGED <<QueueVars, drops, told, heard, events>>

\* runJob recovers a panic of Process.
Panic(j) ==
    /\ job[j].status = "running" /\ run[j].at \notin {"off", "end"}
    /\ Happens /\ Dies(j)
    /\ UNCHANGED <<QueueVars, drops, told, heard>>

\* Retry of a settled job: the hash stays the one it was queued with.
Retry(j) ==
    /\ job[j].status \in {"canceled", "failed"} /\ job[j].n = 1
    /\ Cardinality({k \in Ids : job[k].n > 1}) < MaxRetried
    /\ job' = [job EXCEPT ![j].status = "queued", ![j].canceled = FALSE,
                              ![j].mute = FALSE, ![j].n = @ + 1]
    /\ run' = [run EXCEPT ![j] = NoRun]
    /\ UNCHANGED <<QueueVars, drops, told, heard, events>>

-----------------------------------------------------------------------------
(* The surroundings *)

\* Only what happens while a job is live can make a difference to it.
Live == \E j \in Ids : job[j].status \in {"queued", "running"}

Refile ==
    /\ Happens /\ Live /\ file < MaxFiles /\ file' = file + 1
    /\ run' = Refiled(run)
    /\ UNCHANGED <<ptr, clock, until, closed, job, drops, told, heard>>

\* The PTR engine is enabled, catches up, is disabled.
Flip ==
    /\ Happens /\ Live
    /\ \E p \in CASE ptr = "off" -> {"syncing"} [] ptr = "syncing" -> {"ready", "off"} [] ptr = "ready" -> {"off"} :
           /\ ptr' = p
           /\ run' = [k \in Ids |-> IF p = "ready" THEN [run[k] EXCEPT !.ready = TRUE] ELSE run[k]]
    /\ UNCHANGED <<file, clock, until, closed, job, drops, told, heard>>

Tick ==
    /\ Happens /\ \E s \in Services : clock < until[s]
    /\ clock' = clock + 1
    /\ UNCHANGED <<file, ptr, until, closed, job, run, drops, told, heard>>

Next ==
    \/ Refile \/ Flip \/ Tick
    \/ \E d \in drops : Drop(d)
    \/ \E j \in Ids :
          \/ Enqueue(j) \/ Begin(j) \/ Finish(j) \/ Panic(j)
          \/ CancelQueued(j) \/ CancelRunning(j) \/ Retry(j)
          \/ CheckHash(j) \/ Ask(j) \/ Read(j) \/ PushPtr(j)
          \/ SkipSource(j) \/ WalkSite(j) \/ FetchThumbnail(j) \/ NoThumbnail(j)
          \/ Search(j) \/ Answer(j) \/ Candidate(j)
          \/ PostURL(j) \/ Online(j)
          \/ FetchMeta(j) \/ ResolveReplace(j) \/ DownloadReplace(j) \/ PushFile(j)
          \/ Report(j)

Spec == Init /\ [][Next]_vars

-----------------------------------------------------------------------------
(* Properties *)

Ended(j) == job[j].status \in {"succeeded", "failed"} /\ ~Is(j, {"hash"})

\* A job that ends leaves monbooru with a verdict of that very run: its page polls for
\* one (ReportFetchOutcome).  Not so if a call was lost, and not if the run died on a
\* panic or for want of a directory, which the code does not report.  A job dropped
\* before it ran is reported, or about to be (Queue.reportDropped).
EveryRunIsTold ==
    \A j \in Ids :
        /\ Ended(j) /\ ~run[j].lossy /\ ~job[j].mute => heard[j] = job[j].n
        /\ job[j].status = "canceled" /\ ~job[j].canceled /\ ~run[j].lossy /\ ~Is(j, {"hash"}) =>
               heard[j] = job[j].n \/ [job |-> j, n |-> job[j].n] \in drops

\* The verdict monbooru keeps of a run says whether the run changed the image: tags that
\* landed are not told as a failure, nor a failure as tags (lookupAll's trail), unless a
\* panic kept the last word from it.
VerdictIsTrue ==
    \A j \in Ids :
        Ended(j) /\ ~run[j].lossy /\ ~job[j].mute /\ told[j].n = job[j].n =>
            (told[j].good <=> run[j].landed # {})

\* PTR tags, which monbooru does not verify, land on the file that was looked up, unless
\* monbooru could not be asked or the file was replaced after it was (checkLookupHash).
PtrTagsFit ==
    \A j \in Ids : run[j].misfit => run[j].checked \in {"moved", "trusted"}

\* A hash sent with a post or a file is that post's or file's (claimedMD5, and the check
\* of a replace's download).
ClaimsAreTrue ==
    \A j \in Ids : run[j].claim # NoFile => run[j].claim = run[j].post

\* A lookup reported as missed says of every source in its chain why it gave nothing:
\* monbooru's retry ladder reads it.
MissIsExplained ==
    \A j \in Ids : run[j].verdict = "missed" =>
        \A i \in Asked(j, run[j].chain) :
            LET s == run[j].chain[i]
            IN  s \in run[j].trail \/ (s \in Services /\ "similarity" \in run[j].trail)

\* The PTR speaks, to say what it has or that it has nothing, only if its index was whole
\* at some time of the run (ptrTagsFor: a partial tag set reads like the whole truth).
PtrIsWhole ==
    \A j \in Ids : run[j].ptr # "no" => run[j].ready

\* A service that said it is closed is not asked before all it said is over, whichever
\* jobs its answers came to, and in whatever order (Client.limit, and Search before it
\* sends).  A query that was under way when it said so is no breach of it.
CooldownsStand ==
    [][\A j \in Ids : run[j].at # "search" /\ run'[j].at = "search" =>
           \A end \in closed[Source(j)'] : end <= clock]_vars

\* What monbooru is told of a lookup is true: the verdict, its reasons, and the
\* hash sent along.
ReportsAreTrue == VerdictIsTrue /\ MissIsExplained /\ ClaimsAreTrue

\* What the PTR adds fits the file, and its silence is never half an index's.
PtrIsFit == PtrTagsFit /\ PtrIsWhole

\* A verdict of a run that happened is not overwritten by the report that an earlier
\* attempt was dropped (Queue.cancel: "a report could overwrite monbooru's record of a
\* fetch that happened").  The code reports after the job may be retried.
RecordStands ==
    [][\A j \in Ids : told'[j] # told[j] => told'[j].n >= told[j].n]_vars

=============================================================================
