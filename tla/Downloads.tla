------------------------------- MODULE Downloads -------------------------------
(***************************************************************************)
(* A download job (src/internal/pipeline/processor.go over src/internal/gdl *)
(* and src/internal/monbooru): gallery-dl lists a window of a source, then  *)
(* lists it again while it downloads, keeps an archive of what it has       *)
(* downloaded, and each file is paired with its row and pushed to monbooru. *)
(*                                                                          *)
(* Several jobs run at once on one archive and one library; the source      *)
(* grows under them.  A step is one run of gallery-dl, one file of its      *)
(* download, or one push.  Queue places, rows on disk and windows of a      *)
(* series are the subject of JobQueue and Series.                           *)
(***************************************************************************)
EXTENDS Integers, Sequences, FiniteSets

CONSTANTS
    Ids,           \* the jobs
    Requests,      \* what each job may ask: a kind of source, an offset, a watch
    Odd,           \* posts whose file monbooru does not take
    Cap,           \* max_items_per_job
    CatchUpSkips,  \* recorded posts in a row that stop a catch-up
    Pages,         \* how many pages a chapter of a title has
    Calls,         \* what befalls the jobs in this instance
    MaxPosts,      \* bound: posts the source ever has, numbered by age
    MaxRetries,    \* bound: retries of all jobs
    MaxCuts,       \* bound: cancels and restarts
    MaxFaults      \* bound: faults of gallery-dl and of monbooru

Posts == 1 .. MaxPosts
Kinds == {"search", "pool", "thread", "book", "title", "direct"}

ASSUME DownloadsAssumption ==
    /\ Requests \in [Ids -> SUBSET [kind : Kinds, offset : Nat, watch : BOOLEAN]]
    /\ Odd \subseteq Posts
    /\ Cap \in Nat \ {0} /\ CatchUpSkips \in Nat \ {0} /\ Pages \in Nat \ {0}
    /\ MaxPosts \in Nat \ {0} /\ MaxRetries \in Nat /\ MaxCuts \in Nat /\ MaxFaults \in Nat

VARIABLES
    online,   \* how many posts the source has
    archive,  \* the posts gallery-dl has recorded
    library,  \* the posts monbooru holds
    job,      \* what the queue keeps of each job
    run,      \* what Process knows in the job's current run
    took,     \* history: posts each job's runs put in the archive
    missed,   \* history: posts a job took and a later run of it, though it succeeded,
              \* did not list or has no row of
    books,    \* history: the books pushed
    faults,   \* faults so far, for the bound
    retries,  \* retries so far, for the bound
    cuts      \* cancels and restarts so far, for the bound

vars == <<online, archive, library, job, run, took, missed, books, faults, retries, cuts>>

Settled  == {"succeeded", "partial", "failed", "canceled", "interrupted"}
Outcomes == {"pending", "created", "duplicate", "archived", "unsupported", "failed"}
Stages   == {"off", "resolve", "whole", "deep", "launch", "download", "push",
             "chapter", "pages", "bundle", "end"}

NoJob == [kind |-> "search", offset |-> 0, watch |-> FALSE, status |-> "none",
          force |-> FALSE, capped |-> FALSE]

\* named: what the resolve listed, in order; there: what the source had from the
\* offset on when it did; short, gap: its first or its second pass broke off;
\* listed: what the download's own listing had; entries: the line of each row, then
\* of no row; paired: the rows that lines may no longer be about.  Lines are about
\* a row of no post, "none"; a post the archive had, "skip"; a file, "file"; or,
\* with a sidecar that cannot be read, a skip, "nameless", or a file, "unreadable".
NoRun == [at |-> "off", rows |-> <<>>, named |-> <<>>, there |-> {}, short |-> FALSE, gap |-> FALSE,
          windowed |-> TRUE, children |-> 0, todo |-> <<>>, listed |-> {}, paired |-> 0,
          skips |-> 0, stopped |-> FALSE, exit |-> FALSE, entries |-> <<>>, next |-> 1, got |-> 0]

Row(p)   == [post |-> p, outcome |-> "pending"]
Is(j, k) == job[j].kind \in k
At(j, s) == job[j].status = "running" /\ run[j].at = s
PostsOf(s) == {s[i] : i \in DOMAIN s}
RowPosts(j) == {run[j].rows[i].post : i \in DOMAIN run[j].rows}

-----------------------------------------------------------------------------
(* gallery-dl's listings *)

\* A search lists the newest first, the other sources in order.
Listing(kind) ==
    IF kind = "direct" THEN <<1>>
    ELSE [i \in 1 .. online |-> IF kind = "search" THEN online + 1 - i ELSE i]

\* n of a listing after the first from, or as many as it has.
Slice(s, from, n) == SubSeq(s, from + 1, IF from + n < Len(s) THEN from + n ELSE Len(s))

\* rangeFor, rangeArgs: the window of the job, or all of the source.
Windowed(listing, j, windowed) ==
    IF windowed THEN Slice(listing, job[j].offset, Cap) ELSE listing

\* parseResolve: an error after the first post leaves what was listed before it,
\* as a success; before it, the resolve fails.
CutShort(listing) == {SubSeq(listing, 1, n) : n \in 1 .. Len(listing) - 1}
Lists(listing, got) ==
    \/ got = listing /\ UNCHANGED faults
    \/ got \in CutShort(listing) /\ faults < MaxFaults /\ faults' = faults + 1
Listings(listing) == {listing} \cup CutShort(listing)

-----------------------------------------------------------------------------
(* Ends of a run *)

Becomes(j, r)      == run' = [run EXCEPT ![j] = r]
HasStatus(j, s)    == job' = [job EXCEPT ![j].status = s]
FailPending(rows)  == [i \in DOMAIN rows |->
                         IF rows[i].outcome = "pending" THEN [rows[i] EXCEPT !.outcome = "failed"]
                         ELSE rows[i]]

\* deriveStatus.
Derived(rows) ==
    LET failed == {i \in DOMAIN rows : rows[i].outcome = "failed"}
    IN  IF failed = {} THEN "succeeded"
        ELSE IF failed = DOMAIN rows THEN "failed" ELSE "partial"

\* What is left of a run: its rows, and the history.
Ended(r, rows) ==
    [NoRun EXCEPT !.rows = rows, !.there = r.there, !.short = r.short, !.gap = r.gap,
                  !.listed = r.listed, !.stopped = r.stopped, !.exit = r.exit,
                  !.entries = r.entries]

\* abortJob, Fail.
Abort(j) ==
    /\ HasStatus(j, "failed")
    /\ Becomes(j, Ended(run[j], FailPending(run[j].rows)))

\* Finalize.
End(j) ==
    /\ At(j, "end")
    /\ HasStatus(j, Derived(run[j].rows))
    /\ Becomes(j, Ended(run[j], run[j].rows))
    /\ missed' = IF Derived(run[j].rows) = "succeeded"
                 THEN missed \cup (took[j] \ (run[j].listed \cap RowPosts(j))) ELSE missed
    /\ UNCHANGED <<online, archive, library, took, books, faults, retries, cuts>>

-----------------------------------------------------------------------------
(* The resolve pass *)

\* archiveMode.
ArchiveMode(j) ==
    IF job[j].force \/ Is(j, {"book", "title"}) THEN "bypass"
    ELSE IF ~job[j].watch /\ Len(run[j].named) = 1 THEN "bypass"
    ELSE IF job[j].watch /\ Is(j, {"search"}) THEN "catchUp"
    ELSE "read"

\* fetch: the rows are shown before the download starts.
Fetch(r, kind, named, windowed) ==
    [r EXCEPT !.named = named, !.windowed = windowed,
              !.at = IF kind = "book" THEN "pages" ELSE "launch",
              !.rows = IF kind = "book" THEN <<Row(0)>>
                       ELSE [i \in DOMAIN named |-> Row(named[i])]]

Capped(j, capped) == job' = [job EXCEPT ![j].capped = @ \/ capped]

\* processDownload: a pool or a book that fills the cap is resolved whole.
Decide(j, r, named) ==
    LET kind  == job[j].kind
        full  == Len(named) >= Cap
        whole == full /\ kind \in {"pool", "book"}
    IN  \/ named = <<>> /\ Becomes(j, [r EXCEPT !.at = "end"]) /\ UNCHANGED job
        \/ named # <<>> /\ kind = "book" /\ job[j].watch /\ Abort(j)
        \/ /\ named # <<>> /\ ~(kind = "book" /\ job[j].watch)
           /\ Becomes(j, IF whole THEN [r EXCEPT !.at = "whole"] ELSE Fetch(r, kind, named, TRUE))
           /\ Capped(j, full /\ ~whole)

Resolve(j) ==
    /\ At(j, "resolve") /\ Is(j, {"search", "pool", "book"})
    /\ LET all    == Listing(job[j].kind)
           window == Windowed(all, j, TRUE)
       IN  \E named \in Listings(window) :
             /\ Lists(window, named)
             /\ Decide(j, [run[j] EXCEPT !.named = named, !.short = named # window,
                                         !.there = PostsOf(Slice(all, job[j].offset, online))],
                       named)
    /\ UNCHANGED <<online, archive, library, took, missed, books, retries, cuts>>

\* Mutant of KeepsWindow: a pool left at its window does not say so.
KeepsWindowUnsaid(j) == Capped(j, FALSE)
KeepsWindow(j)       == Capped(j, TRUE)

\* A shorter second pass must not empty what the first one found.
ResolveWhole(j) ==
    /\ At(j, "whole")
    /\ \E whole \in Listings(Listing(job[j].kind)) :
         /\ Lists(Listing(job[j].kind), whole)
         /\ \/ /\ Len(whole) >= Len(run[j].named)
               /\ Becomes(j, Fetch([run[j] EXCEPT !.gap = whole # Listing(job[j].kind)],
                                   job[j].kind, whole, FALSE))
               /\ UNCHANGED job
            \/ /\ Len(whole) < Len(run[j].named) /\ Is(j, {"book"})
               /\ Abort(j)
            \/ /\ Len(whole) < Len(run[j].named) /\ Is(j, {"pool"})
               /\ Becomes(j, Fetch(run[j], "pool", run[j].named, TRUE)) /\ KeepsWindow(j)
    /\ UNCHANGED <<online, archive, library, took, missed, books, retries, cuts>>

\* processChapters: the window is cut from the whole list of chapters.
Chapters(j, r, queue) ==
    LET named == Slice(queue, job[j].offset, Cap)
    IN  /\ Becomes(j, [r EXCEPT !.at = "chapter", !.rows = [i \in DOMAIN named |-> Row(named[i])]])
        /\ Capped(j, Len(queue) > job[j].offset + Cap)

\* processDispatch: a dispatcher lists its children, whatever the window.
ResolveChildren(j) ==
    /\ At(j, "resolve") /\ Is(j, {"thread", "title"})
    /\ LET children == Listing(job[j].kind)
       IN  \E queue \in Listings(children) :
             LET r     == [run[j] EXCEPT !.there = PostsOf(Slice(children, job[j].offset, online)),
                                         !.short = queue # children, !.children = Len(queue)]
             IN  /\ Lists(children, queue)
                 /\ \/ Is(j, {"thread"}) /\ Becomes(j, [r EXCEPT !.at = "deep"]) /\ UNCHANGED job
                    \/ Is(j, {"title"}) /\ job[j].watch /\ Abort(j)
                    \/ Is(j, {"title"}) /\ ~job[j].watch /\ Chapters(j, r, queue)
    /\ UNCHANGED <<online, archive, library, took, missed, books, retries, cuts>>

\* The second pass of a thread follows the children of the window.
ResolveDeep(j) ==
    /\ At(j, "deep")
    /\ LET window == Windowed(Listing("thread"), j, TRUE)
       IN  \E named \in Listings(window) :
             /\ Lists(window, named)
             /\ \/ named = <<>> /\ Becomes(j, [run[j] EXCEPT !.at = "end"]) /\ UNCHANGED job
                \/ /\ named # <<>>
                   /\ Becomes(j, Fetch([run[j] EXCEPT !.gap = named # window], "thread", named, TRUE))
                   /\ Capped(j, run[j].children > job[j].offset + Cap)
    /\ UNCHANGED <<online, archive, library, took, missed, books, retries, cuts>>

\* probeContentType: a HEAD, then a GET of one byte, name a type monbooru takes.
Probes == IF faults < MaxFaults THEN {"media", "none"} ELSE {"media"}

\* directlinkResolve: what gallery-dl does not know is taken for a file.
ResolveDirect(j) ==
    /\ At(j, "resolve") /\ Is(j, {"direct"})
    /\ \E probe \in Probes :
         \/ /\ probe = "media" /\ UNCHANGED <<job, faults>>
            /\ Becomes(j, Fetch([run[j] EXCEPT !.there = {1}], "direct", <<1>>, TRUE))
         \/ probe = "none" /\ Abort(j) /\ faults' = faults + 1
    /\ UNCHANGED <<online, archive, library, took, missed, books, retries, cuts>>

Breaks(j) ==
    /\ faults < MaxFaults /\ faults' = faults + 1
    /\ Abort(j)
    /\ UNCHANGED <<online, archive, library, took, missed, books, retries, cuts>>

ResolveFails(j) == (\E s \in {"resolve", "whole", "deep"} : At(j, s)) /\ Breaks(j)

\* fetch: the rows are there when the job's directory cannot be made.
WorkDirFails(j) == (At(j, "launch") \/ (At(j, "pages") /\ Is(j, {"book"}))) /\ Breaks(j)

\* runJob recovers a panic of Process.
Panic(j) == job[j].status = "running" /\ Breaks(j)

-----------------------------------------------------------------------------
(* gallery-dl's download *)

\* An empty archive option: nothing is skipped and nothing recorded.
Recorded(j, p) ==
    IF ArchiveMode(j) = "bypass" THEN UNCHANGED <<archive, took>>
    ELSE archive' = archive \cup {p} /\ took' = [took EXCEPT ![j] = @ \cup {p}]

Line(p, what) == [post |-> p, what |-> what]

\* Mutant of RowOf: lines are taken to come in the order of the rows.
RowOfPosition(r, line) == IF r.paired < Len(r.named) THEN r.paired + 1 ELSE 0

\* The first row a line may still be about that is of its post; a line that names
\* none takes the next row.
RowOf(r, line) ==
    IF line.post = 0 THEN IF r.paired < Len(r.named) THEN r.paired + 1 ELSE 0
    ELSE LET rows == {i \in r.paired + 1 .. Len(r.named) : r.named[i] = line.post}
         IN  IF rows = {} THEN 0 ELSE CHOOSE i \in rows : \A k \in rows : i <= k

\* pairDownloads goes through the lines when the download is over; here a line is
\* paired when it is printed, in the same order.
PairLine(r, line) ==
    IF RowOf(r, line) = 0 THEN [r EXCEPT !.entries = Append(@, line)]
    ELSE [r EXCEPT !.entries[RowOf(r, line)] = line, !.paired = RowOf(r, line)]

\* No line of any row.
Unprinted(r) == [r EXCEPT !.at = "download", !.entries = [i \in DOMAIN r.named |-> Line(0, "none")]]

\* The download lists the window again, as it is by now; a listing cut short is
\* an exit code here.
Launch(j) ==
    /\ At(j, "launch") /\ ~Is(j, {"direct"})
    /\ LET window == Windowed(Listing(job[j].kind), j, run[j].windowed)
       IN  \E listed \in Listings(window) \cup {<<>>} :
             /\ \/ listed = window /\ UNCHANGED faults
                \/ listed # window /\ faults < MaxFaults /\ faults' = faults + 1
             /\ Becomes(j, [Unprinted(run[j]) EXCEPT !.todo = listed, !.listed = PostsOf(listed),
                                                     !.exit = listed # window])
    /\ UNCHANGED <<online, archive, library, job, took, missed, books, retries, cuts>>

\* A recorded post is skipped; enough of them in a row end a catch-up, with a
\* clean exit.  A skip whose sidecar cannot be read, or whose path is not the
\* job's, is still a skip, of a post its line does not name.
SkipRecorded(j) ==
    /\ At(j, "download") /\ run[j].todo # <<>>
    /\ LET p     == Head(run[j].todo)
           skips == run[j].skips + 1
           stop  == ArchiveMode(j) = "catchUp" /\ skips = CatchUpSkips
       IN  /\ p \in archive /\ ArchiveMode(j) # "bypass"
           /\ \E line \in {Line(p, "skip"), Line(0, "nameless")} :
                /\ Becomes(j, [PairLine(run[j], line) EXCEPT
                                  !.skips = skips, !.stopped = stop, !.todo = IF stop THEN <<>> ELSE Tail(@)])
                /\ \/ line.post = p /\ UNCHANGED faults
                   \/ line.post = 0 /\ faults < MaxFaults /\ faults' = faults + 1
    /\ UNCHANGED <<online, archive, library, job, took, missed, books, retries, cuts>>

\* A file that lands is recorded before its line is read; one that fails prints
\* no line, one whose sidecar cannot be read a line that names no post.
TakeFile(j) ==
    /\ At(j, "download") /\ run[j].todo # <<>>
    /\ LET p == Head(run[j].todo)
           r == [run[j] EXCEPT !.todo = Tail(@), !.skips = 0]
       IN  /\ p \notin archive \/ ArchiveMode(j) = "bypass"
           /\ \/ /\ Becomes(j, PairLine(r, Line(p, "file")))
                 /\ Recorded(j, p) /\ UNCHANGED faults
              \/ /\ faults < MaxFaults /\ faults' = faults + 1
                 /\ \/ /\ Becomes(j, [r EXCEPT !.exit = TRUE, !.skips = run[j].skips])
                       /\ UNCHANGED <<archive, took>>
                    \/ /\ Becomes(j, PairLine(r, Line(0, "unreadable")))
                       /\ Recorded(j, p)
    /\ UNCHANGED <<online, library, job, missed, books, retries, cuts>>

\* directlinkDownload: the file as it is, too large or gone.
TakeDirect(j) ==
    /\ At(j, "launch") /\ Is(j, {"direct"})
    /\ \/ /\ Becomes(j, PairLine([Unprinted(run[j]) EXCEPT !.listed = {1}], Line(0, "file")))
          /\ UNCHANGED faults
       \/ /\ faults < MaxFaults /\ faults' = faults + 1
          /\ Becomes(j, [Unprinted(run[j]) EXCEPT !.exit = TRUE])
    /\ UNCHANGED <<online, archive, library, job, took, missed, books, retries, cuts>>

-----------------------------------------------------------------------------
(* Rows and their files *)

\* What no row was listed for gets one.
Added(r) == [i \in 1 .. Len(r.entries) - Len(r.named) |-> Row(r.entries[Len(r.named) + i].post)]

Downloaded(j) ==
    /\ At(j, "download") /\ run[j].todo = <<>>
    /\ Becomes(j, [run[j] EXCEPT !.at = "push", !.rows = @ \o Added(run[j])])
    /\ UNCHANGED <<online, archive, library, job, took, missed, books, faults, retries, cuts>>

Outcome(j, i, outcome, more) ==
    Becomes(j, [run[j] EXCEPT !.rows[i].outcome = outcome, !.next = i + 1,
                              !.at = IF i < Len(run[j].rows) THEN more ELSE "end"])

\* markUndownloaded: without an error the post was in the archive.
Undownloaded(j) == IF run[j].exit THEN "failed" ELSE "archived"

\* processItems, for a row with nothing to push.
SettleRow(j) ==
    /\ At(j, "push")
    /\ LET i == run[j].next
           e == run[j].entries[i]
       IN  \/ e.what = "none"       /\ Outcome(j, i, Undownloaded(j), "push")
           \/ e.what \in {"skip", "nameless"} /\ Outcome(j, i, "archived", "push")
           \/ e.what = "unreadable" /\ Outcome(j, i, "failed", "push")
           \/ e.what = "file" /\ e.post \in Odd /\ Outcome(j, i, "unsupported", "push")
    /\ UNCHANGED <<online, archive, library, job, took, missed, books, faults, retries, cuts>>

\* The file of an entry; a direct link's names no post and is the job's own.
FileOf(j, e) == IF e.post = 0 THEN run[j].named[1] ELSE e.post

\* sendPush: created, or a duplicate of what the library has.
Accepted(j, i, p, more) ==
    /\ library' = library \cup {p}
    /\ Outcome(j, i, IF p \in library THEN "duplicate" ELSE "created", more)
    /\ UNCHANGED faults

\* postMultipart: refused or not sent; or taken, with the answer lost.
Unanswered(j, i, p, more) ==
    /\ faults < MaxFaults /\ faults' = faults + 1
    /\ library' \in {library, library \cup {p}}
    /\ Outcome(j, i, "failed", more)

\* pushOne.
Push(j) ==
    /\ At(j, "push")
    /\ LET i == run[j].next
           e == run[j].entries[i]
           p == FileOf(j, e)
       IN  /\ e.what = "file" /\ e.post \notin Odd
           /\ Accepted(j, i, p, "push") \/ Unanswered(j, i, p, "push")
    /\ UNCHANGED <<online, archive, job, took, missed, books, retries, cuts>>

-----------------------------------------------------------------------------
(* Books *)

\* importChapter: the pages of one chapter; an empty listing has none of them.
ResolveChapter(j) ==
    /\ At(j, "chapter")
    /\ IF run[j].next > Len(run[j].rows)
       THEN Becomes(j, [run[j] EXCEPT !.at = "end"]) /\ UNCHANGED faults
       ELSE \E named \in Listings([i \in 1 .. Pages |-> i]) :
              /\ Lists([i \in 1 .. Pages |-> i], named)
              /\ Becomes(j, [run[j] EXCEPT !.at = "pages", !.named = named, !.windowed = FALSE])
    /\ UNCHANGED <<online, archive, library, job, took, missed, books, retries, cuts>>

ChapterFails(j) ==
    /\ At(j, "chapter") /\ run[j].next <= Len(run[j].rows)
    /\ faults < MaxFaults /\ faults' = faults + 1
    /\ Outcome(j, run[j].next, "failed", "chapter")
    /\ UNCHANGED <<online, archive, library, job, took, missed, books, retries, cuts>>

\* The pages a download of a book can bring: those of its window.
BookPages(j) ==
    IF Is(j, {"title"}) THEN Pages
    ELSE Len(Windowed(Listing("book"), j, run[j].windowed))

\* The archive is bypassed, so a page is there or it failed.
TakePages(j) ==
    /\ At(j, "pages")
    /\ \E got \in 0 .. BookPages(j) :
         /\ \/ got = BookPages(j) /\ UNCHANGED faults
            \/ got < BookPages(j) /\ faults < MaxFaults /\ faults' = faults + 1
         /\ \E exit \in IF got = BookPages(j) THEN {FALSE} ELSE BOOLEAN :
              Becomes(j, [run[j] EXCEPT !.at = "bundle", !.got = got, !.exit = exit])
    /\ UNCHANGED <<online, archive, library, job, took, missed, books, retries, cuts>>

\* Mutant of IsWhole: any page makes a book.
IsWholeEnough(j) == run[j].got > 0
IsWhole(j)       == run[j].got >= Len(run[j].named)

\* processCBZ.
Bundle(j) ==
    /\ At(j, "bundle")
    /\ LET i    == run[j].next
           book == [of |-> IF Is(j, {"title"}) THEN run[j].rows[i].post ELSE 0,
                    pages |-> run[j].got, found |-> Len(run[j].named),
                    has |-> IF Is(j, {"title"}) THEN Pages ELSE Cardinality(run[j].there)]
           ok   == run[j].got > 0 /\ ~run[j].exit /\ IsWhole(j)
       IN  \/ /\ run[j].got = 0 /\ Outcome(j, i, Undownloaded(j), "chapter")
              /\ UNCHANGED <<books, faults>>
           \/ /\ run[j].got > 0 /\ ~ok /\ Outcome(j, i, "failed", "chapter")
              /\ UNCHANGED <<books, faults>>
           \/ /\ ok /\ books' = books \cup {book}
              /\ Outcome(j, i, "created", "chapter") /\ UNCHANGED faults
           \/ /\ ok /\ faults < MaxFaults /\ faults' = faults + 1
              /\ Outcome(j, i, "failed", "chapter")
              /\ books' \in {books, books \cup {book}}
    /\ UNCHANGED <<online, archive, library, job, took, missed, retries, cuts>>

-----------------------------------------------------------------------------
(* The queue's side: runs, cuts, restarts and retries *)

MayCall(call) == call \in Calls
MayCut(call)  == MayCall(call) /\ cuts < MaxCuts /\ cuts' = cuts + 1

Submit(j) ==
    /\ job[j].status = "none"
    /\ \E req \in Requests[j] :
         job' = [job EXCEPT ![j] = [@ EXCEPT !.kind = req.kind, !.offset = req.offset,
                                             !.watch = req.watch, !.status = "queued"]]
    /\ UNCHANGED <<online, archive, library, run, took, missed, books, faults, retries, cuts>>

Start(j) ==
    /\ job[j].status = "queued"
    /\ HasStatus(j, "running")
    /\ Becomes(j, [NoRun EXCEPT !.at = "resolve"])
    /\ UNCHANGED <<online, archive, library, took, missed, books, faults, retries, cuts>>

\* The push under way when the context is cut may have been taken.
InFlight(j) ==
    IF At(j, "push") /\ run[j].entries[run[j].next].what = "file"
       /\ FileOf(j, run[j].entries[run[j].next]) \notin Odd
    THEN {{}, {FileOf(j, run[j].entries[run[j].next])}} ELSE {{}}

\* The operator cancels: what is pending fails as canceled.
Cancel(j) ==
    /\ MayCut("cancel") /\ job[j].status = "running"
    /\ HasStatus(j, "canceled")
    /\ Becomes(j, Ended(run[j], FailPending(run[j].rows)))
    /\ \E landed \in InFlight(j) : library' = library \cup landed
    /\ UNCHANGED <<online, archive, took, missed, books, faults, retries>>

Running == {j \in Ids : job[j].status = "running"}

\* A shutdown settles what runs with its rows as they are; a crash leaves none:
\* they were saved when the run began.  Neither leaves a file of the job.
Restart(keepRows) ==
    /\ Running # {}
    /\ job' = [j \in Ids |-> IF j \in Running THEN [job[j] EXCEPT !.status = "interrupted"] ELSE job[j]]
    /\ run' = [j \in Ids |-> IF j \in Running
                             THEN Ended(run[j], IF keepRows THEN run[j].rows ELSE <<>>)
                             ELSE run[j]]
    /\ \E landed \in {UNION {f[j] : j \in Running} : f \in [Running -> UNION {InFlight(j) : j \in Running}]} :
         /\ landed \subseteq UNION UNION {InFlight(j) : j \in Running}
         /\ library' = library \cup landed
    /\ UNCHANGED <<online, archive, took, missed, books, faults, retries>>

Stop  == MayCut("stop")  /\ Restart(TRUE)
Crash == MayCut("crash") /\ Restart(FALSE)

\* Mutant of Leans: a run that failed in part is taken for a good one.
LeansUnlessFailed(j) == job[j].status \in {"succeeded", "partial"}

\* reset: only a succeeded run may lean on the archive.
Leans(j) == job[j].status = "succeeded"

Retry(j) ==
    /\ MayCall("retry") /\ job[j].status \in Settled /\ retries < MaxRetries
    /\ job' = [job EXCEPT ![j] = [@ EXCEPT !.status = "queued", !.force = ~Leans(j), !.capped = FALSE]]
    /\ Becomes(j, NoRun)
    /\ UNCHANGED <<online, archive, library, took, missed, books, faults, cuts>>
    /\ retries' = retries + 1

\* The site: a new post.
Publish ==
    /\ MayCall("publish") /\ online < MaxPosts
    /\ online' = online + 1
    /\ UNCHANGED <<archive, library, job, run, took, missed, books, faults, retries, cuts>>

Init ==
    /\ online \in IF "publish" \in Calls THEN {MaxPosts - 1} ELSE {MaxPosts}
    /\ archive = {} /\ library = {}
    /\ job = [j \in Ids |-> NoJob] /\ run = [j \in Ids |-> NoRun]
    /\ took = [j \in Ids |-> {}] /\ missed = {} /\ books = {} /\ faults = 0 /\ retries = 0 /\ cuts = 0

Process(j) ==
    \/ Resolve(j) \/ ResolveWhole(j) \/ ResolveChildren(j) \/ ResolveDeep(j)
    \/ ResolveDirect(j) \/ ResolveFails(j) \/ WorkDirFails(j) \/ Panic(j)
    \/ Launch(j) \/ SkipRecorded(j) \/ TakeFile(j) \/ TakeDirect(j) \/ Downloaded(j)
    \/ SettleRow(j) \/ Push(j)
    \/ ResolveChapter(j) \/ ChapterFails(j) \/ TakePages(j) \/ Bundle(j)
    \/ End(j)

Next ==
    \/ \E j \in Ids : Submit(j) \/ Start(j) \/ Process(j) \/ Cancel(j) \/ Retry(j)
    \/ Stop \/ Crash \/ Publish

Spec == Init /\ [][Next]_vars

-----------------------------------------------------------------------------
(* Properties *)

\* A post gallery-dl has recorded is skipped by every later search, so one that
\* did not reach monbooru must be owed by a job whose retry bypasses the archive
\* (job.go:544): a job that took it and has not succeeded since.  What a later run
\* of it did not list, or has no row of, is out of its hands.
NothingLost ==
    \A p \in archive \ (library \cup Odd \cup missed) :
        \E j \in Ids : p \in took[j] /\ job[j].status # "succeeded"

\* Rows that are archived on the word of a skip that named no post.
Nameless(j) == {i \in DOMAIN run[j].entries : run[j].entries[i].what = "nameless"}

\* What a settled row says is so: a created or a duplicate post is in the
\* library, an archived one in the archive, unless the download stopped before it
\* or no longer listed it.  A file that fails prints no line, so a later skip that
\* names no post takes its row (processor.go:374): after a failure, such a row is
\* not to be believed.
RowsTellTruth ==
    \A j \in Ids : ~Is(j, {"book", "title"}) =>
        \A i \in DOMAIN run[j].rows :
            LET row == run[j].rows[i]
            IN  /\ row.outcome \in {"created", "duplicate"} => row.post \in library
                /\ row.outcome = "archived" =>
                     \/ row.post \in archive \/ run[j].stopped \/ row.post \notin run[j].listed
                     \/ i \in Nameless(j) /\ run[j].exit

\* A book reaches monbooru with every page its resolve found (processor.go:699).
WholeBooks == \A b \in books : b.pages >= b.found

\* A job that succeeded and offers no next window left nothing of its source
\* behind, as its first pass saw it whole: a second pass, or a download, that comes
\* up short is noticed, unless both are (processor.go:140), or a skip that names no
\* post stands for one that the second pass left out.
UncappedIsAll ==
    \A j \in Ids :
        /\ job[j].status = "succeeded" /\ ~job[j].capped
        /\ ~run[j].short /\ ~Is(j, {"book"})
        /\ ~(run[j].gap /\ (run[j].exit \/ Nameless(j) # {}))
        => run[j].there \subseteq RowPosts(j)

\* A success leaves out nothing its first pass saw, neither posts nor pages.
SuccessIsWhole == WholeBooks /\ UncappedIsAll

\* processor.go:137: "A book is one file: bundling the window would push a short
\* archive as complete."  A first pass cut short keeps its window, and the window
\* is bundled.
BooksAreWhole == \A b \in books : b.pages = b.has

=============================================================================
