--------------------------- MODULE DownloadsProofs ---------------------------
(***************************************************************************)
(* What Downloads promises, for any number of jobs and posts, any cap and   *)
(* offsets and any faults: no recorded post is lost, rows say what is so,   *)
(* and a success leaves nothing out.                                        *)
(***************************************************************************)
EXTENDS Downloads, WellFoundedInduction, TLAPS

\* Types.
LineType == [post : Posts \cup {0}, what : {"none", "skip", "nameless", "file", "unreadable"}]
RowType  == [post : Posts \cup {0}, outcome : Outcomes]
JobType  == [kind : Kinds, offset : Nat, watch : BOOLEAN, force : BOOLEAN, capped : BOOLEAN,
             status : Settled \cup {"none", "queued", "running"}]
RunType  == [at : Stages, rows : Seq(RowType), named : Seq(Nat), there : SUBSET Posts,
             short : BOOLEAN, gap : BOOLEAN, windowed : BOOLEAN, children : Nat,
             todo : Seq(Posts), listed : SUBSET Posts, paired : Nat, skips : Nat,
             stopped : BOOLEAN, exit : BOOLEAN, entries : Seq(LineType), next : Nat \ {0}, got : Nat]

Types ==
    /\ online \in 0 .. MaxPosts /\ archive \subseteq Posts /\ library \subseteq Posts
    /\ job \in [Ids -> JobType] /\ run \in [Ids -> RunType] /\ took \in [Ids -> SUBSET Posts]

\* Kinds of source whose posts are pushed one by one.
Many   == {"search", "pool", "thread"}
Single == Many \cup {"direct"}

\* A listing's order.
Before(j, p, q) == IF Is(j, {"search"}) THEN p > q ELSE p < q

\* What the window starts after.
Base(j) == IF run[j].windowed THEN job[j].offset ELSE 0

\* The i-th post of the window, when the source has n.
Nth(j, n, i) == IF Is(j, {"search"}) THEN n + 1 - Base(j) - i ELSE Base(j) + i

\* Where a run of each kind can be, and what it has not touched by then.
Staged(j) ==
    /\ run[j].at = "off" <=> job[j].status # "running"
    /\ job[j].status \in {"none", "queued"} => run[j] = NoRun
    /\ run[j].at = "whole" => Is(j, {"pool", "book"})
    /\ run[j].at = "deep" => Is(j, {"thread"})
    /\ run[j].at \in {"chapter", "pages", "bundle"} => Is(j, {"title", "book"})
    /\ run[j].at \in {"pages", "bundle"} => run[j].next <= Len(run[j].rows)
    /\ run[j].at \in {"launch", "download", "push"} => Is(j, Single)
    /\ run[j].at \in {"resolve", "whole", "deep"} => run[j].rows = <<>> /\ ~run[j].gap /\ run[j].windowed
    /\ run[j].at \in {"resolve", "whole", "deep", "launch"} =>
          /\ ~run[j].exit /\ ~run[j].stopped /\ run[j].listed = {} /\ run[j].todo = <<>>
          /\ run[j].paired = 0 /\ run[j].next = 1

\* The resolve named a stretch of the source as it once was.
Stretch(j) ==
    \E n \in 0 .. online :
        /\ Base(j) + Len(run[j].named) <= n
        /\ \A i \in 1 .. Len(run[j].named) : run[j].named[i] = Nth(j, n, i)

Named(j) ==
    /\ run[j].at \in {"whole", "launch", "download", "push"} => run[j].named # <<>>
    /\ run[j].at \in {"whole", "launch", "download", "push"} /\ Is(j, Many) =>
          /\ Stretch(j)
          /\ run[j].windowed => Len(run[j].named) <= Cap
          /\ Is(j, {"search", "thread"}) => run[j].windowed
    /\ run[j].at \in {"launch", "download", "push"} /\ Is(j, {"direct"}) => run[j].named = << 1 >>

\* What the download lists comes in order, and nothing that was named and came
\* earlier is left out.
Ordered(j) ==
    run[j].at = "download" /\ Is(j, Many) =>
       /\ PostsOf(run[j].todo) \subseteq run[j].listed
       /\ run[j].stopped => run[j].todo = <<>>
       /\ \A i, k \in 1 .. Len(run[j].todo) : i < k => Before(j, run[j].todo[i], run[j].todo[k])
       /\ ~run[j].exit =>
            /\ \A i, k \in 1 .. Len(run[j].named) :
                  i < k /\ run[j].named[k] \in run[j].listed => run[j].named[i] \in run[j].listed
            /\ \A p \in run[j].listed, i \in 1 .. Len(run[j].todo) :
                  p \in PostsOf(run[j].todo) \/ Before(j, p, run[j].todo[i])

\* What the download is past.
Passed(j) == run[j].listed \ PostsOf(run[j].todo)

\* What was in the archive.
Skips == {"skip", "nameless"}

\* What each line is about.
Lines(j) ==
    run[j].at \in {"download", "push"} =>
       /\ Len(run[j].named) <= Len(run[j].entries) /\ run[j].paired <= Len(run[j].named)
       /\ \A i \in 1 .. Len(run[j].entries) :
            LET e == run[j].entries[i] IN
            /\ e.what = "none" => i <= Len(run[j].named)
            /\ e.what \in Skips => ArchiveMode(j) # "bypass"
            /\ e.what = "skip" => e.post \in archive
            /\ e.what \in {"nameless", "unreadable"} => e.post = 0
            /\ e.what \in {"skip", "file"} /\ i <= Len(run[j].named) /\ Is(j, Many) => e.post = run[j].named[i]
            /\ e.what \in {"skip", "file"} /\ Is(j, Many) => e.post # 0
            /\ i \in run[j].paired + 1 .. Len(run[j].named) => e.what = "none"
       /\ Is(j, {"direct"}) => /\ Len(run[j].entries) = 1 /\ run[j].todo = <<>>
                               /\ run[j].entries[1] \in {Line(0, "none"), Line(0, "file")}
                               /\ ~run[j].exit => run[j].entries[1] = Line(0, "file")

\* What a clean download leaves without a line was in the archive, or not listed.
Clean(j) ==
    run[j].at \in {"download", "push"} /\ Is(j, Many) /\ ~run[j].exit =>
       /\ run[j].stopped => ArchiveMode(j) = "catchUp"
       /\ ~run[j].stopped /\ ArchiveMode(j) # "bypass" => Passed(j) \subseteq archive
       /\ ArchiveMode(j) = "bypass" =>
            \A i \in 1 .. Len(run[j].named) :
               /\ run[j].named[i] \in Passed(j) => i <= run[j].paired
               /\ i <= run[j].paired => run[j].entries[i].what # "none"

\* The rows are of what was named, then of the lines no row was listed for.
Rows(j) ==
    Is(j, Single) =>
       /\ run[j].at \in {"launch", "download"} =>
            /\ Len(run[j].rows) = Len(run[j].named) /\ run[j].next = 1
            /\ \A i \in 1 .. Len(run[j].named) : run[j].rows[i] = Row(run[j].named[i])
       /\ run[j].at = "push" =>
            /\ run[j].todo = <<>>
            /\ Len(run[j].rows) = Len(run[j].entries) /\ run[j].next <= Len(run[j].rows)
            /\ \A i \in 1 .. Len(run[j].rows) :
                  /\ run[j].rows[i].post = IF i <= Len(run[j].named) THEN run[j].named[i] ELSE run[j].entries[i].post
                  /\ i < run[j].next <=> run[j].rows[i].outcome # "pending"
       /\ run[j].at = "end" => \A i \in 1 .. Len(run[j].rows) : run[j].rows[i].outcome # "pending"

\* What a row says is so, and a run that bypasses the archive takes nothing that
\* was listed for archived.
True(j) ==
    Is(j, Single) =>
       \A i \in 1 .. Len(run[j].rows) :
          LET row == run[j].rows[i] IN
          /\ row.outcome \in {"created", "duplicate"} => row.post \in library
          /\ row.outcome = "unsupported" => row.post \in Odd
          /\ row.outcome = "archived" =>
               /\ \/ row.post \in archive \/ run[j].stopped \/ row.post \notin run[j].listed
                  \/ i \in Nameless(j) /\ run[j].exit
               /\ run[j].at \in {"push", "end"} /\ job[j].force => row.post \notin run[j].listed

Failed(j) == \E i \in 1 .. Len(run[j].rows) : run[j].rows[i].outcome = "failed"

\* What a job took is in the library once it has succeeded; until then its next
\* run bypasses the archive, or this one has the file in hand.
Owed(j) == took[j] \ (library \cup Odd \cup missed)

Paying(j) ==
    /\ took[j] \subseteq archive
    /\ Is(j, {"book", "title", "direct"}) \/ job[j].status = "none" => took[j] = {}
    /\ Owed(j) # {} => job[j].status # "succeeded" /\ (job[j].status = "queued" => job[j].force)
    /\ job[j].status = "running" /\ ~job[j].force =>
         \A p \in Owed(j) :
            /\ run[j].at \in {"download", "push", "end"}
            /\ run[j].at \in {"download", "push"} =>
                 \E i \in 1 .. Len(run[j].entries) :
                    /\ run[j].entries[i] \in {Line(p, "file"), Line(0, "unreadable")}
                    /\ run[j].at = "push" => run[j].rows[i].outcome \in {"pending", "failed"}
            /\ run[j].at = "end" => Failed(j)

\* A post of the window has a row, or something came up short twice, or failed, or
\* a skip did not name its post.
Covered(j) ==
    ~job[j].capped /\ ~run[j].short /\ ~Is(j, {"book"}) =>
      /\ run[j].at \in {"whole", "deep", "launch", "download", "push"} /\ ~Is(j, {"direct"}) =>
            \A p \in run[j].there : p <= online
      /\ run[j].at = "deep" => \A p \in run[j].there : job[j].offset < p /\ p <= run[j].children
      /\ run[j].at \in {"launch", "download", "push"} => run[j].gap \/ run[j].there \subseteq RowPosts(j)
      /\ run[j].at \in {"chapter", "pages", "bundle"} => run[j].there \subseteq RowPosts(j)
      /\ run[j].gap /\ run[j].at \in {"launch", "download", "push"} =>
            /\ Is(j, {"pool", "thread"})
            /\ Is(j, {"pool"}) => ~run[j].windowed
            /\ Is(j, {"thread"}) => \A p \in run[j].there : job[j].offset < p /\ p <= job[j].offset + Cap
      /\ run[j].gap /\ ~run[j].exit /\ Nameless(j) = {} /\ run[j].at \in {"download", "push"} =>
            /\ run[j].there \subseteq run[j].listed
            /\ \/ \E i \in 1 .. Len(run[j].entries) :
                     /\ run[j].entries[i].what = "unreadable"
                     /\ run[j].at = "push" => run[j].rows[i].outcome \in {"pending", "failed"}
               \/ \A p \in Passed(j) :
                     \/ \E i \in 1 .. Len(run[j].named) : run[j].named[i] = p
                     \/ \E i \in Len(run[j].named) + 1 .. Len(run[j].entries) : run[j].entries[i].post = p
      /\ run[j].at = "end" \/ job[j].status = "succeeded" =>
            \/ run[j].there \subseteq RowPosts(j) \/ Failed(j)
            \/ run[j].gap /\ (run[j].exit \/ Nameless(j) # {})

\* No succeeded job has a failed row.
Good(j) == job[j].status = "succeeded" => ~Failed(j)

JobInv(j) ==
    /\ Staged(j) /\ Named(j) /\ Ordered(j) /\ Lines(j) /\ Clean(j) /\ Rows(j) /\ True(j)
    /\ Paying(j) /\ Covered(j) /\ Good(j)

-----------------------------------------------------------------------------
(* Listings *)

LEMMA SliceIs ==
    ASSUME NEW s \in Seq(Posts), NEW from \in Nat, NEW n \in Nat
    PROVE  /\ Slice(s, from, n) \in Seq(Posts)
           /\ Len(Slice(s, from, n)) <= n
           /\ from + Len(Slice(s, from, n)) <= Len(s) \/ Slice(s, from, n) = <<>>
           /\ Len(Slice(s, from, n)) = n \/ Len(Slice(s, from, n)) >= Len(s) - from
           /\ \A i \in 1 .. Len(Slice(s, from, n)) : Slice(s, from, n)[i] = s[from + i]
  BY DEF Slice

LEMMA CutShortIs ==
    ASSUME NEW S, NEW s \in Seq(S), NEW t \in CutShort(s)
    PROVE  /\ t \in Seq(S) /\ Len(t) < Len(s) /\ t # <<>> /\ t # s
           /\ \A i \in 1 .. Len(t) : t[i] = s[i]
  BY DEF CutShort

LEMMA ListingIs ==
    ASSUME NEW k \in Kinds \ {"direct"}, online \in 0 .. MaxPosts
    PROVE  /\ Listing(k) \in Seq(Posts) /\ Len(Listing(k)) = online
           /\ \A i \in 1 .. online : Listing(k)[i] = IF k = "search" THEN online + 1 - i ELSE i
  BY DownloadsAssumption DEF Listing, Posts

LEMMA ListingsAre ==
    ASSUME NEW S, NEW s \in Seq(S), NEW t \in Listings(s)
    PROVE  /\ t \in Seq(S) /\ Len(t) <= Len(s)
           /\ \A i \in 1 .. Len(t) : t[i] = s[i]
           /\ t = s \/ t # <<>>
  BY CutShortIs DEF Listings

-----------------------------------------------------------------------------
(* What a step leaves *)

\* A step of one job leaves the others alone, and posts do not go away.
Elsewhere(j) ==
    \A q \in Ids \ {j} : job'[q] = job[q] /\ run'[q] = run[q] /\ took'[q] = took[q]

Grows ==
    /\ online <= online' /\ archive \subseteq archive'
    /\ library \subseteq library' /\ missed \subseteq missed'

LEMMA Becoming ==
    ASSUME Types, NEW j \in Ids, NEW r \in RunType, Becomes(j, r)
    PROVE  /\ run' \in [Ids -> RunType] /\ run'[j] = r
           /\ \A q \in Ids \ {j} : run'[q] = run[q]
  BY DEF Types, Becomes

LEMMA HavingStatus ==
    ASSUME Types, NEW j \in Ids, NEW s \in Settled \cup {"none", "queued", "running"}, HasStatus(j, s)
    PROVE  /\ job' \in [Ids -> JobType]
           /\ job'[j] = [job[j] EXCEPT !.status = s]
           /\ job'[j].kind = job[j].kind /\ job'[j].offset = job[j].offset /\ job'[j].watch = job[j].watch
           /\ job'[j].force = job[j].force /\ job'[j].capped = job[j].capped /\ job'[j].status = s
           /\ \A q \in Ids \ {j} : job'[q] = job[q]
  <1>1. [job[j] EXCEPT !.status = s] \in JobType
    BY DEF Types, JobType
  <1>2. job' = [job EXCEPT ![j] = [job[j] EXCEPT !.status = s]]
    BY DEF Types, HasStatus
  <1> QED BY <1>1, <1>2 DEF Types, JobType

LEMMA BeingCapped ==
    ASSUME Types, NEW j \in Ids, NEW c \in BOOLEAN, Capped(j, c)
    PROVE  /\ job' \in [Ids -> JobType]
           /\ job'[j].kind = job[j].kind /\ job'[j].offset = job[j].offset /\ job'[j].watch = job[j].watch
           /\ job'[j].force = job[j].force /\ job'[j].status = job[j].status
           /\ job'[j].capped = (job[j].capped \/ c)
           /\ \A q \in Ids \ {j} : job'[q] = job[q]
  <1>1. (job[j].capped \/ c) \in BOOLEAN
    BY Zenon DEF Types, JobType
  <1>2. [job[j] EXCEPT !.capped = (job[j].capped \/ c)] \in JobType
    BY <1>1 DEF Types, JobType
  <1>3. job' = [job EXCEPT ![j] = [job[j] EXCEPT !.capped = (job[j].capped \/ c)]]
    BY DEF Types, Capped
  <1> QED BY <1>2, <1>3 DEF Types, JobType

LEMMA NoRunIs == NoRun \in RunType
  BY DEF NoRun, RunType, Stages

LEMMA RowIs == ASSUME NEW p \in Posts \cup {0} PROVE Row(p) \in RowType
  BY DEF Row, RowType, Outcomes

LEMMA FailPendingIs ==
    ASSUME NEW rows \in Seq(RowType)
    PROVE  /\ FailPending(rows) \in Seq(RowType) /\ Len(FailPending(rows)) = Len(rows)
           /\ \A i \in 1 .. Len(rows) :
                 /\ FailPending(rows)[i].post = rows[i].post
                 /\ FailPending(rows)[i].outcome
                      = IF rows[i].outcome = "pending" THEN "failed" ELSE rows[i].outcome
  <1>1. ASSUME NEW row \in RowType
        PROVE  /\ [row EXCEPT !.outcome = "failed"] \in RowType
               /\ [row EXCEPT !.outcome = "failed"].post = row.post
               /\ [row EXCEPT !.outcome = "failed"].outcome = "failed"
    BY DEF RowType, Outcomes
  <1>2. \A i \in 1 .. Len(rows) : rows[i] \in RowType
    OBVIOUS
  <1> HIDE DEF RowType
  <1> QED BY <1>1, <1>2 DEF FailPending

LEMMA EndedIs ==
    ASSUME NEW r \in RunType, NEW rows \in Seq(RowType)
    PROVE  /\ Ended(r, rows) \in RunType
           /\ Ended(r, rows).at = "off" /\ Ended(r, rows).rows = rows /\ Ended(r, rows).there = r.there
           /\ Ended(r, rows).short = r.short /\ Ended(r, rows).gap = r.gap
           /\ Ended(r, rows).listed = r.listed /\ Ended(r, rows).stopped = r.stopped
           /\ Ended(r, rows).exit = r.exit /\ Ended(r, rows).entries = r.entries
  <1>1. /\ Ended(r, rows).at = "off" /\ Ended(r, rows).rows = rows /\ Ended(r, rows).there = r.there
        /\ Ended(r, rows).short = r.short /\ Ended(r, rows).gap = r.gap
        /\ Ended(r, rows).listed = r.listed /\ Ended(r, rows).stopped = r.stopped
        /\ Ended(r, rows).exit = r.exit /\ Ended(r, rows).entries = r.entries
    BY DEF Ended, NoRun
  <1>2. /\ r.there \in SUBSET Posts /\ r.short \in BOOLEAN /\ r.gap \in BOOLEAN
        /\ r.listed \in SUBSET Posts /\ r.stopped \in BOOLEAN /\ r.exit \in BOOLEAN
        /\ r.entries \in Seq(LineType)
    BY DEF RunType
  <1>3. Ended(r, rows) \in RunType
    BY <1>2, NoRunIs DEF Ended, RunType
  <1> QED BY <1>1, <1>3

LEMMA FrameIs ==
    ASSUME Types, Types', Grows, NEW q \in Ids, JobInv(q),
           job'[q] = job[q], run'[q] = run[q], took'[q] = took[q]
    PROVE  JobInv(q)'
  <1> USE DEF JobInv
  <1>1. Staged(q)'
    BY DEF Staged, Is
  <1>2. Named(q)'
    <2>1. Stretch(q) => Stretch(q)'
      BY DEF Stretch, Nth, Base, Is, Grows, Types
    <2> QED BY <2>1 DEF Named, Is
  <1>3. Ordered(q)'
    BY DEF Ordered, Before, Is
  <1>4. Lines(q)'
    BY DEF Lines, Is, ArchiveMode, Grows
  <1>5. Clean(q)'
    BY DEF Clean, Is, ArchiveMode, Grows, Passed
  <1>6. Rows(q)'
    BY DEF Rows, Is
  <1>7. True(q)'
    BY DEF True, Is, Grows, Nameless
  <1>8. Paying(q)'
    <2>1. Owed(q)' \subseteq Owed(q)
      BY DEF Owed, Grows
    <2> QED BY <2>1 DEF Paying, Is, Grows, Failed
  <1>9. Covered(q)'
    <2>1. /\ Passed(q)' = Passed(q) /\ RowPosts(q)' = RowPosts(q) /\ Nameless(q)' = Nameless(q)
          /\ Failed(q)' <=> Failed(q)
      BY DEF Passed, RowPosts, Nameless, Failed
    <2>2. run[q].there \subseteq Posts /\ online \in Nat /\ online' \in Nat
      BY DEF Types, RunType
    <2>3. \A p \in run[q].there : p <= online => p <= online'
      BY <2>2 DEF Grows, Posts
    <2> QED BY <2>1, <2>3 DEF Covered, Is
  <1>10. Good(q)'
    BY DEF Good, Failed
  <1> QED BY <1>1, <1>2, <1>3, <1>4, <1>5, <1>6, <1>7, <1>8, <1>9, <1>10

\* A job in the FIFO has no run yet.
LEMMA ResetIs ==
    ASSUME NEW j \in Ids, run'[j] = NoRun, job'[j].status = "queued", took'[j] \subseteq archive',
           job'[j].kind \in {"book", "title", "direct"} => took'[j] = {},
           Owed(j)' # {} => job'[j].force
    PROVE  JobInv(j)'
  <1>1. NoRun.at = "off" /\ NoRun.rows = <<>>
    BY DEF NoRun
  <1>2. Staged(j)' /\ Named(j)' /\ Ordered(j)' /\ Lines(j)' /\ Clean(j)' /\ Rows(j)' /\ True(j)'
    BY <1>1 DEF Staged, Named, Ordered, Lines, Clean, Rows, True
  <1>3. Paying(j)'
    BY <1>1 DEF Paying, Is
  <1>4. Covered(j)' /\ Good(j)'
    BY <1>1 DEF Covered, Good
  <1> QED BY <1>2, <1>3, <1>4 DEF JobInv

\* What is on its way to monbooru is a post.
LEMMA FileIsPost ==
    ASSUME Types, NEW j \in Ids, JobInv(j), At(j, "push"), run[j].entries[run[j].next].what = "file"
    PROVE  FileOf(j, run[j].entries[run[j].next]) \in Posts
  <1>1. run[j] \in RunType
    BY DEF Types
  <1>2. Is(j, Single) /\ run[j].at = "push"
    BY DEF At, JobInv, Staged
  <1>3. Len(run[j].rows) = Len(run[j].entries) /\ run[j].next <= Len(run[j].rows)
    BY <1>2 DEF JobInv, Rows
  <1>4. run[j].next \in 1 .. Len(run[j].entries)
    BY <1>1, <1>3 DEF RunType
  <1>5. run[j].entries[run[j].next] \in LineType
    BY SMTT(30), <1>1, <1>4 DEF RunType
  <1>6. CASE Is(j, Many)
    <2>1. run[j].entries[run[j].next].post # 0
      BY <1>2, <1>4, <1>6 DEF JobInv, Lines
    <2> QED BY <1>5, <2>1 DEF FileOf, LineType
  <1>7. CASE Is(j, {"direct"})
    <2>1. run[j].named = << 1 >>
      BY <1>2, <1>7 DEF JobInv, Named
    <2> QED BY <1>5, <2>1, DownloadsAssumption DEF FileOf, LineType, Posts
  <1> QED BY <1>2, <1>6, <1>7 DEF Is, Single

LEMMA FilesArePosts ==
    ASSUME Types, NEW j \in Ids, JobInv(j), NEW landing \in InFlight(j)
    PROVE  landing \subseteq Posts
  BY FileIsPost DEF InFlight

-----------------------------------------------------------------------------
(* Ends, retries and the site *)

\* A run that ends without success: its rows are gone, as they were, or failed
\* where they were pending.
LEMMA OverKeeps ==
    ASSUME Types, Types', Grows, NEW j \in Ids, JobInv(j), took'[j] = took[j],
           NEW rows \in Seq(RowType),
           rows = <<>> \/ rows = run[j].rows \/ rows = FailPending(run[j].rows),
           NEW s \in Settled \ {"succeeded"},
           job'[j] = [job[j] EXCEPT !.status = s], run'[j] = Ended(run[j], rows)
    PROVE  JobInv(j)'
  <1> DEFINE r == run[j]
  <1>1. job[j] \in JobType /\ r \in RunType
    BY DEF Types
  <1>2. /\ job'[j].kind = job[j].kind /\ job'[j].force = job[j].force /\ job'[j].status = s
        /\ s \notin {"none", "queued", "running", "succeeded"}
    BY <1>1 DEF JobType, Settled
  <1>3. /\ run'[j].at = "off" /\ run'[j].rows = rows /\ run'[j].listed = r.listed /\ run'[j].stopped = r.stopped
        /\ run'[j].exit = r.exit /\ Nameless(j)' = Nameless(j)
    BY <1>1, EndedIs DEF Nameless
  <1>4. Staged(j)'
    BY <1>2, <1>3 DEF Staged
  <1>5. Named(j)' /\ Ordered(j)' /\ Lines(j)' /\ Clean(j)' /\ Rows(j)'
    BY <1>3 DEF Named, Ordered, Lines, Clean, Rows
  <1>6. True(j)'
    <2> SUFFICES ASSUME Is(j, Single), NEW i \in 1 .. Len(rows)
                 PROVE  /\ rows[i].outcome \in {"created", "duplicate"} => rows[i].post \in library'
                        /\ rows[i].outcome = "unsupported" => rows[i].post \in Odd
                        /\ rows[i].outcome = "archived" =>
                              \/ rows[i].post \in archive' \/ r.stopped \/ rows[i].post \notin r.listed
                              \/ i \in Nameless(j) /\ r.exit
      BY <1>2, <1>3 DEF True, Is
    <2>1. CASE rows = <<>>
      BY <2>1
    <2>2. CASE rows = run[j].rows
      BY <2>2 DEF JobInv, True, Grows
    <2>3. CASE rows = FailPending(run[j].rows)
      <3>1. /\ i \in 1 .. Len(r.rows) /\ rows[i].post = r.rows[i].post
            /\ rows[i].outcome = IF r.rows[i].outcome = "pending" THEN "failed" ELSE r.rows[i].outcome
        BY SMTT(30), <1>1, <2>3, FailPendingIs DEF RunType
      <3> QED BY <3>1 DEF JobInv, True, Grows, Nameless
    <2> QED BY <2>1, <2>2, <2>3
  <1>7. Paying(j)'
    <2>1. took[j] = {} \/ ~(Is(j, {"book", "title", "direct"}))
      BY DEF JobInv, Paying
    <2> QED BY <1>2, <2>1 DEF JobInv, Paying, Grows, Is
  <1>8. Covered(j)' /\ Good(j)'
    BY <1>2, <1>3 DEF Covered, Good
  <1> QED BY <1>4, <1>5, <1>6, <1>7, <1>8 DEF JobInv

\* abortJob: the run fails and nothing else changes.
LEMMA AbortKeeps ==
    ASSUME Types, NEW j \in Ids, JobInv(j), Abort(j),
           UNCHANGED <<online, archive, library, took, missed>>
    PROVE  Types' /\ JobInv(j)' /\ Elsewhere(j) /\ Grows
  <1>1. run[j] \in RunType /\ FailPending(run[j].rows) \in Seq(RowType)
    BY FailPendingIs DEF Types, RunType
  <1>2. Ended(run[j], FailPending(run[j].rows)) \in RunType
    BY <1>1, EndedIs
  <1>3. /\ run' \in [Ids -> RunType] /\ run'[j] = Ended(run[j], FailPending(run[j].rows))
        /\ \A q \in Ids \ {j} : run'[q] = run[q]
    BY <1>2, Becoming DEF Abort
  <1>4. /\ job' \in [Ids -> JobType] /\ job'[j] = [job[j] EXCEPT !.status = "failed"]
        /\ \A q \in Ids \ {j} : job'[q] = job[q]
    BY HavingStatus DEF Abort, Settled
  <1>5. Types' /\ Grows
    BY <1>3, <1>4 DEF Types, Grows
  <1>6. Elsewhere(j)
    BY <1>3, <1>4 DEF Elsewhere
  <1>7. JobInv(j)'
    BY <1>1, <1>3, <1>4, <1>5, OverKeeps DEF Settled
  <1> QED BY <1>5, <1>6, <1>7

LEMMA BreaksKeeps ==
    ASSUME Types, NEW j \in Ids, JobInv(j), Breaks(j)
    PROVE  Types' /\ JobInv(j)' /\ Elsewhere(j) /\ Grows /\ UNCHANGED <<archive, took, books>>
  BY AbortKeeps DEF Breaks

LEMMA CancelKeeps ==
    ASSUME Types, NEW j \in Ids, JobInv(j), Cancel(j)
    PROVE  Types' /\ JobInv(j)' /\ Elsewhere(j) /\ Grows
  <1>1. run[j] \in RunType /\ FailPending(run[j].rows) \in Seq(RowType)
    BY FailPendingIs DEF Types, RunType
  <1>2. Ended(run[j], FailPending(run[j].rows)) \in RunType
    BY <1>1, EndedIs
  <1>3. /\ run' \in [Ids -> RunType] /\ run'[j] = Ended(run[j], FailPending(run[j].rows))
        /\ \A q \in Ids \ {j} : run'[q] = run[q]
    BY <1>2, Becoming DEF Cancel
  <1>4. /\ job' \in [Ids -> JobType] /\ job'[j] = [job[j] EXCEPT !.status = "canceled"]
        /\ \A q \in Ids \ {j} : job'[q] = job[q]
    BY HavingStatus DEF Cancel, Settled
  <1>5. library \subseteq library' /\ library' \subseteq Posts
    <2>1. PICK landed \in InFlight(j) : library' = library \cup landed
      BY DEF Cancel
    <2>2. landed \subseteq Posts
      BY FilesArePosts, <2>1
    <2> QED BY <2>1, <2>2 DEF Types
  <1>6. Types' /\ Grows
    BY <1>3, <1>4, <1>5 DEF Types, Grows, Cancel
  <1>7. Elsewhere(j)
    BY <1>3, <1>4 DEF Elsewhere, Cancel
  <1>8. JobInv(j)'
    BY <1>1, <1>3, <1>4, <1>6, OverKeeps DEF Settled, Cancel
  <1> QED BY <1>6, <1>7, <1>8

\* A shutdown or a crash ends every run.
LEMMA RestartKeeps ==
    ASSUME Types, \A j \in Ids : JobInv(j), NEW keep \in BOOLEAN, Restart(keep)
    PROVE  Types' /\ Grows /\ took' = took /\ archive' = archive /\ books' = books
           /\ \A j \in Ids : JobInv(j)'
  <1> DEFINE Left(j) == IF keep THEN run[j].rows ELSE <<>>
  <1>1. \A j \in Ids : Left(j) \in Seq(RowType)
    BY DEF Types, RunType
  <1>2. \A j \in Ids : run[j] \in RunType /\ Ended(run[j], Left(j)) \in RunType
    BY <1>1, EndedIs DEF Types
  <1>3. \A j \in Ids : job[j] \in JobType /\ [job[j] EXCEPT !.status = "interrupted"] \in JobType
    BY DEF Types, JobType, Settled
  <1>4. /\ run' \in [Ids -> RunType]
        /\ \A j \in Ids : run'[j] = IF j \in Running THEN Ended(run[j], Left(j)) ELSE run[j]
    BY <1>2 DEF Restart
  <1>5. /\ job' \in [Ids -> JobType]
        /\ \A j \in Ids : job'[j] = IF j \in Running THEN [job[j] EXCEPT !.status = "interrupted"] ELSE job[j]
    BY <1>3 DEF Restart
  <1>6. library \subseteq library' /\ library' \subseteq Posts
    <2>1. PICK landed : library' = library \cup landed /\ landed \subseteq UNION UNION {InFlight(j) : j \in Running}
      BY DEF Restart
    <2>2. \A j \in Running : \A landing \in InFlight(j) : landing \subseteq Posts
      BY FilesArePosts DEF Running
    <2>3. landed \subseteq Posts
      BY <2>1, <2>2
    <2> QED BY <2>1, <2>3 DEF Types
  <1>7. UNCHANGED <<online, archive, took, missed, books>>
    BY DEF Restart
  <1>8. Types' /\ Grows
    BY <1>4, <1>5, <1>6, <1>7 DEF Types, Grows
  <1>9. ASSUME NEW j \in Ids PROVE JobInv(j)'
    <2>1. CASE j \in Running
      <3>1. run'[j] = Ended(run[j], Left(j)) /\ job'[j] = [job[j] EXCEPT !.status = "interrupted"]
        BY <1>4, <1>5, <2>1
      <3>2. Left(j) \in Seq(RowType) /\ (Left(j) = <<>> \/ Left(j) = run[j].rows)
        BY <1>1
      <3> QED BY <1>7, <1>8, <3>1, <3>2, OverKeeps DEF Settled
    <2>2. CASE j \notin Running
      <3>1. run'[j] = run[j] /\ job'[j] = job[j] /\ took'[j] = took[j]
        BY <1>4, <1>5, <1>7, <2>2
      <3> QED BY <1>8, <3>1, FrameIs
    <2> QED BY <2>1, <2>2
  <1> QED BY <1>7, <1>8, <1>9

LEMMA SubmitKeeps ==
    ASSUME Types, NEW j \in Ids, JobInv(j), Submit(j)
    PROVE  Types' /\ JobInv(j)' /\ Elsewhere(j) /\ Grows
  <1>1. PICK req \in Requests[j] :
           job' = [job EXCEPT ![j] = [job[j] EXCEPT !.kind = req.kind, !.offset = req.offset,
                                                    !.watch = req.watch, !.status = "queued"]]
    BY DEF Submit, Types
  <1>2. req \in [kind : Kinds, offset : Nat, watch : BOOLEAN] /\ job[j] \in JobType
    BY DownloadsAssumption DEF Types
  <1>3. [job[j] EXCEPT !.kind = req.kind, !.offset = req.offset, !.watch = req.watch, !.status = "queued"] \in JobType
    BY <1>2 DEF JobType
  <1>4. /\ job' \in [Ids -> JobType] /\ job'[j].status = "queued"
        /\ \A q \in Ids \ {j} : job'[q] = job[q]
    BY <1>1, <1>2, <1>3 DEF Types, JobType
  <1>5. UNCHANGED <<online, archive, library, run, took, missed, books>> /\ job[j].status = "none"
    BY DEF Submit
  <1>6. run[j] = NoRun /\ took[j] = {}
    BY <1>5 DEF JobInv, Staged, Paying
  <1>7. Types' /\ Grows
    BY <1>4, <1>5 DEF Types, Grows
  <1>8. Elsewhere(j)
    BY <1>4, <1>5 DEF Elsewhere
  <1>9. JobInv(j)'
    <2>1. took'[j] = {} /\ Owed(j)' = {}
      BY <1>5, <1>6 DEF Owed
    <2> QED BY <1>4, <1>5, <1>6, <2>1, ResetIs
  <1> QED BY <1>7, <1>8, <1>9

LEMMA StartKeeps ==
    ASSUME Types, NEW j \in Ids, JobInv(j), Start(j)
    PROVE  Types' /\ JobInv(j)' /\ Elsewhere(j) /\ Grows
  <1> DEFINE r == [NoRun EXCEPT !.at = "resolve"]
  <1>1. r \in RunType
    BY NoRunIs DEF RunType, Stages
  <1>2. /\ run' \in [Ids -> RunType] /\ run'[j] = r
        /\ \A q \in Ids \ {j} : run'[q] = run[q]
    BY <1>1, Becoming DEF Start
  <1>3. /\ job' \in [Ids -> JobType] /\ job'[j].status = "running"
        /\ job'[j].force = job[j].force /\ job'[j].kind = job[j].kind
        /\ \A q \in Ids \ {j} : job'[q] = job[q]
    BY HavingStatus DEF Start
  <1>4. UNCHANGED <<online, archive, library, took, missed, books>> /\ job[j].status = "queued"
    BY DEF Start
  <1>5. Types' /\ Grows
    BY <1>2, <1>3, <1>4 DEF Types, Grows
  <1>6. Elsewhere(j)
    BY <1>2, <1>3, <1>4 DEF Elsewhere
  <1>7. /\ r.at = "resolve" /\ r.rows = <<>> /\ ~r.gap /\ r.windowed /\ ~r.exit /\ ~r.stopped
        /\ r.listed = {} /\ r.todo = <<>> /\ r.paired = 0 /\ r.next = 1
    BY DEF NoRun
  <1> HIDE DEF r
  <1>8. Staged(j)' /\ Named(j)' /\ Ordered(j)' /\ Lines(j)' /\ Clean(j)' /\ Rows(j)' /\ True(j)'
    BY <1>2, <1>3, <1>7 DEF Staged, Named, Ordered, Lines, Clean, Rows, True
  <1>9. Paying(j)'
    BY <1>2, <1>3, <1>4, <1>7 DEF JobInv, Paying, Owed, Is
  <1>10. Covered(j)' /\ Good(j)'
    BY <1>2, <1>3, <1>7 DEF Covered, Good
  <1> QED BY <1>5, <1>6, <1>8, <1>9, <1>10 DEF JobInv

LEMMA RetryKeeps ==
    ASSUME Types, NEW j \in Ids, JobInv(j), Retry(j)
    PROVE  Types' /\ JobInv(j)' /\ Elsewhere(j) /\ Grows
  <1>1. Leans(j) \in BOOLEAN /\ (~Leans(j)) \in BOOLEAN
    BY Zenon DEF Leans
  <1> DEFINE new == [job[j] EXCEPT !.status = "queued", !.force = ~Leans(j), !.capped = FALSE]
  <1>2. new \in JobType /\ new.status = "queued" /\ new.kind = job[j].kind /\ new.force = ~Leans(j)
    BY <1>1 DEF Types, JobType
  <1>3. job' = [job EXCEPT ![j] = new]
    BY DEF Retry, Types
  <1> HIDE DEF new
  <1>4. /\ job' \in [Ids -> JobType] /\ job'[j] = new
        /\ \A q \in Ids \ {j} : job'[q] = job[q]
    BY <1>2, <1>3 DEF Types
  <1>5. /\ run' \in [Ids -> RunType] /\ run'[j] = NoRun
        /\ \A q \in Ids \ {j} : run'[q] = run[q]
    BY NoRunIs, Becoming DEF Retry
  <1>6. UNCHANGED <<online, archive, library, took, missed, books>> /\ job[j].status # "none"
    BY DEF Retry, Settled
  <1>7. Types' /\ Grows
    BY <1>4, <1>5, <1>6 DEF Types, Grows
  <1>8. Elsewhere(j)
    BY <1>4, <1>5, <1>6 DEF Elsewhere
  <1>9. Owed(j) # {} => job'[j].force
    BY <1>2, <1>4 DEF JobInv, Paying, Leans
  <1>10. took[j] \subseteq archive /\ (Is(j, {"book", "title", "direct"}) => took[j] = {})
    BY DEF JobInv, Paying
  <1>11. JobInv(j)'
    <2>1. took'[j] = took[j] /\ archive' = archive /\ Owed(j)' = Owed(j)
      BY <1>6 DEF Owed
    <2> QED BY <1>2, <1>4, <1>5, <1>9, <1>10, <2>1, ResetIs DEF Is
  <1> QED BY <1>7, <1>8, <1>11

LEMMA PublishKeeps ==
    ASSUME Types, \A j \in Ids : JobInv(j), Publish
    PROVE  Types' /\ Grows /\ took' = took /\ archive' = archive /\ books' = books
           /\ \A j \in Ids : JobInv(j)'
  <1>1. UNCHANGED <<archive, library, job, run, took, missed, books>>
    BY DEF Publish
  <1>2. Types' /\ Grows
    BY <1>1, DownloadsAssumption DEF Publish, Types, Grows
  <1> QED BY <1>1, <1>2, FrameIs

-----------------------------------------------------------------------------
(* The resolve pass *)

\* What the source has from an offset on.
LEMMA SeenIs ==
    ASSUME Types, NEW k \in Kinds \ {"direct"}, NEW from \in Nat,
           NEW p \in PostsOf(Slice(Listing(k), from, online))
    PROVE  /\ p \in Posts /\ p <= online /\ (k # "search" => from < p)
           /\ \E i \in 1 .. online - from : p = IF k = "search" THEN online + 1 - from - i ELSE from + i
  <1> DEFINE s == Slice(Listing(k), from, online)
  <1>1. online \in 0 .. MaxPosts /\ online \in Nat
    BY DownloadsAssumption DEF Types
  <1>2. /\ Listing(k) \in Seq(Posts) /\ Len(Listing(k)) = online
        /\ \A i \in 1 .. online : Listing(k)[i] = IF k = "search" THEN online + 1 - i ELSE i
    BY <1>1, ListingIs
  <1>3. /\ s \in Seq(Posts)
        /\ from + Len(s) <= online \/ s = <<>>
        /\ \A i \in 1 .. Len(s) : s[i] = Listing(k)[from + i]
    <2> DEFINE all == Listing(k)
    <2>1. all \in Seq(Posts) /\ Len(all) = online
      BY <1>2
    <2> HIDE DEF all
    <2>2. /\ Slice(all, from, online) \in Seq(Posts) /\ Len(Slice(all, from, online)) <= online
          /\ from + Len(Slice(all, from, online)) <= Len(all) \/ Slice(all, from, online) = <<>>
          /\ Len(Slice(all, from, online)) = online \/ Len(Slice(all, from, online)) >= Len(all) - from
          /\ \A i \in 1 .. Len(Slice(all, from, online)) : Slice(all, from, online)[i] = all[from + i]
      BY <1>1, <2>1, SliceIs
    <2> QED BY <2>1, <2>2 DEF all
  <1>4. PICK i \in 1 .. Len(s) : p = s[i]
    BY <1>3 DEF PostsOf
  <1>5. from + i \in 1 .. online /\ from + Len(s) <= online
    BY <1>1, <1>3, <1>4
  <1>6. p = IF k = "search" THEN online + 1 - (from + i) ELSE from + i
    BY <1>2, <1>3, <1>4, <1>5
  <1> HIDE DEF s
  <1> QED BY <1>1, <1>4, <1>5, <1>6, DownloadsAssumption DEF Posts

\* What a window of the source has.
LEMMA WindowIs ==
    ASSUME Types, NEW k \in Kinds \ {"direct"}, NEW from \in Nat, NEW n \in Nat
    PROVE  /\ Slice(Listing(k), from, n) \in Seq(Posts) /\ Len(Slice(Listing(k), from, n)) <= n
           /\ from + Len(Slice(Listing(k), from, n)) <= online \/ Slice(Listing(k), from, n) = <<>>
           /\ Len(Slice(Listing(k), from, n)) = n \/ Len(Slice(Listing(k), from, n)) >= online - from
           /\ \A i \in 1 .. Len(Slice(Listing(k), from, n)) :
                 Slice(Listing(k), from, n)[i] = IF k = "search" THEN online + 1 - from - i ELSE from + i
  <1> DEFINE s == Slice(Listing(k), from, n)
  <1>1. online \in 0 .. MaxPosts /\ online \in Nat
    BY DownloadsAssumption DEF Types
  <1>2. /\ Listing(k) \in Seq(Posts) /\ Len(Listing(k)) = online
        /\ \A i \in 1 .. online : Listing(k)[i] = IF k = "search" THEN online + 1 - i ELSE i
    BY <1>1, ListingIs
  <1>3. /\ s \in Seq(Posts) /\ Len(s) <= n
        /\ from + Len(s) <= online \/ s = <<>>
        /\ Len(s) = n \/ Len(s) >= online - from
        /\ \A i \in 1 .. Len(s) : s[i] = Listing(k)[from + i]
    <2> DEFINE all == Listing(k)
    <2>1. all \in Seq(Posts) /\ Len(all) = online
      BY <1>2
    <2> HIDE DEF all
    <2>2. /\ Slice(all, from, n) \in Seq(Posts) /\ Len(Slice(all, from, n)) <= n
          /\ from + Len(Slice(all, from, n)) <= Len(all) \/ Slice(all, from, n) = <<>>
          /\ Len(Slice(all, from, n)) = n \/ Len(Slice(all, from, n)) >= Len(all) - from
          /\ \A i \in 1 .. Len(Slice(all, from, n)) : Slice(all, from, n)[i] = all[from + i]
      BY <1>1, <2>1, SliceIs
    <2> QED BY <2>1, <2>2 DEF all
  <1> HIDE DEF s
  <1>4. ASSUME NEW i \in 1 .. Len(s)
        PROVE  s[i] = IF k = "search" THEN online + 1 - from - i ELSE from + i
    <2>1. from + i \in 1 .. online
      BY <1>1, <1>3
    <2>2. s[i] = IF k = "search" THEN online + 1 - (from + i) ELSE from + i
      BY <1>2, <1>3, <2>1
    <2> QED BY <1>1, <2>1, <2>2
  <1> QED BY <1>3, <1>4 DEF s

LEMMA FetchIs ==
    ASSUME NEW r \in RunType, NEW k \in Kinds, NEW named \in Seq(Posts), NEW w \in BOOLEAN,
           NEW f, f = Fetch(r, k, named, w)
    PROVE  /\ f \in RunType /\ f.named = named /\ f.windowed = w
           /\ f.at = IF k = "book" THEN "pages" ELSE "launch"
           /\ k = "book" => Len(f.rows) = 1
           /\ k # "book" => /\ Len(f.rows) = Len(named)
                            /\ \A i \in 1 .. Len(named) : f.rows[i] = Row(named[i])
           /\ f.there = r.there /\ f.short = r.short /\ f.gap = r.gap /\ f.exit = r.exit
           /\ f.stopped = r.stopped /\ f.listed = r.listed /\ f.todo = r.todo
           /\ f.paired = r.paired /\ f.next = r.next
  <1> DEFINE rows == IF k = "book" THEN <<Row(0)>> ELSE [i \in DOMAIN named |-> Row(named[i])]
  <1>1. \A p \in Posts \cup {0} : Row(p) \in RowType
    BY RowIs
  <1>2. rows \in Seq(RowType)
    BY <1>1
  <1>3. /\ k = "book" => Len(rows) = 1
        /\ k # "book" => /\ Len(rows) = Len(named)
                         /\ \A i \in 1 .. Len(named) : rows[i] = Row(named[i])
    OBVIOUS
  <1>4. named \in Seq(Nat)
    BY DownloadsAssumption DEF Posts
  <1>5. f = [r EXCEPT !.named = named, !.windowed = w,
                      !.at = IF k = "book" THEN "pages" ELSE "launch", !.rows = rows]
    BY DEF Fetch
  <1> HIDE DEF rows
  <1>6. f \in RunType
    BY ZenonT(40), <1>2, <1>4, <1>5 DEF RunType, Stages
  <1>7. /\ f.named = named /\ f.windowed = w /\ f.rows = rows
        /\ f.at = IF k = "book" THEN "pages" ELSE "launch"
        /\ f.there = r.there /\ f.short = r.short /\ f.gap = r.gap /\ f.exit = r.exit
        /\ f.stopped = r.stopped /\ f.listed = r.listed /\ f.todo = r.todo
        /\ f.paired = r.paired /\ f.next = r.next
    BY <1>5 DEF RunType
  <1> QED BY <1>3, <1>6, <1>7

\* A run of a job that took nothing yet owes nothing unless it bypasses the archive.
Resolving(j) == job[j].status = "running" /\ run[j].at \in {"resolve", "whole", "deep", "launch"}

\* The same job, after a step of its run.
SameJob(j) ==
    /\ job'[j].kind = job[j].kind /\ job'[j].offset = job[j].offset /\ job'[j].watch = job[j].watch
    /\ job'[j].force = job[j].force /\ job'[j].status = job[j].status
    /\ UNCHANGED <<online, archive, library, took, missed>>

LEMMA ResolvingPays ==
    ASSUME Types, NEW j \in Ids, JobInv(j), Resolving(j), SameJob(j)
    PROVE  Paying(j)' /\ Good(j)'
  <1>1. ~job[j].force => Owed(j) = {}
    BY DEF JobInv, Paying, Resolving
  <1>2. Owed(j)' = Owed(j)
    BY DEF Owed, SameJob
  <1>3. took'[j] \subseteq archive' /\ (job'[j].kind \in {"book", "title", "direct"} => took'[j] = {})
    BY DEF JobInv, Paying, SameJob, Is
  <1> QED BY <1>1, <1>2, <1>3 DEF Resolving, SameJob, Paying, Good, Is

\* The rows are shown and the download may start.
LEMMA LaunchingKeeps ==
    ASSUME Types, NEW j \in Ids, JobInv(j), Resolving(j), SameJob(j), Is(j, Single),
           NEW r \in RunType, run'[j] = r, r.at = "launch", r.named # <<>>,
           Len(r.rows) = Len(r.named), \A i \in 1 .. Len(r.named) : r.rows[i] = Row(r.named[i]),
           ~r.exit, ~r.stopped, r.listed = {}, r.todo = <<>>, r.paired = 0, r.next = 1,
           Is(j, {"direct"}) => r.named = << 1 >>,
           Is(j, Many) =>
              /\ Stretch(j)'
              /\ r.windowed => Len(r.named) <= Cap
              /\ Is(j, {"search", "thread"}) => r.windowed,
           ~job'[j].capped /\ ~r.short =>
              /\ ~Is(j, {"direct"}) => \A p \in r.there : p <= online
              /\ r.gap \/ r.there \subseteq RowPosts(j)'
              /\ r.gap => /\ Is(j, {"pool", "thread"})
                          /\ Is(j, {"pool"}) => ~r.windowed
                          /\ Is(j, {"thread"}) => \A p \in r.there : job[j].offset < p /\ p <= job[j].offset + Cap
    PROVE  JobInv(j)'
  <1>1. job'[j].kind = job[j].kind /\ job'[j].offset = job[j].offset /\ job'[j].status = "running" /\ online' = online
    BY DEF SameJob, Resolving
  <1>2. Staged(j)'
    BY <1>1 DEF Staged, Is
  <1>3. Named(j)'
    BY <1>1 DEF Named, Is
  <1>4. Ordered(j)' /\ Lines(j)' /\ Clean(j)'
    BY <1>1 DEF Ordered, Lines, Clean
  <1>5. Rows(j)'
    BY <1>1 DEF Rows
  <1>6. \A i \in 1 .. Len(r.rows) : r.rows[i].outcome = "pending"
    <2>1. Len(r.rows) = Len(r.named) /\ \A p : Row(p).outcome = "pending"
      BY DEF Row
    <2> QED BY <2>1
  <1>7. True(j)'
    BY <1>6 DEF True
  <1>8. Covered(j)'
    BY <1>1 DEF Covered, Is
  <1> QED BY <1>2, <1>3, <1>4, <1>5, <1>7, <1>8, ResolvingPays DEF JobInv

\* A book or a title is not about the archive.
LEMMA BookKeeps ==
    ASSUME Types, NEW j \in Ids, JobInv(j), SameJob(j), Is(j, {"book", "title"}),
           NEW r \in RunType, run'[j] = r, job[j].status = "running",
           r.at \in {"chapter", "pages", "bundle", "end"},
           r.at \in {"pages", "bundle"} => r.next <= Len(r.rows),
           Is(j, {"title"}) /\ ~job'[j].capped /\ ~r.short => r.there \subseteq RowPosts(j)'
    PROVE  JobInv(j)'
  <1>1. job'[j].kind = job[j].kind /\ job'[j].status = "running"
    BY DEF SameJob
  <1>2. took[j] = {} /\ took'[j] = {}
    BY DEF JobInv, Paying, SameJob, Is
  <1>3. Staged(j)'
    BY <1>1 DEF Staged, Is
  <1>4. Named(j)' /\ Ordered(j)' /\ Lines(j)' /\ Clean(j)'
    BY <1>1 DEF Named, Ordered, Lines, Clean
  <1>5. Rows(j)' /\ True(j)'
    BY <1>1 DEF Rows, True, Is, Single, Many
  <1>6. Paying(j)' /\ Good(j)'
    BY <1>1, <1>2 DEF Paying, Owed, Good
  <1>7. Covered(j)'
    BY <1>1 DEF Covered, Is
  <1> QED BY <1>3, <1>4, <1>5, <1>6, <1>7 DEF JobInv

\* Nothing was found.
LEMMA EmptyKeeps ==
    ASSUME Types, NEW j \in Ids, JobInv(j), Resolving(j), SameJob(j),
           NEW r \in RunType, run'[j] = r, r.at = "end", r.rows = <<>>,
           ~job'[j].capped /\ ~r.short => r.there = {}
    PROVE  JobInv(j)'
  <1>1. job'[j].kind = job[j].kind /\ job'[j].status = "running"
    BY DEF SameJob, Resolving
  <1>2. Staged(j)' /\ Named(j)' /\ Ordered(j)' /\ Lines(j)' /\ Clean(j)' /\ Rows(j)' /\ True(j)'
    BY <1>1 DEF Staged, Named, Ordered, Lines, Clean, Rows, True
  <1>3. Covered(j)'
    BY <1>1 DEF Covered
  <1> QED BY <1>2, <1>3, ResolvingPays DEF JobInv

\* The run goes on looking.
LEMMA LookingKeeps ==
    ASSUME Types, NEW j \in Ids, JobInv(j), Resolving(j), SameJob(j),
           NEW r \in RunType, run'[j] = r, r.rows = <<>>, ~r.gap, r.windowed,
           ~r.exit, ~r.stopped, r.listed = {}, r.todo = <<>>, r.paired = 0, r.next = 1,
           \/ r.at = "deep" /\ Is(j, {"thread"})
           \/ r.at = "whole" /\ Is(j, {"pool", "book"}) /\ r.named # <<>>,
           r.at = "whole" /\ Is(j, {"pool"}) => Stretch(j)' /\ Len(r.named) <= Cap,
           \A p \in r.there : p <= online,
           r.at = "deep" /\ ~r.short => \A p \in r.there : job[j].offset < p /\ p <= r.children
    PROVE  JobInv(j)'
  <1>1. job'[j].kind = job[j].kind /\ job'[j].offset = job[j].offset /\ job'[j].status = "running" /\ online' = online
    BY DEF SameJob, Resolving
  <1>2. Staged(j)' /\ Ordered(j)' /\ Lines(j)' /\ Clean(j)' /\ Rows(j)' /\ True(j)'
    BY <1>1 DEF Staged, Ordered, Lines, Clean, Rows, True, Is
  <1>3. Named(j)'
    BY <1>1 DEF Named, Is, Many
  <1>4. Covered(j)'
    BY <1>1 DEF Covered, Is
  <1> QED BY <1>2, <1>3, <1>4, ResolvingPays DEF JobInv

\* A step of the resolve changes a run, and what the job says of the cap.
LEMMA StepIs ==
    ASSUME Types, NEW j \in Ids, NEW r \in RunType, Becomes(j, r),
           UNCHANGED job \/ \E c \in BOOLEAN : Capped(j, c),
           UNCHANGED <<online, archive, library, took, missed>>
    PROVE  Types' /\ SameJob(j) /\ Elsewhere(j) /\ Grows /\ run'[j] = r
  <1>1. /\ run' \in [Ids -> RunType] /\ run'[j] = r
        /\ \A q \in Ids \ {j} : run'[q] = run[q]
    BY Becoming
  <1>2. /\ job' \in [Ids -> JobType]
        /\ job'[j].kind = job[j].kind /\ job'[j].offset = job[j].offset /\ job'[j].watch = job[j].watch
        /\ job'[j].force = job[j].force /\ job'[j].status = job[j].status
        /\ \A q \in Ids \ {j} : job'[q] = job[q]
    <2>1. CASE UNCHANGED job
      BY <2>1 DEF Types
    <2>2. CASE \E c \in BOOLEAN : Capped(j, c)
      BY <2>2, BeingCapped
    <2> QED BY <2>1, <2>2
  <1>3. Types'
    BY <1>1, <1>2 DEF Types
  <1>4. Grows
    BY DownloadsAssumption DEF Types, Grows
  <1> QED BY <1>1, <1>2, <1>3, <1>4 DEF SameJob, Elsewhere

\* Where a job that resolves is.
LEMMA ResolvingIs ==
    ASSUME Types, NEW j \in Ids, JobInv(j), NEW s \in {"resolve", "whole", "deep"}, At(j, s)
    PROVE  /\ Resolving(j) /\ run[j] \in RunType /\ job[j] \in JobType
           /\ run[j].rows = <<>> /\ ~run[j].gap /\ run[j].windowed
           /\ ~run[j].exit /\ ~run[j].stopped /\ run[j].listed = {} /\ run[j].todo = <<>>
           /\ run[j].paired = 0 /\ run[j].next = 1
  BY DEF Types, At, Resolving, JobInv, Staged

LEMMA ResolveKeeps ==
    ASSUME Types, NEW j \in Ids, JobInv(j), Resolve(j)
    PROVE  Types' /\ JobInv(j)' /\ Elsewhere(j) /\ Grows
  <1> DEFINE k      == job[j].kind
             from   == job[j].offset
             there  == PostsOf(Slice(Listing(k), from, online))
             window == Slice(Listing(k), from, Cap)
             found(named) == [run[j] EXCEPT !.named = named, !.short = named # window, !.there = there]
  <1>1. At(j, "resolve") /\ k \in {"search", "pool", "book"} /\ UNCHANGED <<online, archive, library, took, missed>>
    BY DEF Resolve, Is
  <1>2. /\ Resolving(j) /\ run[j] \in RunType /\ job[j] \in JobType
        /\ run[j].rows = <<>> /\ ~run[j].gap /\ run[j].windowed
        /\ ~run[j].exit /\ ~run[j].stopped /\ run[j].listed = {} /\ run[j].todo = <<>>
        /\ run[j].paired = 0 /\ run[j].next = 1
    BY <1>1, ResolvingIs
  <1>3. PICK named \in Listings(window) : Decide(j, found(named), named)
    BY DEF Resolve, Windowed
  <1>4. from \in Nat /\ Cap \in Nat /\ Cap > 0 /\ online \in Nat /\ k \in Kinds \ {"direct"}
    BY <1>1, <1>2, DownloadsAssumption DEF JobType, Types, Kinds
  <1>5. /\ window \in Seq(Posts) /\ Len(window) <= Cap
        /\ from + Len(window) <= online \/ window = <<>>
        /\ Len(window) = Cap \/ Len(window) >= online - from
        /\ \A i \in 1 .. Len(window) : window[i] = IF k = "search" THEN online + 1 - from - i ELSE from + i
    <2>1. k \in Kinds \ {"direct"} /\ from \in Nat /\ Cap \in Nat
      BY <1>4
    <2> HIDE DEF k, from
    <2>2. /\ Slice(Listing(k), from, Cap) \in Seq(Posts) /\ Len(Slice(Listing(k), from, Cap)) <= Cap
          /\ from + Len(Slice(Listing(k), from, Cap)) <= online \/ Slice(Listing(k), from, Cap) = <<>>
          /\ Len(Slice(Listing(k), from, Cap)) = Cap \/ Len(Slice(Listing(k), from, Cap)) >= online - from
          /\ \A i \in 1 .. Len(Slice(Listing(k), from, Cap)) :
                Slice(Listing(k), from, Cap)[i] = IF k = "search" THEN online + 1 - from - i ELSE from + i
      BY <2>1, WindowIs
    <2> QED BY <2>2
  <1>6. ASSUME NEW p \in there
        PROVE  /\ p \in Posts /\ p <= online
               /\ \E i \in 1 .. online - from : p = IF k = "search" THEN online + 1 - from - i ELSE from + i
    BY <1>4, SeenIs
  <1> HIDE DEF window, there
  <1>7. /\ named \in Seq(Posts) /\ Len(named) <= Len(window)
        /\ \A i \in 1 .. Len(named) : named[i] = window[i]
        /\ named = window \/ named # <<>>
    BY <1>5, ListingsAre
  <1>8. /\ \A i \in 1 .. Len(named) : named[i] = IF k = "search" THEN online + 1 - from - i ELSE from + i
        /\ named # <<>> => from + Len(named) <= online
        /\ Len(named) <= Cap
    BY SMTT(30), <1>4, <1>5, <1>7
  <1>9. found(named) \in RunType
    <2>1. (named # window) \in BOOLEAN
      BY Zenon
    <2>2. named \in Seq(Nat)
      BY <1>7, DownloadsAssumption DEF Posts
    <2>3. there \subseteq Posts
      BY <1>6
    <2> QED BY <1>2, <2>1, <2>2, <2>3 DEF RunType
  <1>10. /\ found(named).named = named /\ found(named).short = (named # window) /\ found(named).there = there
         /\ found(named).rows = <<>> /\ ~found(named).gap /\ found(named).windowed
         /\ ~found(named).exit /\ ~found(named).stopped /\ found(named).listed = {} /\ found(named).todo = <<>>
         /\ found(named).paired = 0 /\ found(named).next = 1
    BY <1>2 DEF RunType
  <1>11. \A p \in there : named = window /\ Len(named) < Cap => \E i \in 1 .. Len(named) : named[i] = p
    <2> SUFFICES ASSUME NEW p \in there, named = window, Len(named) < Cap
                 PROVE  \E i \in 1 .. Len(named) : named[i] = p
      OBVIOUS
    <2>1. PICK i \in 1 .. online - from : p = IF k = "search" THEN online + 1 - from - i ELSE from + i
      BY <1>6
    <2>2. Len(named) >= online - from /\ Len(named) \in Nat
      BY <1>5, <1>7
    <2>3. i \in 1 .. Len(named)
      BY <1>4, <2>1, <2>2
    <2> QED BY <1>8, <2>1, <2>3
  <1>12. PICK r \in RunType : r = found(named)
    BY <1>9
  <1>13. /\ r.named = named /\ r.short = (named # window) /\ r.there = there
         /\ r.rows = <<>> /\ ~r.gap /\ r.windowed
         /\ ~r.exit /\ ~r.stopped /\ r.listed = {} /\ r.todo = <<>> /\ r.paired = 0 /\ r.next = 1
    BY <1>10, <1>12
  <1>14. Decide(j, r, named)
    BY <1>3, <1>12
  <1> HIDE DEF found
  <1>15. CASE named = <<>> /\ Becomes(j, [r EXCEPT !.at = "end"]) /\ UNCHANGED job
    <2> DEFINE e == [r EXCEPT !.at = "end"]
    <2>1. e \in RunType /\ e.at = "end" /\ e.rows = <<>> /\ e.there = there
      BY <1>13 DEF RunType, Stages
    <2> HIDE DEF e
    <2>2. Types' /\ SameJob(j) /\ Elsewhere(j) /\ Grows /\ run'[j] = e
      BY <1>1, <1>15, <2>1, StepIs DEF e
    <2>3. there = {}
      BY <1>4, <1>5, <1>6, <1>7, <1>15
    <2> QED BY <1>2, <2>1, <2>2, <2>3, EmptyKeeps
  <1>16. CASE Abort(j)
    BY <1>1, <1>16, AbortKeeps
  <1> DEFINE full  == Len(named) >= Cap
             whole == full /\ k \in {"pool", "book"}
  <1>17. CASE /\ named # <<>> /\ whole
              /\ Becomes(j, [r EXCEPT !.at = "whole"]) /\ Capped(j, FALSE)
    <2> DEFINE e == [r EXCEPT !.at = "whole"]
    <2>1. /\ e \in RunType /\ e.at = "whole" /\ e.rows = <<>> /\ ~e.gap /\ e.windowed
          /\ ~e.exit /\ ~e.stopped /\ e.listed = {} /\ e.todo = <<>> /\ e.paired = 0 /\ e.next = 1
          /\ e.named = named /\ e.there = there
      BY <1>13 DEF RunType, Stages
    <2> HIDE DEF e
    <2>2. Types' /\ SameJob(j) /\ Elsewhere(j) /\ Grows /\ run'[j] = e
      BY <1>1, <1>17, <2>1, StepIs DEF e
    <2>3. Stretch(j)'
      BY SMTT(30), <1>4, <1>8, <1>17, <2>1, <2>2 DEF Stretch, Nth, Base, SameJob, Is
    <2>4. Is(j, {"pool", "book"}) /\ \A p \in there : p <= online
      BY <1>6, <1>17 DEF Is
    <2> QED BY <1>2, <1>8, <1>17, <2>1, <2>2, <2>3, <2>4, LookingKeeps
  <1>18. CASE /\ named # <<>> /\ ~whole
              /\ Becomes(j, Fetch(r, k, named, TRUE)) /\ Capped(j, full)
    <2> DEFINE e == Fetch(r, k, named, TRUE)
    <2>1. /\ e \in RunType /\ e.named = named /\ e.windowed
          /\ e.at = IF k = "book" THEN "pages" ELSE "launch"
          /\ k = "book" => Len(e.rows) = 1
          /\ k # "book" => /\ Len(e.rows) = Len(named)
                           /\ \A i \in 1 .. Len(named) : e.rows[i] = Row(named[i])
          /\ e.there = there /\ e.short = (named # window) /\ ~e.gap /\ ~e.exit
          /\ ~e.stopped /\ e.listed = {} /\ e.todo = <<>> /\ e.paired = 0 /\ e.next = 1
      <3>1. PICK w \in BOOLEAN : w = TRUE
        BY Zenon
      <3>2. k \in Kinds /\ e = Fetch(r, k, named, w)
        BY <1>4, <3>1
      <3> HIDE DEF e
      <3>3. /\ e \in RunType /\ e.named = named /\ e.windowed = w
            /\ e.at = IF k = "book" THEN "pages" ELSE "launch"
            /\ k = "book" => Len(e.rows) = 1
            /\ k # "book" => /\ Len(e.rows) = Len(named)
                             /\ \A i \in 1 .. Len(named) : e.rows[i] = Row(named[i])
            /\ e.there = r.there /\ e.short = r.short /\ e.gap = r.gap /\ e.exit = r.exit
            /\ e.stopped = r.stopped /\ e.listed = r.listed /\ e.todo = r.todo
            /\ e.paired = r.paired /\ e.next = r.next
        BY <1>7, <3>2, FetchIs
      <3>4. /\ r.there = there /\ r.short = (named # window) /\ ~r.gap /\ ~r.exit
            /\ ~r.stopped /\ r.listed = {} /\ r.todo = <<>> /\ r.paired = 0 /\ r.next = 1
        BY <1>13
      <3>5. e.windowed
        BY <3>1, <3>3
      <3> QED BY <3>3, <3>4, <3>5
    <2> HIDE DEF e
    <2>2. full \in BOOLEAN
      OBVIOUS
    <2>3. Types' /\ SameJob(j) /\ Elsewhere(j) /\ Grows /\ run'[j] = e /\ job'[j].capped = (job[j].capped \/ full)
      BY ZenonT(40), <1>1, <1>18, <2>1, <2>2, StepIs, BeingCapped DEF e
    <2>4. CASE k = "book"
      <3>1. Is(j, {"book", "title"}) /\ ~Is(j, {"title"}) /\ job[j].status = "running"
        BY <1>2, <2>4 DEF Is, Resolving
      <3>2. e.at = "pages" /\ e.next = 1 /\ Len(e.rows) = 1 /\ e \in RunType
        BY <2>1, <2>4
      <3>3. e.next <= Len(e.rows)
        BY <3>2
      <3> QED BY <2>3, <3>1, <3>2, <3>3, BookKeeps
    <2>5. CASE k # "book"
      <3>1. Stretch(j)'
        BY SMTT(30), <1>4, <1>8, <1>18, <2>1, <2>3 DEF Stretch, Nth, Base, SameJob, Is
      <3>2. ~job'[j].capped /\ ~e.short => \A p \in there : p <= online /\ p \in RowPosts(j)'
        <4> SUFFICES ASSUME ~full, named = window, NEW p \in there PROVE p <= online /\ p \in RowPosts(j)'
          BY <2>1, <2>3
        <4>1. PICK i \in 1 .. Len(named) : named[i] = p
          BY <1>4, <1>7, <1>11
        <4>2. e.rows[i] = Row(p) /\ i \in 1 .. Len(e.rows) /\ e.rows \in Seq(RowType)
          BY <2>1, <2>5, <4>1 DEF RunType
        <4>3. i \in DOMAIN e.rows /\ e.rows[i].post = p
          BY <4>2 DEF Row
        <4> QED BY <1>6, <2>3, <4>3 DEF RowPosts
      <3>3. Is(j, Single) /\ ~Is(j, {"direct"}) /\ Is(j, Many)
        BY <1>1, <2>5 DEF Is, Single, Many
      <3> QED BY <1>2, <1>8, <1>18, <2>1, <2>3, <2>5, <3>1, <3>2, <3>3, LaunchingKeeps
    <2> QED BY <2>4, <2>5
  <1>19. \/ named = <<>> /\ Becomes(j, [r EXCEPT !.at = "end"]) /\ UNCHANGED job
         \/ Abort(j)
         \/ named # <<>> /\ whole /\ Becomes(j, [r EXCEPT !.at = "whole"]) /\ Capped(j, FALSE)
         \/ named # <<>> /\ ~whole /\ Becomes(j, Fetch(r, k, named, TRUE)) /\ Capped(j, full)
    <2>1. CASE whole
      <3>1. Capped(j, full /\ ~whole) => Capped(j, FALSE)
        BY <2>1, Zenon
      <3> QED BY <1>14, <2>1, <3>1 DEF Decide
    <2>2. CASE ~whole
      <3>1. (full /\ ~whole) = full
        BY <2>2
      <3> QED BY <1>14, <2>2, <3>1 DEF Decide
    <2> QED BY <2>1, <2>2
  <1> QED BY <1>15, <1>16, <1>17, <1>18, <1>19

LEMMA NamedArePosts ==
    ASSUME Types, NEW j \in Ids, JobInv(j), Is(j, Many),
           run[j].at \in {"whole", "launch", "download", "push"}
    PROVE  run[j].named \in Seq(Posts)
  <1>1. Stretch(j) /\ run[j].named \in Seq(Nat) /\ run[j].windowed \in BOOLEAN
    BY DEF JobInv, Named, Types, RunType
  <1>2. PICK n \in 0 .. online :
           /\ Base(j) + Len(run[j].named) <= n
           /\ \A i \in 1 .. Len(run[j].named) : run[j].named[i] = Nth(j, n, i)
    BY <1>1 DEF Stretch
  <1>3. Base(j) \in Nat /\ n \in 0 .. MaxPosts /\ MaxPosts \in Nat
    BY DownloadsAssumption DEF Base, Types, JobType
  <1>4. \A i \in 1 .. Len(run[j].named) : run[j].named[i] \in Posts
    <2> SUFFICES ASSUME NEW i \in 1 .. Len(run[j].named) PROVE Nth(j, n, i) \in 1 .. n /\ n <= MaxPosts
      BY <1>2, <1>3 DEF Posts
    <2>1. Len(run[j].named) \in Nat /\ n \in Nat
      BY <1>1, <1>3
    <2>2. PICK b \in Nat, m \in Nat : b = Base(j) /\ m = Len(run[j].named) /\ i \in 1 .. m /\ b + m <= n
      BY <1>2, <1>3, <2>1
    <2>3. n + 1 - b - i \in 1 .. n /\ b + i \in 1 .. n /\ n <= MaxPosts
      BY <1>3, <2>1, <2>2
    <2> QED BY <2>2, <2>3 DEF Nth
  <1> QED BY SMTT(30), <1>1, <1>4

LEMMA ResolveWholeKeeps ==
    ASSUME Types, NEW j \in Ids, JobInv(j), ResolveWhole(j)
    PROVE  Types' /\ JobInv(j)' /\ Elsewhere(j) /\ Grows
  <1> DEFINE k   == job[j].kind
             all == Listing(k)
  <1>1. At(j, "whole") /\ UNCHANGED <<online, archive, library, took, missed>>
    BY DEF ResolveWhole
  <1>2. /\ Resolving(j) /\ run[j] \in RunType /\ job[j] \in JobType
        /\ run[j].rows = <<>> /\ ~run[j].gap /\ run[j].windowed
        /\ ~run[j].exit /\ ~run[j].stopped /\ run[j].listed = {} /\ run[j].todo = <<>>
        /\ run[j].paired = 0 /\ run[j].next = 1
    BY <1>1, ResolvingIs
  <1>3. k \in {"pool", "book"} /\ run[j].named # <<>> /\ run[j].at = "whole"
    BY <1>1 DEF At, JobInv, Staged, Is, Named
  <1>4. online \in Nat /\ online \in 0 .. MaxPosts /\ k \in Kinds \ {"direct"} /\ k # "search"
    BY <1>2, <1>3, DownloadsAssumption DEF Types, Kinds
  <1>5. all \in Seq(Posts) /\ Len(all) = online /\ \A i \in 1 .. online : all[i] = i
    BY <1>4, ListingIs
  <1>6. PICK whole \in Listings(all) :
           \/ /\ Len(whole) >= Len(run[j].named)
              /\ Becomes(j, Fetch([run[j] EXCEPT !.gap = whole # all], k, whole, FALSE))
              /\ UNCHANGED job
           \/ Abort(j)
           \/ /\ Is(j, {"pool"})
              /\ Becomes(j, Fetch(run[j], "pool", run[j].named, TRUE)) /\ KeepsWindow(j)
    BY DEF ResolveWhole
  <1> HIDE DEF all
  <1>7. /\ whole \in Seq(Posts) /\ Len(whole) <= online
        /\ \A i \in 1 .. Len(whole) : whole[i] = i
    BY <1>5, ListingsAre
  <1>8. CASE /\ Len(whole) >= Len(run[j].named)
             /\ Becomes(j, Fetch([run[j] EXCEPT !.gap = whole # all], k, whole, FALSE))
             /\ UNCHANGED job
    <2> DEFINE r == [run[j] EXCEPT !.gap = whole # all]
               e == Fetch(r, k, whole, FALSE)
    <2>1. (whole # all) \in BOOLEAN
      BY Zenon
    <2>2. /\ r \in RunType /\ r.gap = (whole # all) /\ r.there = run[j].there /\ r.short = run[j].short
          /\ ~r.exit /\ ~r.stopped /\ r.listed = {} /\ r.todo = <<>> /\ r.paired = 0 /\ r.next = 1
      BY <1>2, <2>1 DEF RunType
    <2> HIDE DEF r
    <2>3. PICK w \in BOOLEAN : w = FALSE
      BY Zenon
    <2>4. e = Fetch(r, k, whole, w)
      BY <2>3
    <2> HIDE DEF e
    <2>5. /\ e \in RunType /\ e.named = whole /\ e.windowed = w
          /\ e.at = IF k = "book" THEN "pages" ELSE "launch"
          /\ k = "book" => Len(e.rows) = 1
          /\ k # "book" => /\ Len(e.rows) = Len(whole)
                           /\ \A i \in 1 .. Len(whole) : e.rows[i] = Row(whole[i])
          /\ e.there = r.there /\ e.short = r.short /\ e.gap = r.gap /\ e.exit = r.exit
          /\ e.stopped = r.stopped /\ e.listed = r.listed /\ e.todo = r.todo
          /\ e.paired = r.paired /\ e.next = r.next
      BY <1>4, <1>7, <2>2, <2>4, FetchIs
    <2>6. Types' /\ SameJob(j) /\ Elsewhere(j) /\ Grows /\ run'[j] = e /\ job' = job
      BY <1>1, <1>8, <2>5, StepIs DEF e, r
    <2>7. CASE k = "book"
      <3>1. Is(j, {"book", "title"}) /\ ~Is(j, {"title"}) /\ job[j].status = "running"
        BY <1>2, <2>7 DEF Is, Resolving
      <3>2. e.at = "pages" /\ e.next = 1 /\ Len(e.rows) = 1 /\ e \in RunType
        BY <2>2, <2>5, <2>7
      <3>3. e.next <= Len(e.rows)
        BY <3>2
      <3> QED BY <2>6, <3>1, <3>2, <3>3, BookKeeps
    <2>8. CASE k = "pool"
      <3>1. Stretch(j)'
        <4>1. Base(j)' = 0
          BY <2>3, <2>5, <2>6 DEF Base
        <4>2. PICK n \in 0 .. online : n = online
          BY <1>4
        <4>3. \A i \in 1 .. Len(whole) : whole[i] = Nth(j, n, i)'
          BY <1>7, <2>6, <2>8, <4>1 DEF Nth, Is
        <4>4. online' = online /\ run'[j].named = whole /\ 0 + Len(whole) <= n
          BY <1>7, <2>5, <2>6, <4>2 DEF SameJob
        <4> QED BY <4>1, <4>3, <4>4 DEF Stretch
      <3>2. whole # <<>>
        BY <1>2, <1>3, <1>7, <1>8 DEF RunType
      <3>3. ~job'[j].capped /\ ~e.short => \A p \in e.there : p <= online
        BY <1>3, <2>2, <2>5, <2>6, <2>8 DEF JobInv, Covered, Is
      <3>4. ASSUME ~e.gap, NEW p \in e.there, p <= online PROVE p \in RowPosts(j)'
        <4>1. p \in 1 .. Len(whole)
          <5>1. p \in Posts /\ p \in Nat /\ p >= 1
            BY <2>5, <3>4, DownloadsAssumption DEF RunType, Posts
          <5>2. whole = all
            BY <2>2, <2>5, <3>4
          <5> QED BY <1>4, <1>5, <3>4, <5>1, <5>2
        <4>2. p \in DOMAIN e.rows /\ e.rows[p].post = p
          <5>1. e.rows[p] = Row(p) /\ p \in 1 .. Len(e.rows) /\ e.rows \in Seq(RowType)
            BY <1>7, <2>5, <2>8, <4>1 DEF RunType
          <5> QED BY <5>1 DEF Row
        <4> QED BY <2>6, <4>2 DEF RowPosts
      <3>5. Is(j, Single) /\ Is(j, Many) /\ Is(j, {"pool"}) /\ ~Is(j, {"direct", "search", "thread"})
        BY <2>8 DEF Is, Single, Many
      <3> QED BY <1>2, <2>2, <2>3, <2>5, <2>6, <2>8, <3>1, <3>2, <3>3, <3>4, <3>5, LaunchingKeeps DEF Is
    <2> QED BY <1>3, <2>6, <2>7, <2>8
  <1>9. CASE Abort(j)
    BY <1>1, <1>9, AbortKeeps
  <1>10. CASE /\ Is(j, {"pool"})
              /\ Becomes(j, Fetch(run[j], "pool", run[j].named, TRUE)) /\ KeepsWindow(j)
    <2> DEFINE e == Fetch(run[j], "pool", run[j].named, TRUE)
    <2>1. Is(j, Single) /\ Is(j, Many) /\ Is(j, {"pool"}) /\ ~Is(j, {"direct", "search", "thread"})
      BY <1>10 DEF Is, Single, Many
    <2>2. run[j].named \in Seq(Posts)
      BY <1>3, <2>1, NamedArePosts
    <2>3. PICK w \in BOOLEAN : w = TRUE
      BY Zenon
    <2>4. e = Fetch(run[j], "pool", run[j].named, w) /\ "pool" \in Kinds
      BY <2>3 DEF Kinds
    <2> HIDE DEF e
    <2>5. /\ e \in RunType /\ e.named = run[j].named /\ e.windowed = w /\ e.at = "launch"
          /\ Len(e.rows) = Len(e.named)
          /\ \A i \in 1 .. Len(e.named) : e.rows[i] = Row(e.named[i])
          /\ e.there = run[j].there /\ e.short = run[j].short /\ e.gap = run[j].gap /\ e.exit = run[j].exit
          /\ e.stopped = run[j].stopped /\ e.listed = run[j].listed /\ e.todo = run[j].todo
          /\ e.paired = run[j].paired /\ e.next = run[j].next
      BY <1>2, <2>2, <2>4, FetchIs
    <2>6. Capped(j, TRUE)
      BY <1>10 DEF KeepsWindow
    <2>7. Types' /\ SameJob(j) /\ Elsewhere(j) /\ Grows /\ run'[j] = e /\ job'[j].capped
      BY <1>1, <1>10, <2>5, <2>6, StepIs, BeingCapped DEF e
    <2>8. Stretch(j) /\ Len(run[j].named) <= Cap
      BY <1>2, <1>3, <2>1 DEF JobInv, Named
    <2>9. Stretch(j)'
      <3>1. Base(j)' = Base(j)
        BY <1>2, <2>3, <2>5, <2>7 DEF Base, SameJob
      <3> QED BY <2>5, <2>7, <2>8, <3>1 DEF Stretch, Nth, SameJob, Is
    <2>10. /\ e.named # <<>> /\ Len(e.named) <= Cap /\ e.windowed
           /\ ~e.exit /\ ~e.stopped /\ e.listed = {} /\ e.todo = <<>> /\ e.paired = 0 /\ e.next = 1
      BY <1>2, <1>3, <2>3, <2>5, <2>8
    <2>11. ~Is(j, {"direct"}) /\ ~Is(j, {"search", "thread"}) /\ ~Is(j, {"thread"})
      BY <2>1 DEF Is
    <2> QED BY <1>2, <2>1, <2>5, <2>7, <2>9, <2>10, <2>11, LaunchingKeeps
  <1> QED BY <1>6, <1>8, <1>9, <1>10

LEMMA ResolveChildrenKeeps ==
    ASSUME Types, NEW j \in Ids, JobInv(j), ResolveChildren(j)
    PROVE  Types' /\ JobInv(j)' /\ Elsewhere(j) /\ Grows
  <1> DEFINE k     == job[j].kind
             from  == job[j].offset
             all   == Listing(k)
             there == PostsOf(Slice(Listing(k), from, online))
             cut   == Slice(all, from, Cap)
             found(queue) == [run[j] EXCEPT !.there = there, !.short = queue # all, !.children = Len(queue)]
  <1>1. At(j, "resolve") /\ k \in {"thread", "title"} /\ UNCHANGED <<online, archive, library, took, missed>>
    BY DEF ResolveChildren, Is
  <1>2. /\ Resolving(j) /\ run[j] \in RunType /\ job[j] \in JobType
        /\ run[j].rows = <<>> /\ ~run[j].gap /\ run[j].windowed
        /\ ~run[j].exit /\ ~run[j].stopped /\ run[j].listed = {} /\ run[j].todo = <<>>
        /\ run[j].paired = 0 /\ run[j].next = 1
    BY <1>1, ResolvingIs
  <1>3. PICK queue \in Listings(all) :
           \/ Is(j, {"thread"}) /\ Becomes(j, [found(queue) EXCEPT !.at = "deep"]) /\ UNCHANGED job
           \/ Is(j, {"title"}) /\ Abort(j)
           \/ Is(j, {"title"}) /\ Chapters(j, found(queue), queue)
    BY DEF ResolveChildren
  <1>4. /\ from \in Nat /\ Cap \in Nat /\ Cap > 0 /\ online \in Nat /\ online \in 0 .. MaxPosts
        /\ k \in Kinds \ {"direct"} /\ k # "search"
    BY <1>1, <1>2, DownloadsAssumption DEF JobType, Types, Kinds
  <1>5. all \in Seq(Posts) /\ Len(all) = online
    BY <1>4, ListingIs
  <1>6. ASSUME NEW p \in there
        PROVE  /\ p \in Posts /\ p <= online /\ from < p
               /\ \E i \in 1 .. online - from : p = from + i
    BY <1>4, SeenIs
  <1>7. /\ cut \in Seq(Posts)
        /\ Len(cut) = Cap \/ Len(cut) >= online - from
        /\ \A i \in 1 .. Len(cut) : cut[i] = from + i
    <2> HIDE DEF there
    <2>1. k \in Kinds \ {"direct", "search"}
      BY <1>4
    <2>3. from \in Nat /\ Cap \in Nat /\ k \in Kinds \ {"direct"}
      BY <1>4
    <2>2. /\ Slice(Listing(k), from, Cap) \in Seq(Posts) /\ Len(Slice(Listing(k), from, Cap)) <= Cap
          /\ from + Len(Slice(Listing(k), from, Cap)) <= online \/ Slice(Listing(k), from, Cap) = <<>>
          /\ Len(Slice(Listing(k), from, Cap)) = Cap \/ Len(Slice(Listing(k), from, Cap)) >= online - from
          /\ \A i \in 1 .. Len(Slice(Listing(k), from, Cap)) :
                Slice(Listing(k), from, Cap)[i] = IF k = "search" THEN online + 1 - from - i ELSE from + i
      BY <2>3, WindowIs
    <2> QED BY <2>1, <2>2
  <1>17. cut = Slice(all, from, Cap)
    OBVIOUS
  <1> HIDE DEF there, all, cut
  <1>8. queue \in Seq(Posts) /\ Len(queue) \in Nat
    BY <1>5, ListingsAre
  <1>9. /\ found(queue) \in RunType
        /\ found(queue).there = there /\ found(queue).short = (queue # all) /\ found(queue).children = Len(queue)
        /\ found(queue).rows = <<>> /\ ~found(queue).gap /\ found(queue).windowed
        /\ ~found(queue).exit /\ ~found(queue).stopped /\ found(queue).listed = {} /\ found(queue).todo = <<>>
        /\ found(queue).paired = 0 /\ found(queue).next = 1
    <2>1. (queue # all) \in BOOLEAN
      BY Zenon
    <2>2. there \subseteq Posts
      BY <1>6
    <2> QED BY <1>2, <1>8, <2>1, <2>2 DEF RunType
  <1>10. PICK r \in RunType : r = found(queue)
    BY <1>9
  <1>11. /\ r.there = there /\ r.short = (queue # all) /\ r.children = Len(queue)
         /\ r.rows = <<>> /\ ~r.gap /\ r.windowed
         /\ ~r.exit /\ ~r.stopped /\ r.listed = {} /\ r.todo = <<>> /\ r.paired = 0 /\ r.next = 1
    BY <1>9, <1>10
  <1>12. \/ Is(j, {"thread"}) /\ Becomes(j, [r EXCEPT !.at = "deep"]) /\ UNCHANGED job
         \/ Abort(j)
         \/ Is(j, {"title"}) /\ Chapters(j, r, queue)
    BY <1>3, <1>10
  <1> HIDE DEF found
  <1>13. CASE Is(j, {"thread"}) /\ Becomes(j, [r EXCEPT !.at = "deep"]) /\ UNCHANGED job
    <2> DEFINE e == [r EXCEPT !.at = "deep"]
    <2>1. /\ e \in RunType /\ e.at = "deep" /\ e.rows = <<>> /\ ~e.gap /\ e.windowed
          /\ ~e.exit /\ ~e.stopped /\ e.listed = {} /\ e.todo = <<>> /\ e.paired = 0 /\ e.next = 1
          /\ e.there = there /\ e.short = (queue # all) /\ e.children = Len(queue)
      BY <1>11 DEF RunType, Stages
    <2> HIDE DEF e
    <2>2. Types' /\ SameJob(j) /\ Elsewhere(j) /\ Grows /\ run'[j] = e
      BY <1>1, <1>13, <2>1, StepIs DEF e
    <2>3. /\ \A p \in e.there : p <= online
          /\ ~e.short => \A p \in e.there : job[j].offset < p /\ p <= e.children
      BY <1>5, <1>6, <2>1
    <2> QED BY <1>2, <1>13, <2>1, <2>2, <2>3, LookingKeeps
  <1>14. CASE Abort(j)
    BY <1>1, <1>14, AbortKeeps
  <1>15. CASE Is(j, {"title"}) /\ Chapters(j, r, queue)
    <2> DEFINE named == Slice(queue, from, Cap)
               rows  == [i \in DOMAIN named |-> Row(named[i])]
               e     == [r EXCEPT !.at = "chapter", !.rows = rows]
               more  == Len(queue) > from + Cap
    <2>1. Becomes(j, e) /\ Capped(j, more)
      BY <1>15 DEF Chapters
    <2>2. named \in Seq(Posts)
      BY <1>4, <1>8, SliceIs
    <2>3. queue = all => named = cut
      BY <1>17
    <2> HIDE DEF named
    <2>4. rows \in Seq(RowType) /\ DOMAIN rows = DOMAIN named /\ \A i \in DOMAIN named : rows[i].post = named[i]
      <3>1. \A p \in Posts \cup {0} : Row(p) \in RowType /\ Row(p).post = p
        BY RowIs DEF Row
      <3> QED BY <2>2, <3>1
    <2> HIDE DEF rows
    <2>5. e \in RunType /\ e.at = "chapter" /\ e.rows = rows /\ e.there = there /\ e.short = (queue # all)
      BY <1>11, <2>4 DEF RunType, Stages
    <2> HIDE DEF e
    <2>6. more \in BOOLEAN
      OBVIOUS
    <2>7. Types' /\ SameJob(j) /\ Elsewhere(j) /\ Grows /\ run'[j] = e /\ job'[j].capped = (job[j].capped \/ more)
      BY <1>1, <2>1, <2>5, <2>6, StepIs, BeingCapped
    <2>8. ~job'[j].capped /\ ~e.short => e.there \subseteq RowPosts(j)'
      <3> SUFFICES ASSUME ~more, queue = all, NEW p \in there PROVE p \in RowPosts(j)'
        BY <2>5, <2>7
      <3>1. PICK i \in 1 .. online - from : p = from + i
        BY <1>6
      <3>2. Len(named) \in Nat /\ Len(named) >= online - from
        BY <1>4, <1>5, <1>7, <2>2, <2>3
      <3>3. i \in 1 .. Len(named) /\ i \in DOMAIN named
        BY <1>4, <2>2, <3>1, <3>2
      <3>4. named[i] = p
        BY <1>7, <2>3, <3>1, <3>3
      <3> QED BY <2>4, <2>5, <2>7, <3>3, <3>4 DEF RowPosts
    <2>9. Is(j, {"book", "title"})
      BY <1>15 DEF Is
    <2> QED BY <1>2, <2>5, <2>7, <2>8, <2>9, BookKeeps DEF Resolving
  <1> QED BY <1>12, <1>13, <1>14, <1>15

LEMMA ResolveDeepKeeps ==
    ASSUME Types, NEW j \in Ids, JobInv(j), ResolveDeep(j)
    PROVE  Types' /\ JobInv(j)' /\ Elsewhere(j) /\ Grows
  <1> DEFINE from   == job[j].offset
             window == Slice(Listing("thread"), from, Cap)
             more   == run[j].children > from + Cap
  <1>1. At(j, "deep") /\ UNCHANGED <<online, archive, library, took, missed>>
    BY DEF ResolveDeep
  <1>2. /\ Resolving(j) /\ run[j] \in RunType /\ job[j] \in JobType
        /\ run[j].rows = <<>> /\ ~run[j].gap /\ run[j].windowed
        /\ ~run[j].exit /\ ~run[j].stopped /\ run[j].listed = {} /\ run[j].todo = <<>>
        /\ run[j].paired = 0 /\ run[j].next = 1
    BY <1>1, ResolvingIs
  <1>3. Is(j, {"thread"}) /\ Is(j, Single) /\ Is(j, Many) /\ ~Is(j, {"direct", "search", "pool", "book"})
    BY <1>1 DEF At, JobInv, Staged, Is, Single, Many
  <1>4. PICK named \in Listings(window) :
           \/ named = <<>> /\ Becomes(j, [run[j] EXCEPT !.at = "end"]) /\ UNCHANGED job
           \/ /\ named # <<>>
              /\ Becomes(j, Fetch([run[j] EXCEPT !.gap = named # window], "thread", named, TRUE))
              /\ Capped(j, more)
    BY DEF ResolveDeep, Windowed
  <1>5. /\ from \in Nat /\ Cap \in Nat /\ Cap > 0 /\ online \in Nat /\ "thread" \in Kinds \ {"direct"}
        /\ run[j].children \in Nat
    BY <1>2, DownloadsAssumption DEF JobType, RunType, Types, Kinds
  <1>6. /\ window \in Seq(Posts) /\ Len(window) <= Cap
        /\ from + Len(window) <= online \/ window = <<>>
        /\ Len(window) = Cap \/ Len(window) >= online - from
        /\ \A i \in 1 .. Len(window) : window[i] = from + i
    <2>1. PICK k \in Kinds \ {"direct"} : k = "thread"
      BY DEF Kinds
    <2>3. from \in Nat /\ Cap \in Nat /\ k \in Kinds \ {"direct"}
      BY <1>5
    <2> HIDE DEF from, window
    <2>2. /\ Slice(Listing(k), from, Cap) \in Seq(Posts) /\ Len(Slice(Listing(k), from, Cap)) <= Cap
          /\ from + Len(Slice(Listing(k), from, Cap)) <= online \/ Slice(Listing(k), from, Cap) = <<>>
          /\ Len(Slice(Listing(k), from, Cap)) = Cap \/ Len(Slice(Listing(k), from, Cap)) >= online - from
          /\ \A i \in 1 .. Len(Slice(Listing(k), from, Cap)) :
                Slice(Listing(k), from, Cap)[i] = IF k = "search" THEN online + 1 - from - i ELSE from + i
      BY <2>3, WindowIs
    <2> QED BY <2>1, <2>2 DEF window
  <1> HIDE DEF window
  <1>7. /\ named \in Seq(Posts) /\ Len(named) <= Len(window)
        /\ \A i \in 1 .. Len(named) : named[i] = window[i]
        /\ named = window \/ named # <<>>
    BY <1>6, ListingsAre
  <1>8. ~job[j].capped /\ ~run[j].short =>
           \A p \in run[j].there : p \in Posts /\ p <= online /\ from < p /\ p <= run[j].children
    BY <1>1, <1>2, <1>3 DEF JobInv, Covered, At, RunType, Is
  <1>9. CASE named = <<>> /\ Becomes(j, [run[j] EXCEPT !.at = "end"]) /\ UNCHANGED job
    <2> DEFINE e == [run[j] EXCEPT !.at = "end"]
    <2>1. e \in RunType /\ e.at = "end" /\ e.rows = <<>> /\ e.there = run[j].there /\ e.short = run[j].short
      BY <1>2 DEF RunType, Stages
    <2> HIDE DEF e
    <2>2. Types' /\ SameJob(j) /\ Elsewhere(j) /\ Grows /\ run'[j] = e /\ job' = job
      BY <1>1, <1>9, <2>1, StepIs DEF e
    <2>3. online <= from
      BY <1>5, <1>6, <1>7, <1>9
    <2>4. ~job'[j].capped /\ ~e.short => e.there = {}
      BY <1>5, <1>8, <2>1, <2>2, <2>3 DEF Posts
    <2> QED BY <1>2, <2>1, <2>2, <2>4, EmptyKeeps
  <1>10. CASE /\ named # <<>>
              /\ Becomes(j, Fetch([run[j] EXCEPT !.gap = named # window], "thread", named, TRUE))
              /\ Capped(j, more)
    <2> DEFINE r == [run[j] EXCEPT !.gap = named # window]
               e == Fetch(r, "thread", named, TRUE)
    <2>1. (named # window) \in BOOLEAN /\ more \in BOOLEAN
      <3>1. (named # window) \in BOOLEAN
        BY Zenon
      <3> QED BY <3>1
    <2>2. /\ r \in RunType /\ r.gap = (named # window) /\ r.there = run[j].there /\ r.short = run[j].short
          /\ ~r.exit /\ ~r.stopped /\ r.listed = {} /\ r.todo = <<>> /\ r.paired = 0 /\ r.next = 1
      BY <1>2, <2>1 DEF RunType
    <2> HIDE DEF r
    <2>3. PICK w \in BOOLEAN : w = TRUE
      BY Zenon
    <2>4. e = Fetch(r, "thread", named, w)
      BY <2>3
    <2> HIDE DEF e
    <2>5. /\ e \in RunType /\ e.named = named /\ e.windowed = w /\ e.at = "launch"
          /\ Len(e.rows) = Len(named)
          /\ \A i \in 1 .. Len(named) : e.rows[i] = Row(named[i])
          /\ e.there = r.there /\ e.short = r.short /\ e.gap = r.gap /\ e.exit = r.exit
          /\ e.stopped = r.stopped /\ e.listed = r.listed /\ e.todo = r.todo
          /\ e.paired = r.paired /\ e.next = r.next
      BY <1>5, <1>7, <2>2, <2>4, FetchIs
    <2>6. Types' /\ SameJob(j) /\ Elsewhere(j) /\ Grows /\ run'[j] = e /\ job'[j].capped = (job[j].capped \/ more)
      BY ZenonT(40), <1>1, <1>10, <2>1, <2>5, StepIs, BeingCapped DEF e, r
    <2>7. Stretch(j)'
      <3>1. Base(j)' = from
        BY <2>3, <2>5, <2>6 DEF Base, SameJob
      <3>2. from + Len(named) <= online
        BY <1>5, <1>6, <1>7, <1>10
      <3>3. PICK n \in 0 .. online : n = online
        BY <1>5
      <3>4. \A i \in 1 .. Len(named) : named[i] = Nth(j, n, i)'
        BY <1>3, <1>6, <1>7, <2>6, <3>1 DEF Nth, Is, SameJob
      <3>5. online' = online /\ run'[j].named = named /\ Base(j)' + Len(named) <= n
        BY <2>5, <2>6, <3>1, <3>2, <3>3 DEF SameJob
      <3> QED BY <3>4, <3>5 DEF Stretch
    <2>8. ~job'[j].capped /\ ~e.short =>
             \A p \in e.there : p \in Posts /\ p <= online /\ from < p /\ p <= from + Cap
      <3> SUFFICES ASSUME ~job'[j].capped, ~e.short, NEW p \in e.there
                   PROVE  p \in Posts /\ p <= online /\ from < p /\ p <= from + Cap
        OBVIOUS
      <3>1. ~job[j].capped /\ ~more /\ ~run[j].short /\ p \in run[j].there
        BY <2>2, <2>5, <2>6
      <3>2. p \in Posts /\ p <= online /\ from < p /\ p <= run[j].children
        BY <1>8, <3>1
      <3>3. p \in Nat
        BY <3>2, DownloadsAssumption DEF Posts
      <3> QED BY <1>5, <3>1, <3>2, <3>3
    <2>9. ASSUME ~e.gap, NEW p \in Posts, p <= online, from < p, p <= from + Cap
          PROVE  p \in RowPosts(j)'
      <3>1. named = window
        BY <2>2, <2>5, <2>9
      <3>2. p - from \in 1 .. Len(named) /\ named[p - from] = p
        BY SMTT(30), <1>5, <1>6, <2>9, <3>1 DEF Posts
      <3>3. e.rows[p - from] = Row(p) /\ p - from \in 1 .. Len(e.rows) /\ e.rows \in Seq(RowType)
        BY <2>5, <3>2 DEF RunType
      <3>4. p - from \in DOMAIN e.rows /\ e.rows[p - from].post = p
        BY <3>3 DEF Row
      <3> QED BY <2>6, <3>4 DEF RowPosts
    <2>10. Len(named) <= Cap
      BY <1>5, <1>6, <1>7
    <2>11. /\ e.named # <<>> /\ Len(e.named) <= Cap /\ e.windowed
           /\ ~e.exit /\ ~e.stopped /\ e.listed = {} /\ e.todo = <<>> /\ e.paired = 0 /\ e.next = 1
           /\ Len(e.rows) = Len(e.named) /\ \A i \in 1 .. Len(e.named) : e.rows[i] = Row(e.named[i])
      BY <1>10, <2>2, <2>3, <2>5, <2>10
    <2>12. ~job'[j].capped /\ ~e.short =>
              /\ \A p \in e.there : p <= online
              /\ e.gap \/ e.there \subseteq RowPosts(j)'
              /\ \A p \in e.there : from < p /\ p <= from + Cap
      BY <2>8, <2>9
    <2>13. ~Is(j, {"direct"}) /\ ~Is(j, {"pool"}) /\ Is(j, {"pool", "thread"})
      BY <1>3 DEF Is
    <2> QED BY <1>2, <1>3, <2>5, <2>6, <2>7, <2>11, <2>12, <2>13, LaunchingKeeps
  <1> QED BY <1>4, <1>9, <1>10

LEMMA ResolveDirectKeeps ==
    ASSUME Types, NEW j \in Ids, JobInv(j), ResolveDirect(j)
    PROVE  Types' /\ JobInv(j)' /\ Elsewhere(j) /\ Grows
  <1>1. At(j, "resolve") /\ UNCHANGED <<online, archive, library, took, missed>>
    BY DEF ResolveDirect
  <1>2. /\ Resolving(j) /\ run[j] \in RunType /\ job[j] \in JobType
        /\ run[j].rows = <<>> /\ ~run[j].gap /\ run[j].windowed
        /\ ~run[j].exit /\ ~run[j].stopped /\ run[j].listed = {} /\ run[j].todo = <<>>
        /\ run[j].paired = 0 /\ run[j].next = 1
    BY <1>1, ResolvingIs
  <1>3. Is(j, {"direct"}) /\ Is(j, Single) /\ ~Is(j, Many) /\ ~Is(j, {"pool", "thread"})
    BY DEF ResolveDirect, Is, Single, Many
  <1>4. \/ Abort(j)
        \/ /\ UNCHANGED job
           /\ Becomes(j, Fetch([run[j] EXCEPT !.there = {1}], "direct", << 1 >>, TRUE))
    BY DEF ResolveDirect
  <1>5. CASE /\ UNCHANGED job
             /\ Becomes(j, Fetch([run[j] EXCEPT !.there = {1}], "direct", << 1 >>, TRUE))
    <2> DEFINE r == [run[j] EXCEPT !.there = {1}]
               e == Fetch(r, "direct", << 1 >>, TRUE)
    <2>1. 1 \in Posts /\ online \in Nat /\ "direct" \in Kinds
      BY DownloadsAssumption DEF Posts, Types, Kinds
    <2>2. /\ r \in RunType /\ r.there = {1} /\ ~r.gap
          /\ ~r.exit /\ ~r.stopped /\ r.listed = {} /\ r.todo = <<>> /\ r.paired = 0 /\ r.next = 1
      BY <1>2, <2>1 DEF RunType
    <2> HIDE DEF r
    <2>3. PICK w \in BOOLEAN : w = TRUE
      BY Zenon
    <2> DEFINE one == << 1 >>
    <2>4. e = Fetch(r, "direct", one, w) /\ one \in Seq(Posts) /\ Len(one) = 1 /\ one[1] = 1
      BY <2>1, <2>3
    <2> HIDE DEF e, one
    <2>5. /\ e \in RunType /\ e.named = one /\ e.windowed = w /\ e.at = "launch"
          /\ Len(e.rows) = Len(one)
          /\ \A i \in 1 .. Len(one) : e.rows[i] = Row(one[i])
          /\ e.there = r.there /\ e.short = r.short /\ e.gap = r.gap /\ e.exit = r.exit
          /\ e.stopped = r.stopped /\ e.listed = r.listed /\ e.todo = r.todo
          /\ e.paired = r.paired /\ e.next = r.next
      BY <2>1, <2>2, <2>4, FetchIs
    <2>6. Types' /\ SameJob(j) /\ Elsewhere(j) /\ Grows /\ run'[j] = e /\ job' = job
      BY <1>1, <1>5, <2>5, StepIs DEF e, r
    <2>7. 1 \in RowPosts(j)'
      <3>1. e.rows[1] = Row(1) /\ 1 \in 1 .. Len(e.rows) /\ e.rows \in Seq(RowType)
        BY <2>4, <2>5 DEF RunType
      <3>2. 1 \in DOMAIN e.rows /\ e.rows[1].post = 1
        BY <3>1 DEF Row
      <3> QED BY <2>6, <3>2 DEF RowPosts
    <2>8. /\ e.named = << 1 >> /\ e.named # <<>> /\ Len(e.rows) = Len(e.named)
          /\ \A i \in 1 .. Len(e.named) : e.rows[i] = Row(e.named[i])
          /\ ~e.exit /\ ~e.stopped /\ e.listed = {} /\ e.todo = <<>> /\ e.paired = 0 /\ e.next = 1
          /\ e.there = {1} /\ ~e.gap
      <3>1. e.named = << 1 >> /\ e.named # <<>>
        BY <2>5 DEF one
      <3> QED BY <2>2, <2>5, <3>1
    <2> QED BY <1>2, <1>3, <2>5, <2>6, <2>7, <2>8, LaunchingKeeps
  <1> QED BY <1>1, <1>4, <1>5, AbortKeeps

-----------------------------------------------------------------------------
(* Lines and rows *)

\* A set of numbers has a least one.
LEMMA LeastIs ==
    ASSUME NEW T \in SUBSET Nat, T # {}
    PROVE  \E x \in T : \A y \in T : x <= y
  <1>1. IsWellFoundedOn({ss \in Nat \X Nat : ss[1] < ss[2]}, Nat)
    BY NatLessThanWellFounded DEF OpToRel
  <1>2. PICK x \in T : \A y \in T : <<y, x>> \notin {ss \in Nat \X Nat : ss[1] < ss[2]}
    BY <1>1, WFMin
  <1>3. \A y \in T : x <= y
    <2> SUFFICES ASSUME NEW y \in T, y < x PROVE FALSE
      BY SMT
    <2> QED BY <1>2
  <1> QED BY <1>3

\* One line more: for a row it may still be about, or for none.
LinedUp(r, f, line, n) ==
    /\ n \in 1 .. Len(f.entries) /\ f.entries[n] = line
    /\ \A i \in 1 .. Len(r.entries) : i # n => f.entries[i] = r.entries[i]
    /\ \/ /\ n \in r.paired + 1 .. Len(r.named) /\ f.paired = n
          /\ Len(f.entries) = Len(r.entries)
          /\ line.post # 0 => r.named[n] = line.post
          /\ line.post = 0 => n = r.paired + 1
       \/ /\ n = Len(r.entries) + 1 /\ Len(f.entries) = n /\ f.paired = r.paired
          /\ line.post = 0 => r.paired = Len(r.named)
          /\ line.post # 0 => \A i \in r.paired + 1 .. Len(r.named) : r.named[i] # line.post

LEMMA RowOfIs ==
    ASSUME NEW r \in RunType, r.paired <= Len(r.named), NEW line \in LineType
    PROVE  \/ /\ RowOf(r, line) \in r.paired + 1 .. Len(r.named)
              /\ line.post # 0 => r.named[RowOf(r, line)] = line.post
              /\ line.post = 0 => RowOf(r, line) = r.paired + 1
           \/ /\ RowOf(r, line) = 0
              /\ line.post = 0 => r.paired = Len(r.named)
              /\ line.post # 0 => \A i \in r.paired + 1 .. Len(r.named) : r.named[i] # line.post
  <1>1. r.paired \in Nat /\ r.named \in Seq(Nat) /\ Len(r.named) \in Nat
    BY DEF RunType
  <1>2. CASE line.post = 0
    BY <1>1, <1>2 DEF RowOf
  <1>3. CASE line.post # 0
    <2> DEFINE rows == {i \in r.paired + 1 .. Len(r.named) : r.named[i] = line.post}
    <2>1. RowOf(r, line) = IF rows = {} THEN 0 ELSE CHOOSE i \in rows : \A k \in rows : i <= k
      BY <1>3 DEF RowOf
    <2>2. rows \in SUBSET Nat
      BY <1>1
    <2>3. CASE rows = {}
      BY <1>3, <2>1, <2>3
    <2>4. CASE rows # {}
      <3>1. \E x \in rows : \A y \in rows : x <= y
        <4> HIDE DEF rows
        <4> QED BY <2>2, <2>4, LeastIs
      <3>2. RowOf(r, line) \in rows
        <4> HIDE DEF rows
        <4> QED BY <2>1, <2>4, <3>1
      <3> QED BY <1>3, <3>2
    <2> QED BY <2>3, <2>4
  <1> QED BY <1>2, <1>3

LEMMA PairLineIs ==
    ASSUME NEW r \in RunType, Len(r.named) <= Len(r.entries), r.paired <= Len(r.named),
           NEW line \in LineType, NEW f, f = PairLine(r, line)
    PROVE  /\ f \in RunType /\ f = [r EXCEPT !.entries = f.entries, !.paired = f.paired]
           /\ f.entries \in Seq(LineType) /\ f.paired \in Nat
           /\ \E n \in Nat : LinedUp(r, f, line, n)
  <1>1. /\ r.paired \in Nat /\ r.named \in Seq(Nat) /\ Len(r.named) \in Nat
        /\ r.entries \in Seq(LineType) /\ Len(r.entries) \in Nat
    BY DEF RunType
  <1>2. PICK row : row = RowOf(r, line)
    OBVIOUS
  <1>3. \/ /\ row \in r.paired + 1 .. Len(r.named)
           /\ line.post # 0 => r.named[row] = line.post
           /\ line.post = 0 => row = r.paired + 1
        \/ /\ row = 0
           /\ line.post = 0 => r.paired = Len(r.named)
           /\ line.post # 0 => \A i \in r.paired + 1 .. Len(r.named) : r.named[i] # line.post
    BY <1>2, RowOfIs
  <1>4. CASE row # 0
    <2> DEFINE entries == [r.entries EXCEPT ![row] = line]
    <2>1. f = [r EXCEPT !.entries = entries, !.paired = row]
      BY <1>2, <1>4 DEF PairLine
    <2>2. row \in Nat /\ row \in 1 .. Len(r.entries)
      BY <1>1, <1>3, <1>4
    <2>3. /\ entries \in Seq(LineType) /\ Len(entries) = Len(r.entries) /\ entries[row] = line
          /\ \A i \in 1 .. Len(r.entries) : i # row => entries[i] = r.entries[i]
      <3> DEFINE es == r.entries
      <3>1. es \in Seq(LineType)
        BY <1>1
      <3> HIDE DEF es, LineType
      <3> QED BY <2>2, <3>1 DEF es
    <2> HIDE DEF entries
    <2>4. f \in RunType /\ f.entries = entries /\ f.paired = row
      BY <2>1, <2>2, <2>3 DEF RunType
    <2>5. LinedUp(r, f, line, row)
      BY <1>1, <1>3, <1>4, <2>2, <2>3, <2>4 DEF LinedUp
    <2> QED BY <2>1, <2>2, <2>3, <2>4, <2>5
  <1>5. CASE row = 0
    <2> DEFINE entries == Append(r.entries, line)
    <2>1. f = [r EXCEPT !.entries = entries]
      BY <1>2, <1>5 DEF PairLine
    <2>2. /\ entries \in Seq(LineType) /\ Len(entries) = Len(r.entries) + 1
          /\ entries[Len(r.entries) + 1] = line
          /\ \A i \in 1 .. Len(r.entries) : entries[i] = r.entries[i]
      <3> DEFINE es == r.entries
      <3>1. es \in Seq(LineType)
        BY <1>1
      <3> HIDE DEF es, LineType
      <3> QED BY <3>1 DEF es
    <2> HIDE DEF entries
    <2>3. f \in RunType /\ f.entries = entries /\ f.paired = r.paired
      BY <2>1, <2>2 DEF RunType
    <2>4. f = [r EXCEPT !.entries = f.entries, !.paired = f.paired]
      BY <2>1, <2>3 DEF RunType
    <2>5. LinedUp(r, f, line, Len(r.entries) + 1)
      BY <1>1, <1>3, <1>5, <2>2, <2>3 DEF LinedUp
    <2> QED BY <1>1, <2>2, <2>3, <2>4, <2>5
  <1> QED BY <1>4, <1>5

LEMMA PostIs == ASSUME NEW s, NEW i \in DOMAIN s PROVE s[i] \in PostsOf(s)
  BY DEF PostsOf

\* The first of a sequence of posts, and the others.
LEMMA TodoIs ==
    ASSUME NEW s \in Seq(Posts), s # <<>>
    PROVE  /\ Head(s) \in Posts /\ Head(s) = s[1] /\ Tail(s) \in Seq(Posts)
           /\ Len(s) \in Nat \ {0} /\ Len(Tail(s)) = Len(s) - 1
           /\ \A i \in 1 .. Len(s) - 1 : Tail(s)[i] = s[i + 1]
           /\ PostsOf(s) = {Head(s)} \cup PostsOf(Tail(s))
           /\ PostsOf(s) \subseteq Posts
  <1>1. /\ Head(s) \in Posts /\ Head(s) = s[1] /\ Tail(s) \in Seq(Posts)
        /\ Len(s) \in Nat \ {0} /\ Len(Tail(s)) = Len(s) - 1
        /\ \A i \in 1 .. Len(s) - 1 : Tail(s)[i] = s[i + 1]
    OBVIOUS
  <1>2. ASSUME NEW p \in PostsOf(s) PROVE p \in Posts /\ (p = Head(s) \/ p \in PostsOf(Tail(s)))
    <2>1. PICK i \in 1 .. Len(s) : p = s[i]
      BY <1>2 DEF PostsOf
    <2>2. CASE i = 1
      BY <1>1, <2>1, <2>2
    <2>3. CASE i # 1
      <3>1. i - 1 \in 1 .. Len(Tail(s)) /\ Tail(s)[i - 1] = p
        BY <1>1, <2>1, <2>3
      <3>2. i - 1 \in DOMAIN Tail(s)
        BY <1>1, <3>1
      <3>3. Tail(s)[i - 1] \in PostsOf(Tail(s))
        BY <3>2, PostIs
      <3> QED BY <3>1, <3>3
    <2> QED BY <2>2, <2>3
  <1>3. Head(s) \in PostsOf(s)
    BY <1>1 DEF PostsOf
  <1>4. ASSUME NEW p \in PostsOf(Tail(s)) PROVE p \in PostsOf(s)
    <2>1. PICK i \in 1 .. Len(Tail(s)) : p = Tail(s)[i]
      BY <1>1, <1>4 DEF PostsOf
    <2>2. i + 1 \in 1 .. Len(s) /\ s[i + 1] = p
      BY <1>1, <2>1
    <2> QED BY <2>2 DEF PostsOf
  <1> QED BY <1>1, <1>2, <1>3, <1>4

-----------------------------------------------------------------------------
(* The download *)

LEMMA BeforeIs ==
    ASSUME NEW j \in Ids, NEW p \in Posts, NEW q \in Posts, Before(j, p, q)
    PROVE  p # q /\ ~Before(j, q, p)
  BY DownloadsAssumption DEF Before, Posts

\* The rows are in the source's order, each about a post of its own.
LEMMA NamedIsInOrder ==
    ASSUME Types, NEW j \in Ids, JobInv(j), Is(j, Many),
           run[j].at \in {"whole", "launch", "download", "push"},
           NEW i \in 1 .. Len(run[j].named), NEW k \in 1 .. Len(run[j].named), i < k
    PROVE  Before(j, run[j].named[i], run[j].named[k])
  <1>1. Stretch(j) /\ run[j].named \in Seq(Nat)
    BY DEF JobInv, Named, Types, RunType
  <1>2. PICK n \in 0 .. online :
           \A x \in 1 .. Len(run[j].named) : run[j].named[x] = Nth(j, n, x)
    BY <1>1 DEF Stretch
  <1>3. Base(j) \in Nat /\ n \in Nat
    BY DownloadsAssumption DEF Base, Types, JobType
  <1>4. Len(run[j].named) \in Nat
    BY <1>1
  <1> QED BY <1>2, <1>3, <1>4 DEF Nth, Before

\* A run that takes posts one by one, while it downloads.
LEMMA DownloadingIs ==
    ASSUME Types, NEW j \in Ids, JobInv(j), At(j, "download"), run[j].todo # <<>>
    PROVE  /\ job[j].status = "running" /\ run[j].at = "download" /\ run[j] \in RunType
           /\ Is(j, Many) /\ Is(j, Single) /\ ~Is(j, {"direct"}) /\ ~Is(j, {"book", "title"})
           /\ ~run[j].stopped /\ run[j].named \in Seq(Posts) /\ run[j].named # <<>>
           /\ Len(run[j].named) \in Nat /\ Len(run[j].entries) \in Nat /\ run[j].paired \in Nat
           /\ Len(run[j].named) <= Len(run[j].entries) /\ run[j].paired <= Len(run[j].named)
           /\ run[j].todo \in Seq(Posts) /\ PostsOf(run[j].todo) \subseteq run[j].listed
           /\ \A i \in 1 .. Len(run[j].rows) : run[j].rows[i].outcome = "pending"
  <1>1. job[j].status = "running" /\ run[j].at = "download" /\ run[j] \in RunType
    BY DEF At, Types
  <1>2. Is(j, Single)
    BY <1>1 DEF JobInv, Staged
  <1>3. ~Is(j, {"direct"})
    BY <1>1 DEF JobInv, Lines
  <1>4. Is(j, Many) /\ ~Is(j, {"book", "title"})
    BY <1>2, <1>3 DEF Is, Single, Many
  <1>5. run[j].named \in Seq(Posts)
    BY <1>1, <1>4, NamedArePosts
  <1>6. run[j].named # <<>>
    BY <1>1 DEF JobInv, Named
  <1>7. PostsOf(run[j].todo) \subseteq run[j].listed /\ ~run[j].stopped
    BY <1>1, <1>4 DEF JobInv, Ordered
  <1>8. Len(run[j].named) <= Len(run[j].entries) /\ run[j].paired <= Len(run[j].named)
    BY <1>1 DEF JobInv, Lines
  <1>9. /\ run[j].todo \in Seq(Posts) /\ Len(run[j].named) \in Nat
        /\ Len(run[j].entries) \in Nat /\ run[j].paired \in Nat
    <2>1. run[j].todo \in Seq(Posts) /\ run[j].paired \in Nat /\ run[j].entries \in Seq(LineType)
      BY <1>1 DEF RunType
    <2> QED BY <1>5, <2>1
  <1>10. \A i \in 1 .. Len(run[j].rows) : run[j].rows[i].outcome = "pending"
    <2>1. /\ Len(run[j].rows) = Len(run[j].named)
          /\ \A i \in 1 .. Len(run[j].named) : run[j].rows[i] = Row(run[j].named[i])
      BY <1>1, <1>2 DEF JobInv, Rows
    <2>2. \A q : Row(q).outcome = "pending"
      BY DEF Row
    <2> QED BY <2>1, <2>2
  <1> QED BY <1>1, <1>2, <1>3, <1>4, <1>5, <1>6, <1>7, <1>8, <1>9, <1>10

\* A run that is past its first post, in nothing else changed but its lines.
SameRun(r, f) ==
    /\ f.at = r.at /\ f.rows = r.rows /\ f.named = r.named /\ f.there = r.there
    /\ f.short = r.short /\ f.gap = r.gap /\ f.windowed = r.windowed /\ f.listed = r.listed
    /\ f.next = r.next

\* The download goes on in order.
LEMMA GoesOnInOrder ==
    ASSUME Types, NEW j \in Ids, JobInv(j), At(j, "download"), run[j].todo # <<>>,
           NEW f \in RunType, run'[j] = f, SameRun(run[j], f), f.exit \/ ~run[j].exit,
           job' = job, online' = online,
           f.todo = IF f.stopped THEN <<>> ELSE Tail(run[j].todo)
    PROVE  /\ Staged(j)' /\ Named(j)' /\ Ordered(j)' /\ Rows(j)' /\ True(j)' /\ Good(j)'
           /\ ~f.stopped => Passed(j)' = Passed(j) \cup {Head(run[j].todo)}
           /\ f.stopped => Passed(j)' = f.listed
           /\ Head(run[j].todo) \in Posts /\ Head(run[j].todo) \in run[j].listed
           /\ Head(run[j].todo) \notin Passed(j)
           /\ ~run[j].exit => \A q \in PostsOf(run[j].todo) :
                                 q = Head(run[j].todo) \/ Before(j, Head(run[j].todo), q)
  <1> DEFINE todo == run[j].todo
             p    == Head(todo)
             rest == Tail(todo)
  <1>1. /\ job[j].status = "running" /\ run[j].at = "download" /\ run[j] \in RunType
        /\ Is(j, Many) /\ Is(j, Single)
        /\ todo \in Seq(Posts) /\ PostsOf(todo) \subseteq run[j].listed
        /\ \A i \in 1 .. Len(run[j].rows) : run[j].rows[i].outcome = "pending"
    BY DownloadingIs
  <1>2. /\ p \in Posts /\ p = todo[1] /\ rest \in Seq(Posts)
        /\ Len(todo) \in Nat \ {0} /\ Len(rest) = Len(todo) - 1
        /\ \A i \in 1 .. Len(todo) - 1 : rest[i] = todo[i + 1]
        /\ PostsOf(todo) = {p} \cup PostsOf(rest)
    <2> HIDE DEF todo
    <2>1. todo \in Seq(Posts) /\ todo # <<>>
      BY <1>1 DEF todo
    <2> QED BY <2>1, TodoIs
  <1>3. \A i, k \in 1 .. Len(todo) : i < k => Before(j, todo[i], todo[k])
    BY <1>1 DEF JobInv, Ordered
  <1>4. f.todo = IF f.stopped THEN <<>> ELSE rest
    OBVIOUS
  <1>5. p \in run[j].listed
    BY <1>1, <1>2
  <1> HIDE DEF todo, p, rest
  <1>6. \A i \in 1 .. Len(todo) : todo[i] \in Posts
    BY <1>1 DEF todo
  <1>7. p \notin PostsOf(rest)
    <2> SUFFICES ASSUME p \in PostsOf(rest) PROVE FALSE
      OBVIOUS
    <2>1. PICK i \in 1 .. Len(rest) : rest[i] = p
      BY <1>2 DEF PostsOf
    <2>2. i + 1 \in 1 .. Len(todo) /\ 1 \in 1 .. Len(todo) /\ 1 < i + 1 /\ todo[i + 1] = p /\ todo[1] = p
      BY <1>2, <2>1
    <2>3. Before(j, todo[1], todo[i + 1])
      BY <1>3, <2>2
    <2> QED BY <1>2, <2>2, <2>3, BeforeIs
  <1>8. run'[j].at = "download" /\ job'[j] = job[j] /\ run'[j].rows = run[j].rows
    BY <1>1 DEF SameRun
  <1>9. Staged(j)'
    BY <1>1, <1>8 DEF Staged, Is
  <1>10. Named(j)'
    <2>1. Stretch(j) => Stretch(j)'
      BY <1>8 DEF Stretch, Nth, Base, Is, SameRun
    <2> QED BY <1>1, <1>8, <2>1 DEF JobInv, Named, Is, SameRun
  <1>11. Ordered(j)'
    <2>1. CASE f.stopped
      <3>1. f.todo = <<>> /\ PostsOf(f.todo) = {}
        BY <1>4, <2>1 DEF PostsOf
      <3>2. ~f.exit => \A i, k \in 1 .. Len(f.named) :
                          i < k /\ f.named[k] \in f.listed => f.named[i] \in f.listed
        BY <1>1 DEF JobInv, Ordered, SameRun
      <3>3. PostsOf(f.todo) \subseteq f.listed /\ (f.stopped => f.todo = <<>>)
        BY <3>1
      <3>4. Len(f.todo) = 0
        BY <3>1
      <3>5. \A i \in 1 .. 0 : FALSE
        OBVIOUS
      <3>6. \A i \in 1 .. Len(f.todo) : FALSE
        BY <3>4, <3>5, Zenon
      <3> QED BY <3>2, <3>3, <3>6 DEF Ordered
    <2>2. CASE ~f.stopped
      <3>1. f.todo = rest /\ f.listed = run[j].listed /\ f.named = run[j].named
        BY <1>4, <2>2 DEF SameRun
      <3>2. PostsOf(rest) \subseteq f.listed
        BY <1>1, <1>2, <3>1 DEF todo
      <3>3. \A i, k \in 1 .. Len(rest) : i < k => Before(j, rest[i], rest[k])
        <4> SUFFICES ASSUME NEW i \in 1 .. Len(rest), NEW k \in 1 .. Len(rest), i < k
                     PROVE  Before(j, rest[i], rest[k])
          OBVIOUS
        <4>1. /\ i + 1 \in 1 .. Len(todo) /\ k + 1 \in 1 .. Len(todo) /\ i + 1 < k + 1
              /\ rest[i] = todo[i + 1] /\ rest[k] = todo[k + 1]
          BY <1>2
        <4> QED BY <1>3, <4>1
      <3>4. ~f.exit =>
               /\ \A i, k \in 1 .. Len(f.named) :
                     i < k /\ f.named[k] \in f.listed => f.named[i] \in f.listed
               /\ \A q \in f.listed, i \in 1 .. Len(rest) : q \in PostsOf(rest) \/ Before(j, q, rest[i])
        <4> SUFFICES ASSUME ~run[j].exit
                     PROVE  /\ \A i, k \in 1 .. Len(f.named) :
                                  i < k /\ f.named[k] \in f.listed => f.named[i] \in f.listed
                            /\ \A q \in f.listed, i \in 1 .. Len(rest) : q \in PostsOf(rest) \/ Before(j, q, rest[i])
          OBVIOUS
        <4>1. \A i, k \in 1 .. Len(f.named) : i < k /\ f.named[k] \in f.listed => f.named[i] \in f.listed
          BY <1>1, <3>1 DEF JobInv, Ordered
        <4>2. \A q \in f.listed, i \in 1 .. Len(todo) : q \in PostsOf(todo) \/ Before(j, q, todo[i])
          BY <1>1, <3>1 DEF JobInv, Ordered, todo
        <4>3. ASSUME NEW q \in f.listed, NEW i \in 1 .. Len(rest), q \notin PostsOf(rest)
              PROVE  Before(j, q, rest[i])
          <5>1. i + 1 \in 1 .. Len(todo) /\ 1 \in 1 .. Len(todo) /\ 1 < i + 1 /\ rest[i] = todo[i + 1]
            BY <1>2
          <5>2. CASE q = p
            BY <1>2, <1>3, <5>1, <5>2
          <5>3. CASE q # p
            BY <1>2, <4>2, <4>3, <5>1, <5>3
          <5> QED BY <5>2, <5>3
        <4> QED BY <4>1, <4>3
      <3> QED BY <1>8, <2>2, <3>1, <3>2, <3>3, <3>4 DEF Ordered, Before, Is
    <2> QED BY <2>1, <2>2
  <1>12. Rows(j)'
    BY <1>1, <1>8 DEF JobInv, Rows, SameRun, Is
  <1>13. True(j)'
    BY <1>1, <1>8 DEF True
  <1>14. Good(j)'
    BY <1>1, <1>8 DEF Good
  <1>15. ~f.stopped => Passed(j)' = Passed(j) \cup {p}
    BY <1>2, <1>4, <1>5, <1>7 DEF Passed, SameRun, todo
  <1>16. f.stopped => Passed(j)' = f.listed
    BY <1>4 DEF Passed, PostsOf
  <1>17. p \notin Passed(j)
    BY <1>2 DEF Passed, todo
  <1>18. \A q \in PostsOf(todo) : q = p \/ Before(j, p, q)
    <2> SUFFICES ASSUME NEW q \in PostsOf(todo), q # p PROVE Before(j, p, q)
      OBVIOUS
    <2>1. PICK i \in 1 .. Len(todo) : q = todo[i]
      BY <1>1 DEF PostsOf, todo
    <2>2. i # 1 /\ 1 \in 1 .. Len(todo) /\ 1 < i
      BY <1>2, <2>1
    <2> QED BY <1>2, <1>3, <2>1, <2>2
  <1> QED BY <1>2, <1>5, <1>9, <1>10, <1>11, <1>12, <1>13, <1>14, <1>15, <1>16, <1>17, <1>18 DEF todo, p

\* A line is printed, and what it is about recorded.
LEMMA LineKeeps ==
    ASSUME Types, NEW j \in Ids, JobInv(j), At(j, "download"), run[j].todo # <<>>,
           NEW p, p = Head(run[j].todo), NEW line \in LineType,
           \/ line.post = p /\ line.what \in {"skip", "file"}
           \/ line.post = 0 /\ line.what \in {"nameless", "unreadable"},
           NEW f \in RunType, run'[j] = f, SameRun(run[j], f), f.exit = run[j].exit,
           f.todo = IF f.stopped THEN <<>> ELSE Tail(run[j].todo),
           NEW n \in Nat, LinedUp(run[j], f, line, n),
           f.stopped => line.what \in Skips /\ ArchiveMode(j) = "catchUp",
           line.what \in Skips => p \in archive /\ ArchiveMode(j) # "bypass",
           UNCHANGED <<online, library, job, missed>>, archive \subseteq archive',
           took'[j] \subseteq archive', took'[j] \subseteq took[j] \cup {p},
           line.what \in Skips => took'[j] = took[j],
           ArchiveMode(j) # "bypass" => p \in archive'
    PROVE  JobInv(j)'
  <1> DEFINE r == run[j]
  <1>1. /\ job[j].status = "running" /\ r.at = "download" /\ r \in RunType
        /\ Is(j, Many) /\ Is(j, Single) /\ ~Is(j, {"direct"}) /\ ~Is(j, {"book", "title"})
        /\ ~r.stopped /\ r.named \in Seq(Posts) /\ r.named # <<>>
        /\ Len(r.named) \in Nat /\ Len(r.entries) \in Nat /\ r.paired \in Nat
        /\ Len(r.named) <= Len(r.entries) /\ r.paired <= Len(r.named)
        /\ PostsOf(r.todo) \subseteq r.listed
    BY DownloadingIs
  <1>2. f.exit \/ ~r.exit
    BY DEF RunType
  <1>3. /\ Staged(j)' /\ Named(j)' /\ Ordered(j)' /\ Rows(j)' /\ True(j)' /\ Good(j)'
        /\ ~f.stopped => Passed(j)' = Passed(j) \cup {p}
        /\ f.stopped => Passed(j)' = f.listed
        /\ p \in Posts /\ p \in r.listed /\ p \notin Passed(j)
        /\ ~r.exit => \A q \in PostsOf(r.todo) : q = p \/ Before(j, p, q)
    BY <1>2, GoesOnInOrder
  <1>4. p # 0
    BY <1>3, DownloadsAssumption DEF Posts
  <1>5. /\ f.at = "download" /\ f.named = r.named /\ f.rows = r.rows /\ f.there = r.there
        /\ f.short = r.short /\ f.gap = r.gap /\ f.listed = r.listed
    BY <1>1 DEF SameRun
  <1>6. ArchiveMode(j)' = ArchiveMode(j) /\ Is(j, Many)' /\ ~Is(j, {"direct"})'
    BY <1>1, <1>5 DEF ArchiveMode, Is
  <1>7. /\ n \in 1 .. Len(f.entries) /\ f.entries[n] = line
        /\ \A i \in 1 .. Len(r.entries) : i # n => f.entries[i] = r.entries[i]
        /\ \/ /\ n \in r.paired + 1 .. Len(r.named) /\ f.paired = n
              /\ Len(f.entries) = Len(r.entries)
              /\ line.post # 0 => r.named[n] = line.post
              /\ line.post = 0 => n = r.paired + 1
           \/ /\ n = Len(r.entries) + 1 /\ Len(f.entries) = n /\ f.paired = r.paired
              /\ line.post = 0 => r.paired = Len(r.named)
              /\ line.post # 0 => \A i \in r.paired + 1 .. Len(r.named) : r.named[i] # line.post
    BY DEF LinedUp
  <1>8. /\ \A i \in 1 .. Len(r.entries) :
             LET e == r.entries[i] IN
             /\ e.what = "none" => i <= Len(r.named)
             /\ e.what \in Skips => ArchiveMode(j) # "bypass"
             /\ e.what = "skip" => e.post \in archive
             /\ e.what \in {"nameless", "unreadable"} => e.post = 0
             /\ e.what \in {"skip", "file"} /\ i <= Len(r.named) => e.post = r.named[i]
             /\ e.what \in {"skip", "file"} => e.post # 0
             /\ i \in r.paired + 1 .. Len(r.named) => e.what = "none"
    BY <1>1 DEF JobInv, Lines
  \* What is written over was not a line.
  <1>9. \A i \in 1 .. Len(r.entries) : i = n => r.entries[i].what = "none" /\ n <= Len(r.named)
    BY <1>1, <1>7, <1>8
  <1>10. \A i \in 1 .. Len(f.entries) : i = n \/ (i \in 1 .. Len(r.entries) /\ f.entries[i] = r.entries[i])
    BY SMTT(30), <1>1, <1>7
  <1> HIDE DEF r
  <1>11. Lines(j)'
    <2>1. Len(f.named) <= Len(f.entries) /\ f.paired <= Len(f.named)
      BY <1>1, <1>5, <1>7
    <2>2. ASSUME NEW i \in 1 .. Len(f.entries)
          PROVE  LET e == f.entries[i] IN
                 /\ e.what = "none" => i <= Len(f.named)
                 /\ e.what \in Skips => ArchiveMode(j) # "bypass"
                 /\ e.what = "skip" => e.post \in archive'
                 /\ e.what \in {"nameless", "unreadable"} => e.post = 0
                 /\ e.what \in {"skip", "file"} /\ i <= Len(f.named) => e.post = f.named[i]
                 /\ e.what \in {"skip", "file"} => e.post # 0
                 /\ i \in f.paired + 1 .. Len(f.named) => e.what = "none"
      <3>1. CASE i = n
        <4>1. line.what # "none" /\ (line.what \in {"skip", "file"} => line.post = p)
          OBVIOUS
        <4>2. n \notin f.paired + 1 .. Len(f.named)
          BY <1>1, <1>5, <1>7
        <4>3. line.what \in {"skip", "file"} /\ n <= Len(f.named) => line.post = f.named[n]
          BY <1>1, <1>4, <1>5, <1>7, <4>1
        <4> QED BY <1>4, <1>5, <1>7, <3>1, <4>1, <4>2, <4>3 DEF Skips
      <3>2. CASE i # n
        <4>1. i \in 1 .. Len(r.entries) /\ f.entries[i] = r.entries[i]
          BY <1>10, <3>2
        <4>2. i \in f.paired + 1 .. Len(f.named) => i \in r.paired + 1 .. Len(r.named)
          BY <1>1, <1>5, <1>7
        <4> QED BY <1>5, <1>8, <4>1, <4>2
      <3> QED BY <3>1, <3>2
    <2>3. f = run'[j] /\ f.at = "download"
      BY <1>5
    <2> QED BY <1>6, <2>1, <2>2, <2>3 DEF Lines
  <1>12. Clean(j)'
    <2> SUFFICES ASSUME ~r.exit
                 PROVE  /\ f.stopped => ArchiveMode(j) = "catchUp"
                        /\ ~f.stopped /\ ArchiveMode(j) # "bypass" => Passed(j)' \subseteq archive'
                        /\ ArchiveMode(j) = "bypass" =>
                             \A i \in 1 .. Len(f.named) :
                                /\ f.named[i] \in Passed(j)' => i <= f.paired
                                /\ i <= f.paired => f.entries[i].what # "none"
      BY <1>6 DEF Clean, r
    <2>1. /\ ArchiveMode(j) # "bypass" => Passed(j) \subseteq archive
          /\ ArchiveMode(j) = "bypass" =>
               \A i \in 1 .. Len(r.named) :
                  /\ r.named[i] \in Passed(j) => i <= r.paired
                  /\ i <= r.paired => r.entries[i].what # "none"
      BY <1>1 DEF JobInv, Clean, r
    <2>2. ~f.stopped /\ ArchiveMode(j) # "bypass" => Passed(j)' \subseteq archive'
      BY <1>3, <2>1
    <2>3. ASSUME ArchiveMode(j) = "bypass", NEW i \in 1 .. Len(r.named)
          PROVE  /\ r.named[i] \in Passed(j)' => i <= f.paired
                 /\ i <= f.paired => f.entries[i].what # "none"
      <3>1. line.what \notin Skips /\ ~f.stopped /\ Passed(j)' = Passed(j) \cup {p}
        BY <1>3, <2>3
      <3>2. i \in Nat /\ r.named[i] \in Posts
        BY <1>1
      <3>3. /\ r.named[i] \in Passed(j) => i <= r.paired
            /\ i <= r.paired => r.entries[i].what # "none"
        BY <2>1, <2>3
      \* An earlier row that has no line yet is still to come, so its post cannot be after p.
      <3>4. ASSUME NEW x \in 1 .. Len(r.named), NEW y \in 1 .. Len(r.named), x < y, x > r.paired,
                   r.named[y] = p
            PROVE  FALSE
        <4>1. r.named[x] \in r.listed
          <5>1. \A a, b \in 1 .. Len(r.named) :
                   a < b /\ r.named[b] \in r.listed => r.named[a] \in r.listed
            BY <1>1 DEF JobInv, Ordered, r
          <5> QED BY <1>3, <3>4, <5>1
        <4>2. r.named[x] \notin Passed(j)
          BY <1>1, <2>1, <2>3, <3>4
        <4>3. r.named[x] \in PostsOf(r.todo)
          BY <4>1, <4>2 DEF Passed, r
        <4>4. r.named[x] \in Posts /\ Before(j, r.named[x], p)
          BY <1>1, <3>4, NamedIsInOrder DEF r
        <4>5. r.named[x] = p \/ Before(j, p, r.named[x])
          BY <1>3, <4>3
        <4> QED BY <1>3, <4>4, <4>5, BeforeIs
      <3>5. CASE /\ n \in r.paired + 1 .. Len(r.named) /\ f.paired = n
                 /\ line.post # 0 => r.named[n] = line.post
                 /\ line.post = 0 => n = r.paired + 1
        <4>1. n \in 1 .. Len(r.named) /\ n \in 1 .. Len(r.entries)
          BY <1>1, <3>5
        <4>2. r.named[i] = p => i <= n
          <5> SUFFICES ASSUME r.named[i] = p, i > n PROVE FALSE
            BY <3>2, <4>1
          <5>1. n < i /\ n > r.paired
            BY <1>1, <3>5
          <5> QED BY <3>4, <4>1, <5>1
        <4>3. i <= n => f.entries[i].what # "none"
          <5> SUFFICES ASSUME i <= n PROVE f.entries[i].what # "none"
            OBVIOUS
          <5>1. CASE i = n
            BY <1>7, <5>1
          <5>2. CASE i # n
            <6>1. f.entries[i] = r.entries[i]
              BY <1>1, <1>7, <5>2
            <6>2. i <= r.paired
              <7> SUFFICES ASSUME i > r.paired PROVE FALSE
                BY <1>1, <3>2
              <7>1. i < n
                BY <3>2, <5>2
              <7>2. line.post # 0
                BY <1>1, <3>2, <3>5, <7>1
              <7>3. line.post = p
                BY <7>2
              <7>4. r.named[n] = p
                BY <3>5, <7>2, <7>3
              <7> QED BY <3>4, <4>1, <7>1, <7>4
            <6> QED BY <3>3, <6>1, <6>2
          <5> QED BY <5>1, <5>2
        <4>4. r.named[i] \in Passed(j) => i <= n
          BY <1>1, <3>2, <3>3, <3>5
        <4> QED BY <3>1, <3>5, <4>2, <4>3, <4>4
      <3>6. CASE /\ n = Len(r.entries) + 1 /\ f.paired = r.paired
                 /\ line.post = 0 => r.paired = Len(r.named)
                 /\ line.post # 0 => \A x \in r.paired + 1 .. Len(r.named) : r.named[x] # line.post
        <4>1. i # n /\ f.entries[i] = r.entries[i]
          BY <1>1, <1>7, <3>6
        <4>2. r.named[i] = p => i <= r.paired
          BY <1>1, <1>4, <3>2, <3>6
        <4> QED BY <3>1, <3>3, <3>6, <4>1, <4>2
      <3> QED BY <1>7, <3>5, <3>6
    <2> QED BY <1>5, <2>2, <2>3
  <1>13. Paying(j)'
    <2>1. Owed(j)' \subseteq Owed(j) \cup {p}
      BY DEF Owed
    <2>2. line.what \in Skips => Owed(j)' \subseteq Owed(j)
      BY DEF Owed
    <2>3. ~job[j].force =>
             \A q \in Owed(j) : \E i \in 1 .. Len(r.entries) :
                r.entries[i] \in {Line(q, "file"), Line(0, "unreadable")}
      BY <1>1 DEF JobInv, Paying, r
    <2>4. ~job[j].force =>
             \A q \in Owed(j)' : \E i \in 1 .. Len(f.entries) :
                f.entries[i] \in {Line(q, "file"), Line(0, "unreadable")}
      <3> SUFFICES ASSUME ~job[j].force, NEW q \in Owed(j)'
                   PROVE  \E i \in 1 .. Len(f.entries) :
                             f.entries[i] \in {Line(q, "file"), Line(0, "unreadable")}
        OBVIOUS
      <3>1. CASE q \in Owed(j)
        <4>1. PICK i \in 1 .. Len(r.entries) : r.entries[i] \in {Line(q, "file"), Line(0, "unreadable")}
          BY <2>3, <3>1
        <4>2. r.entries[i].what # "none"
          BY <4>1 DEF Line
        <4>3. i # n
          BY <1>9, <4>2
        <4>4. i \in 1 .. Len(f.entries)
          BY <1>1, <1>7
        <4>5. f.entries[i] = r.entries[i]
          BY <1>7, <4>3
        <4> QED BY <4>1, <4>4, <4>5
      <3>2. CASE q \notin Owed(j)
        <4>1. q = p /\ line.what \notin Skips
          BY <2>1, <2>2, <3>2
        <4>2. line = Line(q, "file") \/ line = Line(0, "unreadable")
          BY <4>1 DEF Line, LineType, Skips
        <4> QED BY <1>7, <4>2
      <3> QED BY <3>1, <3>2
    <2>5. took'[j] \subseteq archive' /\ job'[j].status = "running" /\ ~Is(j, {"book", "title", "direct"})'
      BY <1>1 DEF Is
    <2> QED BY <1>5, <2>4, <2>5 DEF Paying
  <1>14. Covered(j)'
    <2> SUFFICES ASSUME ~job[j].capped, ~r.short, ~Is(j, {"book"})
                 PROVE  /\ \A q \in r.there : q <= online
                        /\ r.gap \/ r.there \subseteq RowPosts(j)'
                        /\ r.gap =>
                              /\ Is(j, {"pool", "thread"})
                              /\ Is(j, {"pool"}) => ~r.windowed
                              /\ Is(j, {"thread"}) => \A q \in r.there : job[j].offset < q /\ q <= job[j].offset + Cap
                        /\ r.gap /\ ~r.exit /\ Nameless(j)' = {} =>
                              /\ r.there \subseteq r.listed
                              /\ \/ \E i \in 1 .. Len(f.entries) : f.entries[i].what = "unreadable"
                                 \/ \A q \in Passed(j)' :
                                       \/ \E i \in 1 .. Len(r.named) : r.named[i] = q
                                       \/ \E i \in Len(r.named) + 1 .. Len(f.entries) : f.entries[i].post = q
      BY <1>1, <1>5 DEF Covered, Is, SameRun, r
    <2>1. RowPosts(j)' = RowPosts(j)
      BY <1>5 DEF RowPosts, r
    <2>2. /\ \A q \in r.there : q <= online
          /\ r.gap \/ r.there \subseteq RowPosts(j)
          /\ r.gap =>
                /\ Is(j, {"pool", "thread"})
                /\ Is(j, {"pool"}) => ~r.windowed
                /\ Is(j, {"thread"}) => \A q \in r.there : job[j].offset < q /\ q <= job[j].offset + Cap
          /\ r.gap /\ ~r.exit /\ Nameless(j) = {} =>
                /\ r.there \subseteq r.listed
                /\ \/ \E i \in 1 .. Len(r.entries) : r.entries[i].what = "unreadable"
                   \/ \A q \in Passed(j) :
                         \/ \E i \in 1 .. Len(r.named) : r.named[i] = q
                         \/ \E i \in Len(r.named) + 1 .. Len(r.entries) : r.entries[i].post = q
      BY <1>1 DEF JobInv, Covered, r
    \* No line that names a post, or that is of a file, is written over.
    <2>3. Nameless(j)' = {} => Nameless(j) = {} /\ line.what # "nameless"
      <3> SUFFICES ASSUME NEW i \in 1 .. Len(r.entries), r.entries[i].what = "nameless"
                   PROVE  i \in 1 .. Len(f.entries) /\ f.entries[i].what = "nameless"
        <4>1. f.entries \in Seq(LineType) /\ DOMAIN f.entries = 1 .. Len(f.entries)
          BY DEF RunType
        <4>2. r.entries \in Seq(LineType) /\ DOMAIN r.entries = 1 .. Len(r.entries)
          BY <1>1 DEF RunType
        <4> QED BY <1>7, <4>1, <4>2 DEF Nameless, r
      <3>1. i # n
        BY <1>9
      <3> QED BY <1>1, <1>7, <3>1
    <2>4. ASSUME r.gap, ~r.exit, Nameless(j)' = {}
          PROVE  \/ \E i \in 1 .. Len(f.entries) : f.entries[i].what = "unreadable"
                 \/ \A q \in Passed(j)' :
                       \/ \E i \in 1 .. Len(r.named) : r.named[i] = q
                       \/ \E i \in Len(r.named) + 1 .. Len(f.entries) : f.entries[i].post = q
      <3>1. ~f.stopped
        <4>1. ArchiveMode(j) # "catchUp"
          BY <2>2, <2>4 DEF ArchiveMode, Is
        <4> QED BY <4>1
      <3>2. CASE line.what = "unreadable"
        BY <1>7, <3>2
      <3>3. CASE \E i \in 1 .. Len(r.entries) : r.entries[i].what = "unreadable"
        <4>1. PICK i \in 1 .. Len(r.entries) : r.entries[i].what = "unreadable"
          BY <3>3
        <4>2. i # n
          BY <1>9, <4>1
        <4>3. i \in 1 .. Len(f.entries) /\ f.entries[i] = r.entries[i]
          BY <1>1, <1>7, <4>2
        <4> QED BY <4>1, <4>3
      <3>4. CASE /\ line.what # "unreadable"
                 /\ \A q \in Passed(j) :
                       \/ \E i \in 1 .. Len(r.named) : r.named[i] = q
                       \/ \E i \in Len(r.named) + 1 .. Len(r.entries) : r.entries[i].post = q
        <4> SUFFICES ASSUME NEW q \in Passed(j) \cup {p}
                     PROVE  \/ \E i \in 1 .. Len(r.named) : r.named[i] = q
                            \/ \E i \in Len(r.named) + 1 .. Len(f.entries) : f.entries[i].post = q
          BY <1>3, <3>1
        <4>1. CASE q \in Passed(j)
          <5>1. CASE \E i \in 1 .. Len(r.named) : r.named[i] = q
            BY <5>1
          <5>2. CASE \E i \in Len(r.named) + 1 .. Len(r.entries) : r.entries[i].post = q
            <6>1. PICK i \in Len(r.named) + 1 .. Len(r.entries) : r.entries[i].post = q
              BY <5>2
            <6>2. i \in 1 .. Len(r.entries) /\ i > Len(r.named)
              BY <1>1
            <6>3. i # n
              BY <1>1, <1>9, <6>2
            <6>4. i \in Len(r.named) + 1 .. Len(f.entries) /\ f.entries[i] = r.entries[i]
              BY <1>1, <1>7, <6>2, <6>3
            <6> QED BY <6>1, <6>4
          <5> QED BY <3>4, <4>1, <5>1, <5>2
        <4>2. CASE q = p
          <5>1. line.post = p /\ line.post # 0
            BY <1>4, <2>3, <2>4, <3>4
          <5>2. CASE n \in r.paired + 1 .. Len(r.named)
            BY <1>1, <1>7, <4>2, <5>1, <5>2
          <5>3. CASE n = Len(r.entries) + 1
            <6>1. n \in Len(r.named) + 1 .. Len(f.entries)
              BY <1>1, <1>7, <5>3
            <6> QED BY <1>7, <4>2, <5>1, <6>1
          <5> QED BY <1>7, <5>2, <5>3
        <4> QED BY <4>1, <4>2
      <3> QED BY <2>2, <2>3, <2>4, <3>2, <3>3, <3>4
    <2> QED BY <2>1, <2>2, <2>3, <2>4
  <1> QED BY <1>3, <1>11, <1>12, <1>13, <1>14 DEF JobInv

\* What a line changes.
LEMMA PrintingIs ==
    ASSUME Types, NEW j \in Ids, JobInv(j), At(j, "download"), run[j].todo # <<>>,
           NEW r \in RunType, SameRun(run[j], r), r.entries = run[j].entries, r.paired = run[j].paired,
           NEW line \in LineType, NEW f, f = PairLine(r, line)
    PROVE  /\ f \in RunType /\ SameRun(run[j], f)
           /\ f.exit = r.exit /\ f.stopped = r.stopped /\ f.todo = r.todo
           /\ \E n \in Nat : LinedUp(run[j], f, line, n)
  <1>1. Len(run[j].named) <= Len(run[j].entries) /\ run[j].paired <= Len(run[j].named)
    BY DownloadingIs
  <1>2. Len(r.named) <= Len(r.entries) /\ r.paired <= Len(r.named)
    BY <1>1 DEF SameRun
  <1>3. /\ f \in RunType /\ f = [r EXCEPT !.entries = f.entries, !.paired = f.paired]
        /\ \E n \in Nat : LinedUp(r, f, line, n)
    BY <1>2, PairLineIs
  <1>4. PICK es, k : f = [r EXCEPT !.entries = es, !.paired = k]
    BY <1>3
  <1>5. SameRun(run[j], f) /\ f.exit = r.exit /\ f.stopped = r.stopped /\ f.todo = r.todo
    BY <1>4 DEF SameRun, RunType
  <1>6. \A n : LinedUp(r, f, line, n) => LinedUp(run[j], f, line, n)
    BY DEF LinedUp, SameRun
  <1> QED BY <1>3, <1>5, <1>6

\* What is recorded is a post the job took.
Takes(j) ==
    /\ archive' \subseteq archive \cup took'[j] /\ took[j] \subseteq took'[j]
    /\ books' = books

\* One job's run changes, and what it took.
LEMMA TurnIs ==
    ASSUME Types, NEW j \in Ids, NEW f \in RunType, Becomes(j, f),
           UNCHANGED <<online, library, job, missed>>,
           \/ UNCHANGED <<archive, took>>
           \/ \E p \in Posts : archive' = archive \cup {p} /\ took' = [took EXCEPT ![j] = @ \cup {p}]
    PROVE  /\ Types' /\ Elsewhere(j) /\ Grows /\ run'[j] = f
           /\ archive' \subseteq archive \cup took'[j] /\ took[j] \subseteq took'[j]
  <1>1. /\ run' \in [Ids -> RunType] /\ run'[j] = f
        /\ \A q \in Ids \ {j} : run'[q] = run[q]
    BY Becoming
  <1>2. online \in Nat
    BY DownloadsAssumption DEF Types
  <1>3. CASE UNCHANGED <<archive, took>>
    BY <1>1, <1>2, <1>3 DEF Types, Elsewhere, Grows
  <1>4. CASE \E p \in Posts : archive' = archive \cup {p} /\ took' = [took EXCEPT ![j] = @ \cup {p}]
    <2>1. PICK p \in Posts : archive' = archive \cup {p} /\ took' = [took EXCEPT ![j] = @ \cup {p}]
      BY <1>4
    <2>2. /\ took' \in [Ids -> SUBSET Posts] /\ took'[j] = took[j] \cup {p}
          /\ \A q \in Ids \ {j} : took'[q] = took[q]
      BY <2>1 DEF Types
    <2> QED BY <1>1, <1>2, <2>1, <2>2 DEF Types, Elsewhere, Grows
  <1> QED BY <1>3, <1>4

LEMMA SkipRecordedKeeps ==
    ASSUME Types, NEW j \in Ids, JobInv(j), SkipRecorded(j)
    PROVE  Types' /\ JobInv(j)' /\ Elsewhere(j) /\ Grows /\ Takes(j)
  <1> DEFINE p    == Head(run[j].todo)
             stop == ArchiveMode(j) = "catchUp" /\ run[j].skips + 1 = CatchUpSkips
             rest == IF stop THEN <<>> ELSE Tail(run[j].todo)
  <1>0. PICK line \in {Line(p, "skip"), Line(0, "nameless")} :
           Becomes(j, [PairLine(run[j], line) EXCEPT
                         !.skips = run[j].skips + 1, !.stopped = stop, !.todo = IF stop THEN <<>> ELSE Tail(@)])
    BY DEF SkipRecorded
  <1> DEFINE e    == PairLine(run[j], line)
             f    == [e EXCEPT !.skips = run[j].skips + 1, !.stopped = stop, !.todo = rest]
  <1>1. At(j, "download") /\ run[j].todo # <<>> /\ p \in archive /\ ArchiveMode(j) # "bypass"
    BY DEF SkipRecorded
  <1>2. UNCHANGED <<online, archive, library, job, took, missed, books>>
    BY DEF SkipRecorded
  <1>3. run[j] \in RunType /\ run[j].todo \in Seq(Posts) /\ run[j].skips \in Nat
    BY DEF Types, RunType
  <1>4. p \in Posts /\ Tail(run[j].todo) \in Seq(Posts)
    BY <1>1, <1>3, TodoIs
  <1>5. /\ line \in LineType /\ line.what \in Skips
        /\ (line.post = p /\ line.what = "skip") \/ (line.post = 0 /\ line.what = "nameless")
    BY <1>4 DEF Line, LineType, Skips
  <1>6. /\ e \in RunType /\ SameRun(run[j], e)
        /\ e.exit = run[j].exit /\ e.stopped = run[j].stopped /\ e.todo = run[j].todo
        /\ \E n \in Nat : LinedUp(run[j], e, line, n)
    <2>1. SameRun(run[j], run[j])
      BY DEF SameRun
    <2> QED BY <1>1, <1>3, <1>5, <2>1, PrintingIs
  <1>7. Becomes(j, f)
    BY <1>0, <1>3, <1>6 DEF RunType
  <1>8. PICK n \in Nat : LinedUp(run[j], e, line, n)
    BY <1>6
  <1>9. stop \in BOOLEAN /\ (stop => ArchiveMode(j) = "catchUp")
    BY Zenon
  <1> HIDE DEF stop, e
  <1>10. rest \in Seq(Posts)
    BY <1>4
  <1> HIDE DEF rest
  <1>11. /\ f \in RunType /\ f.stopped = stop /\ f.todo = rest /\ f.exit = e.exit
         /\ f.entries = e.entries /\ f.paired = e.paired
         /\ SameRun(e, f)
    <2>1. PICK b \in BOOLEAN : b = stop
      BY <1>9, Zenon
    <2>2. PICK k \in Nat : k = run[j].skips + 1
      BY <1>3
    <2>3. f = [e EXCEPT !.skips = k, !.stopped = b, !.todo = rest]
      BY <2>1, <2>2
    <2> HIDE DEF f
    <2>4. /\ f.stopped = b /\ f.todo = rest /\ f.exit = e.exit
          /\ f.entries = e.entries /\ f.paired = e.paired /\ SameRun(e, f)
      BY <1>6, <2>3 DEF RunType, SameRun
    <2>5. f \in RunType
      BY <1>6, <1>10, <2>3 DEF RunType
    <2> QED BY <2>1, <2>4, <2>5
  <1> HIDE DEF f
  <1>12. SameRun(run[j], f) /\ LinedUp(run[j], f, line, n)
    BY <1>6, <1>8, <1>11 DEF SameRun, LinedUp
  <1>13. /\ Types' /\ Elsewhere(j) /\ Grows /\ run'[j] = f
         /\ archive' \subseteq archive \cup took'[j] /\ took[j] \subseteq took'[j]
    BY <1>2, <1>7, <1>11, TurnIs
  <1>14. f.todo = IF f.stopped THEN <<>> ELSE Tail(run[j].todo)
    BY <1>11 DEF rest
  <1>15. took'[j] = took[j] /\ took'[j] \subseteq archive'
    BY <1>2 DEF JobInv, Paying
  <1>16. JobInv(j)'
    <2>1. PICK q : q = Head(run[j].todo)
      OBVIOUS
    <2>2. /\ \/ line.post = q /\ line.what \in {"skip", "file"}
             \/ line.post = 0 /\ line.what \in {"nameless", "unreadable"}
          /\ line.what \in Skips /\ q \in archive
      BY <1>1, <1>5, <2>1
    <2> HIDE DEF p
    <2> QED BY <1>1, <1>2, <1>5, <1>6, <1>9, <1>11, <1>12, <1>13, <1>14, <1>15, <2>1, <2>2, LineKeeps
  <1> QED BY <1>2, <1>13, <1>16 DEF Takes

\* A file fails: the exit code says so.
LEMMA FileFailsKeeps ==
    ASSUME Types, NEW j \in Ids, JobInv(j), At(j, "download"), run[j].todo # <<>>,
           NEW f \in RunType, run'[j] = f, SameRun(run[j], f), f.exit, ~f.stopped,
           f.todo = Tail(run[j].todo), f.entries = run[j].entries, f.paired = run[j].paired,
           UNCHANGED <<online, archive, library, job, took, missed>>
    PROVE  JobInv(j)'
  <1>1. /\ job[j].status = "running" /\ run[j].at = "download" /\ run[j] \in RunType
        /\ Is(j, Many) /\ Is(j, Single) /\ ~Is(j, {"direct"}) /\ ~Is(j, {"book", "title"})
    BY SMTT(30), DownloadingIs
  <1>2. Staged(j)' /\ Named(j)' /\ Ordered(j)' /\ Rows(j)' /\ True(j)' /\ Good(j)'
    BY SMTT(30), GoesOnInOrder
  <1>3. Lines(j)'
    BY <1>1 DEF JobInv, Lines, SameRun, ArchiveMode, Is
  <1>4. Clean(j)'
    BY DEF Clean
  <1>5. Paying(j)'
    BY <1>1 DEF JobInv, Paying, Owed, SameRun, Is
  <1>6. Covered(j)'
    <2>1. RowPosts(j)' = RowPosts(j)
      BY DEF RowPosts, SameRun
    <2> QED BY <1>1, <2>1 DEF JobInv, Covered, SameRun, Is
  <1> QED BY <1>2, <1>3, <1>4, <1>5, <1>6 DEF JobInv

LEMMA TakeFileKeeps ==
    ASSUME Types, NEW j \in Ids, JobInv(j), TakeFile(j)
    PROVE  Types' /\ JobInv(j)' /\ Elsewhere(j) /\ Grows /\ Takes(j)
  <1> DEFINE p    == Head(run[j].todo)
             r    == [run[j] EXCEPT !.todo = Tail(@), !.skips = 0]
             fail == [r EXCEPT !.exit = TRUE, !.skips = run[j].skips]
  <1>1. At(j, "download") /\ run[j].todo # <<>>
    BY DEF TakeFile
  <1>2. UNCHANGED <<online, library, job, missed, books>>
    BY DEF TakeFile
  <1>3. \/ Becomes(j, PairLine(r, Line(p, "file"))) /\ Recorded(j, p)
        \/ Becomes(j, fail) /\ UNCHANGED <<archive, took>>
        \/ Becomes(j, PairLine(r, Line(0, "unreadable"))) /\ Recorded(j, p)
    BY DEF TakeFile
  <1>4. run[j] \in RunType /\ run[j].todo \in Seq(Posts) /\ ~run[j].stopped
    BY <1>1, DownloadingIs
  <1>5. p \in Posts /\ Tail(run[j].todo) \in Seq(Posts)
    BY <1>1, <1>4, TodoIs
  <1>6. /\ r \in RunType /\ r.todo = Tail(run[j].todo) /\ ~r.stopped /\ r.exit = run[j].exit
        /\ r.entries = run[j].entries /\ r.paired = run[j].paired /\ SameRun(run[j], r)
    BY <1>4, <1>5 DEF RunType, SameRun
  <1>7. /\ fail \in RunType /\ fail.todo = Tail(run[j].todo) /\ ~fail.stopped /\ fail.exit
        /\ fail.entries = run[j].entries /\ fail.paired = run[j].paired /\ SameRun(run[j], fail)
    BY <1>4, <1>5 DEF RunType, SameRun
  <1> HIDE DEF r, fail
  <1>8. CASE Becomes(j, fail) /\ UNCHANGED <<archive, took>>
    <2>1. /\ Types' /\ Elsewhere(j) /\ Grows /\ run'[j] = fail
          /\ archive' \subseteq archive \cup took'[j] /\ took[j] \subseteq took'[j]
      BY <1>2, <1>7, <1>8, TurnIs
    <2>2. JobInv(j)'
      BY <1>1, <1>2, <1>7, <1>8, <2>1, FileFailsKeeps
    <2> QED BY <1>2, <2>1, <2>2 DEF Takes
  <1>9. ASSUME NEW line \in LineType,
               (line.post = p /\ line.what = "file") \/ (line.post = 0 /\ line.what = "unreadable"),
               Becomes(j, PairLine(r, line)), Recorded(j, p)
        PROVE  Types' /\ JobInv(j)' /\ Elsewhere(j) /\ Grows /\ Takes(j)
    <2>1. PICK f : f = PairLine(r, line)
      OBVIOUS
    <2>2. /\ f \in RunType /\ SameRun(run[j], f)
          /\ f.exit = r.exit /\ f.stopped = r.stopped /\ f.todo = r.todo
          /\ \E n \in Nat : LinedUp(run[j], f, line, n)
      BY <1>1, <1>6, <2>1, PrintingIs
    <2>3. PICK n \in Nat : LinedUp(run[j], f, line, n)
      BY <2>2
    <2>4. \/ ArchiveMode(j) = "bypass" /\ UNCHANGED <<archive, took>>
          \/ archive' = archive \cup {p} /\ took' = [took EXCEPT ![j] = @ \cup {p}]
      BY <1>9 DEF Recorded
    <2>5. /\ Types' /\ Elsewhere(j) /\ Grows /\ run'[j] = f
          /\ archive' \subseteq archive \cup took'[j] /\ took[j] \subseteq took'[j]
      BY <1>2, <1>5, <1>9, <2>1, <2>2, <2>4, TurnIs
    <2>6. /\ took'[j] \subseteq took[j] \cup {p} /\ took'[j] \subseteq archive' /\ archive \subseteq archive'
          /\ ArchiveMode(j) # "bypass" => p \in archive'
      <3>1. took[j] \subseteq archive
        BY DEF JobInv, Paying
      <3> QED BY <2>4, <3>1 DEF Types
    <2>7. JobInv(j)'
      <3>1. PICK q : q = Head(run[j].todo)
        OBVIOUS
      <3>2. /\ (line.post = q /\ line.what = "file") \/ (line.post = 0 /\ line.what = "unreadable")
            /\ line.what \notin Skips /\ ~f.stopped
            /\ took'[j] \subseteq took[j] \cup {q} /\ (ArchiveMode(j) # "bypass" => q \in archive')
        BY <1>6, <1>9, <2>2, <2>6, <3>1 DEF Skips
      <3>3. f.todo = IF f.stopped THEN <<>> ELSE Tail(run[j].todo)
        BY <1>6, <2>2, <3>2
      <3>4. f.exit = run[j].exit
        BY <1>6, <2>2
      <3> HIDE DEF p
      <3> QED BY <1>1, <1>2, <2>2, <2>3, <2>5, <2>6, <3>1, <3>2, <3>3, <3>4, LineKeeps
    <2> QED BY <1>2, <2>5, <2>7 DEF Takes
  <1>10. /\ Line(p, "file") \in LineType /\ Line(p, "file").post = p /\ Line(p, "file").what = "file"
         /\ Line(0, "unreadable") \in LineType /\ Line(0, "unreadable").post = 0
         /\ Line(0, "unreadable").what = "unreadable"
    BY <1>5 DEF Line, LineType
  <1>11. CASE Becomes(j, PairLine(r, Line(p, "file"))) /\ Recorded(j, p)
    <2>1. PICK line \in LineType : line = Line(p, "file")
      BY <1>10
    <2>2. line.post = p /\ line.what = "file"
      BY <1>10, <2>1
    <2>3. Becomes(j, PairLine(r, line)) /\ Recorded(j, p)
      BY <1>11, <2>1
    <2> HIDE DEF p
    <2> QED BY <1>9, <2>2, <2>3
  <1>12. CASE Becomes(j, PairLine(r, Line(0, "unreadable"))) /\ Recorded(j, p)
    <2>1. PICK line \in LineType : line = Line(0, "unreadable")
      BY <1>10
    <2>2. line.post = 0 /\ line.what = "unreadable"
      BY <1>10, <2>1
    <2>3. Becomes(j, PairLine(r, line)) /\ Recorded(j, p)
      BY <1>12, <2>1
    <2> HIDE DEF p
    <2> QED BY <1>9, <2>2, <2>3
  <1> QED BY <1>3, <1>8, <1>11, <1>12

\* A run whose rows are shown, and whose download has not started.
LEMMA LaunchedIs ==
    ASSUME Types, NEW j \in Ids, JobInv(j), At(j, "launch")
    PROVE  /\ job[j].status = "running" /\ run[j].at = "launch" /\ Resolving(j)
           /\ run[j] \in RunType /\ job[j] \in JobType
           /\ Is(j, Single) /\ (Is(j, Many) \/ Is(j, {"direct"})) /\ ~(Is(j, {"book", "title"}))
           /\ ~run[j].exit /\ ~run[j].stopped /\ run[j].listed = {} /\ run[j].todo = <<>>
           /\ run[j].paired = 0 /\ run[j].next = 1
           /\ run[j].named \in Seq(Nat) /\ run[j].named # <<>> /\ Len(run[j].named) \in Nat \ {0}
           /\ Len(run[j].rows) = Len(run[j].named)
           /\ \A i \in 1 .. Len(run[j].named) : run[j].rows[i] = Row(run[j].named[i])
  <1>1. job[j].status = "running" /\ run[j].at = "launch" /\ run[j] \in RunType /\ job[j] \in JobType
    BY DEF At, Types
  <1>2. Is(j, Single)
    BY <1>1 DEF JobInv, Staged
  <1>3. (Is(j, Many) \/ Is(j, {"direct"})) /\ ~(Is(j, {"book", "title"}))
    BY <1>2 DEF Is, Single, Many
  <1>4. /\ ~run[j].exit /\ ~run[j].stopped /\ run[j].listed = {} /\ run[j].todo = <<>>
        /\ run[j].paired = 0 /\ run[j].next = 1
    BY <1>1 DEF JobInv, Staged
  <1>5. run[j].named \in Seq(Nat) /\ run[j].named # <<>>
    BY <1>1 DEF JobInv, Named, RunType
  <1>6. /\ Len(run[j].rows) = Len(run[j].named)
        /\ \A i \in 1 .. Len(run[j].named) : run[j].rows[i] = Row(run[j].named[i])
    BY <1>1, <1>2 DEF JobInv, Rows
  <1>7. Resolving(j)
    BY <1>1 DEF Resolving
  <1> QED BY <1>1, <1>2, <1>3, <1>4, <1>5, <1>6, <1>7

\* No row has a line yet.
LEMMA UnprintedIs ==
    ASSUME NEW r \in RunType, NEW u, u = Unprinted(r)
    PROVE  /\ u \in RunType /\ u.at = "download" /\ Len(u.entries) = Len(r.named)
           /\ \A i \in 1 .. Len(r.named) : u.entries[i] = Line(0, "none")
           /\ u.rows = r.rows /\ u.named = r.named /\ u.there = r.there /\ u.short = r.short
           /\ u.gap = r.gap /\ u.windowed = r.windowed /\ u.listed = r.listed /\ u.todo = r.todo
           /\ u.paired = r.paired /\ u.exit = r.exit /\ u.stopped = r.stopped /\ u.next = r.next
  <1> DEFINE es == [i \in DOMAIN r.named |-> Line(0, "none")]
  <1>1. Line(0, "none") \in LineType
    BY DEF Line, LineType
  <1>2. r.named \in Seq(Nat)
    BY DEF RunType
  <1>3. /\ es \in Seq(LineType) /\ Len(es) = Len(r.named)
        /\ \A i \in 1 .. Len(r.named) : es[i] = Line(0, "none")
    <2> DEFINE s == r.named
    <2>1. s \in Seq(Nat)
      BY <1>2
    <2> HIDE DEF s
    <2> QED BY <1>1, <2>1 DEF s
  <1>4. u = [r EXCEPT !.at = "download", !.entries = es]
    BY DEF Unprinted
  <1> HIDE DEF es
  <1>5. /\ u.at = "download" /\ u.entries = es
        /\ u.rows = r.rows /\ u.named = r.named /\ u.there = r.there /\ u.short = r.short
        /\ u.gap = r.gap /\ u.windowed = r.windowed /\ u.listed = r.listed /\ u.todo = r.todo
        /\ u.paired = r.paired /\ u.exit = r.exit /\ u.stopped = r.stopped /\ u.next = r.next
    BY <1>4 DEF RunType
  <1>6. u \in RunType
    BY <1>3, <1>4 DEF RunType, Stages
  <1> QED BY <1>3, <1>5, <1>6

\* What the download can list.
LEMMA WindowedIs ==
    ASSUME Types, NEW j \in Ids, Is(j, Many), NEW w, w = Windowed(Listing(job[j].kind), j, run[j].windowed)
    PROVE  /\ w \in Seq(Posts) /\ Len(w) \in Nat
           /\ Base(j) + Len(w) <= online \/ Len(w) = 0
           /\ Len(w) >= online - Base(j) \/ (run[j].windowed /\ Len(w) = Cap)
           /\ \A i \in 1 .. Len(w) : w[i] = Nth(j, online, i)
  <1>1. job[j].kind \in Kinds \ {"direct"} /\ job[j].offset \in Nat /\ Cap \in Nat
        /\ online \in 0 .. MaxPosts /\ online \in Nat
    BY DownloadsAssumption DEF Types, JobType, Is, Many
  <1>2. PICK k \in Kinds \ {"direct"} : k = job[j].kind
    BY <1>1
  <1>3. PICK from \in Nat : from = job[j].offset
    BY <1>1
  <1>4. CASE run[j].windowed
    <2>1. w = Slice(Listing(k), from, Cap)
      BY <1>2, <1>3, <1>4 DEF Windowed
    <2>2. Cap \in Nat
      BY <1>1
    <2>3. /\ Slice(Listing(k), from, Cap) \in Seq(Posts) /\ Len(Slice(Listing(k), from, Cap)) <= Cap
          /\ from + Len(Slice(Listing(k), from, Cap)) <= online \/ Slice(Listing(k), from, Cap) = <<>>
          /\ Len(Slice(Listing(k), from, Cap)) = Cap \/ Len(Slice(Listing(k), from, Cap)) >= online - from
          /\ \A i \in 1 .. Len(Slice(Listing(k), from, Cap)) :
                Slice(Listing(k), from, Cap)[i] = IF k = "search" THEN online + 1 - from - i ELSE from + i
      BY <2>2, WindowIs
    <2>4. /\ w \in Seq(Posts)
          /\ from + Len(w) <= online \/ w = <<>>
          /\ Len(w) = Cap \/ Len(w) >= online - from
          /\ \A i \in 1 .. Len(w) : w[i] = IF k = "search" THEN online + 1 - from - i ELSE from + i
      BY <2>1, <2>3
    <2>5. Base(j) = from /\ (k = "search" <=> Is(j, {"search"}))
      BY <1>2, <1>3, <1>4 DEF Base, Is
    <2>6. \A i \in Nat : Nth(j, online, i) = IF k = "search" THEN online + 1 - from - i ELSE from + i
      BY <2>5 DEF Nth
    <2>7. Len(w) \in Nat /\ \A i \in 1 .. Len(w) : i \in Nat
      BY <2>4
    <2>8. \A i \in 1 .. Len(w) : w[i] = Nth(j, online, i)
      BY <2>4, <2>6, <2>7
    <2>9. Base(j) + Len(w) <= online \/ Len(w) = 0
      BY <2>4, <2>5
    <2>10. Len(w) >= online - Base(j) \/ (run[j].windowed /\ Len(w) = Cap)
      BY <1>4, <2>4, <2>5
    <2> QED BY <2>4, <2>7, <2>8, <2>9, <2>10
  <1>5. CASE ~run[j].windowed
    <2>1. w = Listing(k)
      BY <1>2, <1>5 DEF Windowed
    <2>2. /\ Listing(k) \in Seq(Posts) /\ Len(Listing(k)) = online
          /\ \A i \in 1 .. online : Listing(k)[i] = IF k = "search" THEN online + 1 - i ELSE i
      BY <1>1, ListingIs
    <2>3. Base(j) = 0 /\ (k = "search" <=> Is(j, {"search"}))
      BY <1>2, <1>5 DEF Base, Is
    <2>4. \A i \in 1 .. online : Nth(j, online, i) = IF k = "search" THEN online + 1 - i ELSE i
      BY <1>1, <2>3 DEF Nth
    <2> QED BY <1>1, <2>1, <2>2, <2>3, <2>4
  <1> QED BY <1>4, <1>5

LEMMA LaunchKeeps ==
    ASSUME Types, NEW j \in Ids, JobInv(j), Launch(j)
    PROVE  Types' /\ JobInv(j)' /\ Elsewhere(j) /\ Grows /\ Takes(j)
  <1> DEFINE r      == run[j]
             window == Windowed(Listing(job[j].kind), j, r.windowed)
  <1>1. At(j, "launch") /\ ~Is(j, {"direct"}) /\ UNCHANGED <<online, archive, library, job, took, missed, books>>
    BY DEF Launch
  <1>2. /\ job[j].status = "running" /\ r.at = "launch" /\ Resolving(j)
        /\ r \in RunType /\ job[j] \in JobType
        /\ Is(j, Single) /\ (Is(j, Many) \/ Is(j, {"direct"})) /\ ~(Is(j, {"book", "title"}))
        /\ ~r.exit /\ ~r.stopped /\ r.listed = {} /\ r.todo = <<>>
        /\ r.paired = 0 /\ r.next = 1
        /\ r.named \in Seq(Nat) /\ r.named # <<>> /\ Len(r.named) \in Nat \ {0}
        /\ Len(r.rows) = Len(r.named)
        /\ \A i \in 1 .. Len(r.named) : r.rows[i] = Row(r.named[i])
    BY <1>1, LaunchedIs
  <1>3. Is(j, Many)
    BY <1>1, <1>2
  <1>4. PICK got \in Listings(window) \cup {<<>>} :
           Becomes(j, [Unprinted(r) EXCEPT !.todo = got, !.listed = PostsOf(got), !.exit = got # window])
    BY DEF Launch
  <1>5. PICK w : w = window
    OBVIOUS
  <1>6. /\ w \in Seq(Posts) /\ Len(w) \in Nat
        /\ Base(j) + Len(w) <= online \/ Len(w) = 0
        /\ Len(w) >= online - Base(j) \/ (r.windowed /\ Len(w) = Cap)
        /\ \A i \in 1 .. Len(w) : w[i] = Nth(j, online, i)
    BY <1>3, <1>5, WindowedIs
  <1>7. /\ got \in Seq(Posts) /\ Len(got) \in Nat /\ Len(got) <= Len(w)
        /\ \A i \in 1 .. Len(got) : got[i] = Nth(j, online, i)
    <2>1. CASE got = <<>>
      BY <1>6, <2>1
    <2>2. CASE got \in Listings(w)
      <3>1. /\ got \in Seq(Posts) /\ Len(got) <= Len(w)
            /\ \A i \in 1 .. Len(got) : got[i] = w[i]
        BY <1>6, <2>2, ListingsAre
      <3> QED BY <1>6, <3>1
    <2> QED BY <1>4, <1>5, <2>1, <2>2
  <1>8. PICK u \in RunType : u = Unprinted(r)
    BY <1>2, UnprintedIs
  <1>9. /\ u.at = "download" /\ Len(u.entries) = Len(r.named)
        /\ \A i \in 1 .. Len(r.named) : u.entries[i] = Line(0, "none")
        /\ u.rows = r.rows /\ u.named = r.named /\ u.there = r.there /\ u.short = r.short
        /\ u.gap = r.gap /\ u.windowed = r.windowed /\ u.listed = r.listed /\ u.todo = r.todo
        /\ u.paired = r.paired /\ u.exit = r.exit /\ u.stopped = r.stopped /\ u.next = r.next
    BY <1>2, <1>8, UnprintedIs
  <1>10. PICK b \in BOOLEAN : b = (got # w)
    BY Zenon
  <1>11. PostsOf(got) \subseteq Posts
    BY <1>7 DEF PostsOf
  <1> DEFINE f == [u EXCEPT !.todo = got, !.listed = PostsOf(got), !.exit = b]
  <1>12. Becomes(j, f)
    BY <1>4, <1>5, <1>8, <1>10
  <1> HIDE DEF window
  <1>13. /\ f.at = "download" /\ f.entries = u.entries /\ f.todo = got /\ f.listed = PostsOf(got) /\ f.exit = b
         /\ f.rows = r.rows /\ f.named = r.named /\ f.there = r.there /\ f.short = r.short
         /\ f.gap = r.gap /\ f.windowed = r.windowed
         /\ f.paired = 0 /\ ~f.stopped /\ f.next = 1
    BY <1>2, <1>9 DEF RunType
  <1>14. f \in RunType
    BY <1>7, <1>11 DEF RunType
  <1> HIDE DEF f, r
  <1>15. /\ Types' /\ Elsewhere(j) /\ Grows /\ run'[j] = f
         /\ archive' \subseteq archive \cup took'[j] /\ took[j] \subseteq took'[j]
    BY <1>1, <1>12, <1>14, TurnIs
  <1>16. SameJob(j) /\ job'[j] = job[j]
    BY <1>1 DEF SameJob
  <1>17. Paying(j)' /\ Good(j)'
    BY <1>2, <1>16, ResolvingPays
  <1>18. Staged(j)'
    BY <1>2, <1>13, <1>15, <1>16 DEF Staged, Is
  <1>19. Stretch(j) /\ (r.windowed => Len(r.named) <= Cap) /\ (Is(j, {"search", "thread"}) => r.windowed)
    BY <1>2, <1>3 DEF JobInv, Named, r
  <1>20. Named(j)'
    <2>1. Stretch(j)'
      BY <1>1, <1>13, <1>15, <1>16, <1>19 DEF Stretch, Nth, Base, Is, r
    <2>2. ~Is(j, {"direct"})'
      BY <1>1, <1>16 DEF Is
    <2> QED BY <1>2, <1>13, <1>15, <1>16, <1>19, <2>1, <2>2 DEF Named, Is
  <1>21. Base(j) \in Nat /\ online \in Nat
    BY <1>2, DownloadsAssumption DEF Base, JobType, Types
  <1>22. Ordered(j)'
    <2>1. \A i, k \in 1 .. Len(got) : i < k => Before(j, got[i], got[k])
      BY <1>7, <1>21 DEF Nth, Before
    <2>2. ASSUME ~b, NEW i \in 1 .. Len(r.named), NEW k \in 1 .. Len(r.named), i < k,
                 r.named[k] \in PostsOf(got)
          PROVE  r.named[i] \in PostsOf(got)
      <3>1. PICK n \in 0 .. online :
               /\ Base(j) + Len(r.named) <= n
               /\ \A x \in 1 .. Len(r.named) : r.named[x] = Nth(j, n, x)
        BY <1>19 DEF Stretch, r
      <3>2. PICK m \in 1 .. Len(got) : got[m] = r.named[k]
        BY SMTT(30), <1>7, <2>2 DEF PostsOf
      <3>3. Nth(j, online, m) = Nth(j, n, k)
        BY <1>7, <3>1, <3>2
      <3> DEFINE d == IF Is(j, {"search"}) THEN online - n ELSE 0
      <3>4. /\ i \in Nat /\ k \in Nat /\ m \in Nat /\ n \in Nat /\ n <= online /\ 1 <= i
            /\ m <= Len(got)
        BY <1>2, <1>7, <1>21
      <3>5. m = k + d /\ d \in Nat
        BY <1>21, <3>3, <3>4 DEF Nth
      <3>6. i + d \in 1 .. Len(got) /\ Nth(j, online, i + d) = Nth(j, n, i)
        BY SMTT(30), <1>7, <1>21, <2>2, <3>4, <3>5 DEF Nth
      <3>7. got[i + d] = r.named[i]
        BY <1>7, <3>1, <3>6
      <3>8. i + d \in DOMAIN got
        BY <1>7, <3>6
      <3> QED BY <3>7, <3>8, PostIs
    <2>3. \A i, k \in 1 .. Len(got) : i < k => Before(j, got[i], got[k])'
      BY <1>16, <2>1 DEF Before, Is
    <2> QED BY <1>13, <1>15, <2>2, <2>3 DEF Ordered
  <1>23. Lines(j)'
    <2>1. \A i \in 1 .. Len(r.named) : f.entries[i].what = "none"
      BY <1>9, <1>13 DEF Line
    <2>2. Len(f.entries) = Len(r.named) /\ ~Is(j, {"direct"})'
      BY <1>1, <1>9, <1>13, <1>16 DEF Is
    <2>3. Len(f.named) = Len(f.entries) /\ 0 <= Len(f.named) /\ Len(f.named) \in Nat
      BY <1>2, <1>13, <2>2
    <2> QED BY <1>13, <1>15, <2>1, <2>2, <2>3 DEF Lines, Skips
  <1>24. Clean(j)'
    <2>1. Passed(j)' = {}
      BY <1>13, <1>15 DEF Passed
    <2>2. \A i \in 1 .. Len(f.named) : ~(i <= f.paired)
      BY <1>13
    <2> QED BY <1>13, <1>15, <2>1, <2>2 DEF Clean
  <1>25. Rows(j)'
    BY <1>2, <1>13, <1>15 DEF Rows
  <1>26. True(j)'
    <2>1. \A i \in 1 .. Len(f.rows) : f.rows[i].outcome = "pending"
      <3>1. \A p : Row(p).outcome = "pending"
        BY DEF Row
      <3> QED BY <1>2, <1>13, <3>1
    <2> QED BY <1>13, <1>15, <2>1 DEF True
  <1>27. Covered(j)'
    <2>1. RowPosts(j)' = RowPosts(j) /\ Passed(j)' = {}
      BY <1>13, <1>15 DEF RowPosts, Passed, r
    <2>2. ~job[j].capped /\ ~r.short =>
             /\ \A p \in r.there : p <= online
             /\ r.gap \/ r.there \subseteq RowPosts(j)
             /\ r.gap =>
                   /\ Is(j, {"pool", "thread"})
                   /\ Is(j, {"pool"}) => ~r.windowed
                   /\ Is(j, {"thread"}) => \A p \in r.there : job[j].offset < p /\ p <= job[j].offset + Cap
      BY <1>1, <1>2 DEF JobInv, Covered, Is, r
    <2>3. ASSUME ~job[j].capped, ~r.short, r.gap, ~b, NEW p \in r.there
          PROVE  p \in PostsOf(got)
      <3>0. r.there \subseteq Posts
        BY <1>2 DEF RunType
      <3>1. got = w /\ p \in Posts /\ p <= online /\ p \in Nat /\ p >= 1
        <4>1. p \in Posts /\ p \in Nat /\ p >= 1
          BY <2>3, <3>0, DownloadsAssumption DEF Posts
        <4> QED BY <1>10, <2>2, <2>3, <4>1
      <3>2. ~Is(j, {"search"})
        BY <2>2, <2>3 DEF Is
      <3>3. CASE Is(j, {"pool"})
        <4>1. Base(j) = 0 /\ ~r.windowed
          BY <2>2, <2>3, <3>3 DEF Base, r
        <4>2. p \in 1 .. Len(got) /\ got[p] = p
          BY <1>6, <1>7, <1>21, <3>1, <3>2, <4>1 DEF Nth
        <4> QED BY <1>7, <4>2, PostIs
      <3>4. CASE Is(j, {"thread"})
        <4>1. Base(j) = job[j].offset
          BY <1>19, <3>4 DEF Base, Is, r
        <4>2. Base(j) < p /\ p <= Base(j) + Cap /\ Cap \in Nat
          BY <2>2, <2>3, <3>4, <4>1, DownloadsAssumption
        <4>3. p - Base(j) \in 1 .. Len(got) /\ got[p - Base(j)] = p
          <5>1. p - Base(j) \in 1 .. Len(got)
            BY <1>6, <1>21, <3>1, <4>2
          <5> QED BY <1>7, <1>21, <3>1, <3>2, <5>1 DEF Nth
        <4>4. p - Base(j) \in DOMAIN got
          BY <1>7, <4>3
        <4> QED BY <4>3, <4>4, PostIs
      <3> QED BY <2>2, <2>3, <3>3, <3>4 DEF Is
    <2> QED BY <1>1, <1>2, <1>13, <1>15, <1>16, <2>1, <2>2, <2>3 DEF Covered, Is
  <1> QED BY <1>1, <1>15, <1>17, <1>18, <1>20, <1>22, <1>23, <1>24, <1>25, <1>26, <1>27 DEF JobInv, Takes

\* A direct link's one file is there, or its download failed.
LEMMA DirectKeeps ==
    ASSUME Types, NEW j \in Ids, JobInv(j), At(j, "launch"), Is(j, {"direct"}),
           NEW f \in RunType, run'[j] = f, f.at = "download",
           f.rows = run[j].rows, f.named = run[j].named, f.there = run[j].there, f.short = run[j].short,
           f.gap = run[j].gap, f.windowed = run[j].windowed, f.next = 1, f.todo = <<>>,
           Len(f.entries) = 1, f.paired <= 1,
           f.entries[1] = Line(0, "none") \/ f.entries[1] = Line(0, "file"),
           f.entries[1] = Line(0, "file") => f.paired = 1,
           ~f.exit => f.entries[1] = Line(0, "file"),
           UNCHANGED <<online, archive, library, job, took, missed>>
    PROVE  JobInv(j)'
  <1>1. /\ job[j].status = "running" /\ run[j].at = "launch" /\ Resolving(j)
        /\ Is(j, Single) /\ Len(run[j].rows) = Len(run[j].named)
        /\ \A i \in 1 .. Len(run[j].named) : run[j].rows[i] = Row(run[j].named[i])
    BY LaunchedIs
  <1>2. run[j].named = << 1 >>
    BY <1>1 DEF JobInv, Named
  <1>3. SameJob(j) /\ job'[j] = job[j]
    BY DEF SameJob
  <1>4. Paying(j)' /\ Good(j)'
    BY <1>1, <1>3, ResolvingPays
  <1>5. ~(Is(j, Many)') /\ Is(j, Single)' /\ Is(j, {"direct"})' /\ ~Is(j, {"pool", "thread"})
    BY <1>1, <1>3 DEF Is, Many
  <1>6. Staged(j)' /\ Ordered(j)' /\ Clean(j)'
    BY <1>1, <1>3, <1>5 DEF Staged, Ordered, Clean
  <1>7. Named(j)'
    BY <1>2, <1>5 DEF Named
  <1>8. Lines(j)'
    <2>1. /\ Len(f.named) = 1 /\ Len(f.entries) = 1 /\ f.paired \in Nat
      BY <1>2 DEF RunType
    <2>2. /\ Line(0, "none").what = "none" /\ Line(0, "file").what = "file"
          /\ Line(0, "none") # Line(0, "file")
      BY DEF Line
    <2>3. f.entries[1] \in {Line(0, "none"), Line(0, "file")}
      OBVIOUS
    <2>4. \A i \in 1 .. Len(f.entries) :
             /\ i = 1 /\ f.entries[i].what \in {"none", "file"}
             /\ i \in f.paired + 1 .. Len(f.named) => f.entries[i].what = "none"
      BY <2>1, <2>2
    <2> QED BY <1>5, <2>1, <2>3, <2>4 DEF Lines, Skips
  <1>9. Rows(j)'
    BY <1>1 DEF Rows
  <1>10. True(j)'
    <2>1. \A p : Row(p).outcome = "pending"
      BY DEF Row
    <2>2. \A i \in 1 .. Len(f.rows) : f.rows[i].outcome = "pending"
      BY <1>1, <2>1
    <2> QED BY <2>2 DEF True
  <1>11. Covered(j)'
    <2>1. RowPosts(j)' = RowPosts(j)
      BY DEF RowPosts
    <2> QED BY <1>1, <1>3, <1>5, <2>1 DEF JobInv, Covered, Is
  <1> QED BY <1>4, <1>6, <1>7, <1>8, <1>9, <1>10, <1>11 DEF JobInv

LEMMA TakeDirectKeeps ==
    ASSUME Types, NEW j \in Ids, JobInv(j), TakeDirect(j)
    PROVE  Types' /\ JobInv(j)' /\ Elsewhere(j) /\ Grows /\ Takes(j)
  <1> DEFINE r == run[j]
  <1>1. At(j, "launch") /\ Is(j, {"direct"}) /\ UNCHANGED <<online, archive, library, job, took, missed, books>>
    BY DEF TakeDirect
  <1>2. /\ r.at = "launch" /\ r \in RunType /\ ~r.exit /\ ~r.stopped /\ r.listed = {} /\ r.todo = <<>>
        /\ r.paired = 0 /\ r.next = 1
    BY <1>1, LaunchedIs
  <1>3. r.named = << 1 >> /\ Len(r.named) = 1
    BY <1>1, <1>2 DEF JobInv, Named
  <1>4. PICK u \in RunType : u = Unprinted(r)
    BY <1>2, UnprintedIs
  <1>5. /\ u.at = "download" /\ Len(u.entries) = Len(r.named)
        /\ \A i \in 1 .. Len(r.named) : u.entries[i] = Line(0, "none")
        /\ u.rows = r.rows /\ u.named = r.named /\ u.there = r.there /\ u.short = r.short
        /\ u.gap = r.gap /\ u.windowed = r.windowed /\ u.listed = r.listed /\ u.todo = r.todo
        /\ u.paired = r.paired /\ u.exit = r.exit /\ u.stopped = r.stopped /\ u.next = r.next
    BY <1>2, <1>4, UnprintedIs
  <1>6. u.entries[1] = Line(0, "none") /\ Line(0, "none") # Line(0, "file")
    BY <1>3, <1>5 DEF Line
  <1>7. CASE Becomes(j, [u EXCEPT !.exit = TRUE])
    <2> DEFINE f == [u EXCEPT !.exit = TRUE]
    <2>1. /\ f \in RunType /\ f.exit /\ f.at = "download" /\ f.entries = u.entries /\ f.paired = 0
          /\ f.rows = r.rows /\ f.named = r.named /\ f.there = r.there /\ f.short = r.short
          /\ f.gap = r.gap /\ f.windowed = r.windowed /\ f.todo = <<>> /\ f.next = 1
      BY <1>2, <1>5 DEF RunType
    <2> HIDE DEF f
    <2>2. /\ Types' /\ Elsewhere(j) /\ Grows /\ run'[j] = f
          /\ archive' \subseteq archive \cup took'[j] /\ took[j] \subseteq took'[j]
      BY <1>1, <1>7, <2>1, TurnIs DEF f
    <2>3. Len(f.entries) = 1 /\ f.paired <= 1 /\ f.entries[1] = Line(0, "none")
      BY <1>3, <1>5, <1>6, <2>1
    <2>4. JobInv(j)'
      BY <1>1, <1>6, <2>1, <2>2, <2>3, DirectKeeps
    <2> QED BY <1>1, <2>2, <2>4 DEF Takes
  <1>8. CASE Becomes(j, PairLine([u EXCEPT !.listed = {1}], Line(0, "file")))
    <2> DEFINE v == [u EXCEPT !.listed = {1}]
    <2>1. 1 \in Posts
      BY DownloadsAssumption DEF Posts
    <2>2. /\ v \in RunType /\ ~v.exit /\ v.at = "download" /\ v.entries = u.entries /\ v.paired = 0
          /\ v.rows = r.rows /\ v.named = r.named /\ v.there = r.there /\ v.short = r.short
          /\ v.gap = r.gap /\ v.windowed = r.windowed /\ v.todo = <<>> /\ v.next = 1
      BY ZenonT(40), <1>2, <1>5, <2>1 DEF RunType
    <2> HIDE DEF v
    <2>3. PICK line \in LineType : line = Line(0, "file") /\ line.post = 0
      <3>1. Line(0, "file") \in LineType /\ Line(0, "file").post = 0
        BY DEF Line, LineType
      <3> QED BY <3>1
    <2>4. PICK f : f = PairLine(v, line)
      OBVIOUS
    <2>5. Len(v.named) <= Len(v.entries) /\ v.paired <= Len(v.named)
      BY <1>3, <1>5, <2>2
    <2>6. /\ f \in RunType /\ f = [v EXCEPT !.entries = f.entries, !.paired = f.paired]
          /\ \E n \in Nat : LinedUp(v, f, line, n)
      BY ZenonT(40), <2>2, <2>4, <2>5, PairLineIs
    <2>7. PICK n \in Nat : LinedUp(v, f, line, n)
      BY <2>6
    <2>8. PICK es, k : f = [v EXCEPT !.entries = es, !.paired = k]
      BY <2>6
    <2>9. /\ ~f.exit /\ f.at = "download"
          /\ f.rows = r.rows /\ f.named = r.named /\ f.there = r.there /\ f.short = r.short
          /\ f.gap = r.gap /\ f.windowed = r.windowed /\ f.todo = <<>> /\ f.next = 1
      BY <2>2, <2>8 DEF RunType
    <2>10. n = 1 /\ f.paired = 1 /\ Len(f.entries) = 1 /\ f.entries[1] = Line(0, "file")
      <3>1. Len(v.entries) = 1 /\ Len(v.named) = 1 /\ v.paired = 0
        BY <1>3, <1>5, <2>2
      <3> QED BY <2>3, <2>7, <3>1 DEF LinedUp
    <2>11. Becomes(j, f)
      BY <1>8, <2>3, <2>4 DEF v
    <2>12. /\ Types' /\ Elsewhere(j) /\ Grows /\ run'[j] = f
           /\ archive' \subseteq archive \cup took'[j] /\ took[j] \subseteq took'[j]
      BY <1>1, <2>6, <2>11, TurnIs
    <2>13. JobInv(j)'
      BY <1>1, <1>6, <2>6, <2>9, <2>10, <2>12, DirectKeeps
    <2> QED BY <1>1, <2>12, <2>13 DEF Takes
  <1>9. \/ Becomes(j, [u EXCEPT !.exit = TRUE])
        \/ Becomes(j, PairLine([u EXCEPT !.listed = {1}], Line(0, "file")))
    BY <1>4 DEF TakeDirect
  <1> QED BY <1>7, <1>8, <1>9

LEMMA ConcatIs ==
    ASSUME NEW s \in Seq(RowType), NEW t \in Seq(RowType)
    PROVE  /\ s \o t \in Seq(RowType) /\ Len(s \o t) = Len(s) + Len(t)
           /\ \A i \in 1 .. Len(s) : (s \o t)[i] = s[i]
           /\ \A i \in Len(s) + 1 .. Len(s) + Len(t) : (s \o t)[i] = t[i - Len(s)]
  OBVIOUS

\* The lines no row was listed for get one.
LEMMA AddedIs ==
    ASSUME NEW r \in RunType, Len(r.named) <= Len(r.entries), Len(r.rows) = Len(r.named),
           NEW rows, rows = r.rows \o Added(r)
    PROVE  /\ rows \in Seq(RowType) /\ Len(rows) = Len(r.entries)
           /\ \A i \in 1 .. Len(r.named) : rows[i] = r.rows[i]
           /\ \A i \in Len(r.named) + 1 .. Len(r.entries) : rows[i] = Row(r.entries[i].post)
  <1> DEFINE more == Added(r)
             m    == Len(r.named)
             n    == Len(r.entries)
  <1>1. r.rows \in Seq(RowType) /\ r.named \in Seq(Nat) /\ r.entries \in Seq(LineType)
    BY DEF RunType
  <1>2. m \in Nat /\ n \in Nat /\ m <= n
    BY <1>1
  <1>3. \A i \in 1 .. n : r.entries[i].post \in Posts \cup {0}
    <2>1. \A i \in 1 .. n : r.entries[i] \in LineType
      BY <1>1
    <2> QED BY <2>1 DEF LineType
  <1> HIDE DEF m, n
  <1>4. \A i \in 1 .. n - m : Row(r.entries[m + i].post) \in RowType
    <2>1. \A i \in 1 .. n - m : m + i \in 1 .. n
      BY <1>2
    <2>2. \A p \in Posts \cup {0} : Row(p) \in RowType
      BY RowIs
    <2> QED BY <1>3, <2>1, <2>2
  <1>5. more = [i \in 1 .. n - m |-> Row(r.entries[m + i].post)]
    BY DEF Added, m, n
  <1> HIDE DEF more
  <1>6. /\ more \in Seq(RowType) /\ Len(more) = n - m
        /\ \A i \in 1 .. n - m : more[i] = Row(r.entries[m + i].post)
    <2>1. PICK c \in Nat : c = n - m
      BY <1>2
    <2>2. more = [i \in 1 .. c |-> Row(r.entries[m + i].post)]
      BY <1>5, <2>1
    <2>3. more \in [1 .. c -> RowType]
      BY <1>4, <2>1, <2>2
    <2>4. more \in Seq(RowType) /\ Len(more) = c
      BY <2>1, <2>3
    <2> QED BY <2>1, <2>2, <2>4
  <1>7. rows = r.rows \o more
    BY DEF more
  <1>8. PICK old \in Seq(RowType) : old = r.rows /\ Len(old) = m
    BY <1>1 DEF m
  <1>9. /\ rows \in Seq(RowType) /\ Len(rows) = m + (n - m)
        /\ \A i \in 1 .. m : rows[i] = old[i]
        /\ \A i \in m + 1 .. m + (n - m) : rows[i] = more[i - m]
    <2> HIDE DEF RowType
    <2>2. rows = old \o more /\ more \in Seq(RowType) /\ Len(more) = n - m /\ n - m \in Nat
      BY <1>2, <1>6, <1>7, <1>8
    <2>3. /\ old \o more \in Seq(RowType) /\ Len(old \o more) = Len(old) + Len(more)
          /\ \A i \in 1 .. Len(old) : (old \o more)[i] = old[i]
          /\ \A i \in Len(old) + 1 .. Len(old) + Len(more) : (old \o more)[i] = more[i - Len(old)]
      BY <2>2, ConcatIs
    <2> QED BY ZenonT(40), <1>8, <2>2, <2>3
  <1>10. ASSUME NEW i \in m + 1 .. n PROVE rows[i] = Row(r.entries[i].post)
    <2>1. i - m \in 1 .. n - m /\ m + (i - m) = i
      BY <1>2
    <2> QED BY SMTT(30), <1>2, <1>6, <1>9, <2>1
  <1> QED BY SMTT(30), <1>2, <1>8, <1>9, <1>10 DEF m, n

LEMMA DownloadedKeeps ==
    ASSUME Types, NEW j \in Ids, JobInv(j), Downloaded(j)
    PROVE  Types' /\ JobInv(j)' /\ Elsewhere(j) /\ Grows /\ Takes(j)
  <1> DEFINE r == run[j]
  <1>1. At(j, "download") /\ r.todo = <<>> /\ UNCHANGED <<online, archive, library, job, took, missed, books>>
    BY DEF Downloaded
  <1>2. job[j].status = "running" /\ r.at = "download" /\ r \in RunType
    BY <1>1 DEF At, Types
  <1>3. Is(j, Single) /\ r.named # <<>>
    BY <1>2 DEF JobInv, Staged, Named
  <1>4. /\ Len(r.rows) = Len(r.named) /\ r.next = 1
        /\ \A i \in 1 .. Len(r.named) : r.rows[i] = Row(r.named[i])
    BY <1>2, <1>3 DEF JobInv, Rows
  <1>5. Len(r.named) <= Len(r.entries) /\ Len(r.named) \in Nat /\ Len(r.entries) \in Nat /\ Len(r.named) > 0
    <2>1. r.named \in Seq(Nat) /\ r.entries \in Seq(LineType)
      BY <1>2 DEF RunType
    <2> QED BY <1>2, <1>3, <2>1 DEF JobInv, Lines
  <1>6. PICK rows : rows = r.rows \o Added(r)
    OBVIOUS
  <1>7. /\ rows \in Seq(RowType) /\ Len(rows) = Len(r.entries)
        /\ \A i \in 1 .. Len(r.named) : rows[i] = r.rows[i]
        /\ \A i \in Len(r.named) + 1 .. Len(r.entries) : rows[i] = Row(r.entries[i].post)
    BY <1>2, <1>4, <1>5, <1>6, AddedIs
  <1>8. \A i \in 1 .. Len(rows) :
           /\ rows[i].outcome = "pending"
           /\ rows[i].post = IF i <= Len(r.named) THEN r.named[i] ELSE r.entries[i].post
    <2>1. \A p : Row(p).outcome = "pending" /\ Row(p).post = p
      BY DEF Row
    <2>2. \A i \in 1 .. Len(rows) : i \in 1 .. Len(r.named) \/ i \in Len(r.named) + 1 .. Len(r.entries)
      BY <1>5, <1>7
    <2> QED BY <1>4, <1>5, <1>7, <2>1, <2>2
  <1> DEFINE f == [r EXCEPT !.at = "push", !.rows = rows]
  <1>9. Becomes(j, f)
    BY <1>2, <1>6 DEF Downloaded, RunType
  <1>10. /\ f.at = "push" /\ f.rows = rows /\ f.named = r.named /\ f.there = r.there /\ f.short = r.short
         /\ f.gap = r.gap /\ f.windowed = r.windowed /\ f.todo = <<>> /\ f.listed = r.listed
         /\ f.paired = r.paired /\ f.stopped = r.stopped /\ f.exit = r.exit /\ f.entries = r.entries
         /\ f.next = 1
    BY <1>1, <1>2, <1>4 DEF RunType
  <1>11. f \in RunType
    BY <1>2, <1>7 DEF RunType, Stages
  <1> HIDE DEF f
  <1>12. /\ Types' /\ Elsewhere(j) /\ Grows /\ run'[j] = f
         /\ archive' \subseteq archive \cup took'[j] /\ took[j] \subseteq took'[j]
    BY <1>1, <1>9, <1>11, TurnIs
  <1>13. /\ job'[j] = job[j] /\ ArchiveMode(j)' = ArchiveMode(j) /\ Passed(j)' = Passed(j)
         /\ Owed(j)' = Owed(j) /\ Nameless(j)' = Nameless(j)
    BY <1>1, <1>10, <1>12 DEF ArchiveMode, Passed, Owed, Nameless, Is
  <1>14. Staged(j)' /\ Ordered(j)' /\ Good(j)'
    BY <1>2, <1>3, <1>10, <1>12, <1>13 DEF Staged, Ordered, Good, Is
  <1>15. Named(j)'
    <2>1. Stretch(j) => Stretch(j)'
      BY <1>1, <1>10, <1>12, <1>13 DEF Stretch, Nth, Base, Is
    <2> QED BY <1>2, <1>10, <1>12, <1>13, <2>1 DEF JobInv, Named, Is
  <1>16. Lines(j)' /\ Clean(j)'
    <2>1. Lines(j)'
      BY SMTT(30), <1>1, <1>2, <1>10, <1>12, <1>13 DEF JobInv, Lines, Is
    <2>2. Clean(j)'
      BY <1>1, <1>2, <1>10, <1>12, <1>13 DEF JobInv, Clean, Is
    <2> QED BY <2>1, <2>2
  <1>17. Rows(j)'
    <2>1. \A i \in 1 .. Len(rows) : ~(i < 1)
      OBVIOUS
    <2> QED BY SMTT(30), <1>5, <1>7, <1>8, <1>10, <1>12, <2>1 DEF Rows
  <1>18. True(j)'
    BY <1>8, <1>10, <1>12 DEF True
  <1>19. Paying(j)'
    BY SMTT(30), <1>1, <1>2, <1>7, <1>8, <1>10, <1>12, <1>13 DEF JobInv, Paying, Is
  <1>20. Covered(j)'
    <2>1. RowPosts(j) \subseteq RowPosts(j)'
      <3> SUFFICES ASSUME NEW i \in 1 .. Len(r.rows) PROVE r.rows[i].post \in RowPosts(j)'
        <4>1. r.rows \in Seq(RowType)
          BY <1>2 DEF RunType
        <4>2. DOMAIN r.rows = 1 .. Len(r.rows)
          BY <4>1
        <4> QED BY <4>2 DEF RowPosts
      <3>1. i \in 1 .. Len(rows) /\ rows[i] = r.rows[i]
        BY <1>4, <1>5, <1>7
      <3>2. i \in DOMAIN rows
        BY <1>7, <3>1
      <3> QED BY <1>10, <1>12, <3>1, <3>2 DEF RowPosts
    <2>2. \A i \in 1 .. Len(r.entries) : rows[i].outcome \in {"pending", "failed"}
      BY <1>7, <1>8
    <2>3. Covered(j) /\ r.at = "download" /\ f.at = "push" /\ job'[j] = job[j] /\ online' = online /\ run'[j] = f
      BY <1>1, <1>2, <1>10, <1>12, <1>13 DEF JobInv
    <2> HIDE DEF r
    <2>4. run[j] = r /\ job[j].status = "running"
      BY <1>2 DEF r
    <2> QED BY SMTT(30), <1>10, <1>13, <2>1, <2>2, <2>3, <2>4 DEF Covered, Is
  <1> QED BY <1>1, <1>12, <1>14, <1>15, <1>16, <1>17, <1>18, <1>19, <1>20 DEF JobInv, Takes

-----------------------------------------------------------------------------
(* Rows settle *)

\* One row has its outcome, and the run goes on with the next.
Settling(r, f, i, o, more) ==
    /\ f.at = (IF i < Len(r.rows) THEN more ELSE "end") /\ f.next = i + 1
    /\ Len(f.rows) = Len(r.rows)
    /\ f.rows[i].outcome = o /\ f.rows[i].post = r.rows[i].post
    /\ \A k \in 1 .. Len(r.rows) : k # i => f.rows[k] = r.rows[k]
    /\ f.named = r.named /\ f.there = r.there /\ f.short = r.short
    /\ f.gap = r.gap /\ f.windowed = r.windowed /\ f.todo = r.todo
    /\ f.listed = r.listed /\ f.paired = r.paired /\ f.stopped = r.stopped
    /\ f.exit = r.exit /\ f.entries = r.entries

LEMMA OutcomeIs ==
    ASSUME Types, NEW j \in Ids, NEW i \in Nat \ {0}, i <= Len(run[j].rows),
           NEW o \in Outcomes, NEW more \in Stages, Outcome(j, i, o, more)
    PROVE  \E f \in RunType : Becomes(j, f) /\ Settling(run[j], f, i, o, more)
  <1> DEFINE r    == run[j]
             rows == r.rows
             row  == [rows[i] EXCEPT !.outcome = o]
             at   == IF i < Len(rows) THEN more ELSE "end"
  <1>1. r \in RunType /\ rows \in Seq(RowType)
    BY DEF Types, RunType
  <1> HIDE DEF r
  <1>2. i \in 1 .. Len(rows) /\ rows[i] \in RowType
    BY <1>1 DEF r
  <1>3. row \in RowType /\ row.outcome = o /\ row.post = rows[i].post
    BY <1>2 DEF RowType
  <1>4. at \in Stages
    BY DEF Stages
  <1> DEFINE new == [rows EXCEPT ![i] = row]
             f   == [r EXCEPT !.rows = new, !.next = i + 1, !.at = at]
  <1>5. run' = [run EXCEPT ![j] = [r EXCEPT !.rows[i].outcome = o, !.next = i + 1, !.at = at]]
    BY DEF Outcome, Becomes, r
  <1>6. [r EXCEPT !.rows[i].outcome = o, !.next = i + 1, !.at = at] = f
    BY <1>1 DEF RunType
  <1>7. Becomes(j, f)
    BY <1>5, <1>6 DEF Becomes
  <1> HIDE DEF row, rows, at
  <1>8. /\ new \in Seq(RowType) /\ Len(new) = Len(rows) /\ new[i] = row
        /\ \A k \in 1 .. Len(rows) : k # i => new[k] = rows[k]
    <2>1. rows \in Seq(RowType)
      BY <1>1
    <2> HIDE DEF RowType
    <2> QED BY <1>2, <1>3, <2>1
  <1> HIDE DEF new
  <1>9. /\ f.at = at /\ f.next = i + 1 /\ f.rows = new
        /\ f.named = r.named /\ f.there = r.there /\ f.short = r.short
        /\ f.gap = r.gap /\ f.windowed = r.windowed /\ f.todo = r.todo
        /\ f.listed = r.listed /\ f.paired = r.paired /\ f.stopped = r.stopped
        /\ f.exit = r.exit /\ f.entries = r.entries
    BY <1>1 DEF RunType
  <1>10. f \in RunType
    <2>1. PICK k \in Nat \ {0} : k = i + 1
      OBVIOUS
    <2>2. new \in Seq(RowType)
      BY <1>1, <1>8 DEF rows
    <2>3. f = [r EXCEPT !.rows = new, !.next = k, !.at = at]
      BY <2>1
    <2> HIDE DEF f
    <2> QED BY <1>1, <1>4, <2>2, <2>3 DEF RunType
  <1> HIDE DEF f
  <1>11. Settling(r, f, i, o, more)
    BY <1>3, <1>8, <1>9 DEF rows, at, Settling
  <1> QED BY <1>7, <1>10, <1>11 DEF r

\* A run that is settling its rows.
LEMMA PushingIs ==
    ASSUME Types, NEW j \in Ids, JobInv(j), At(j, "push")
    PROVE  /\ job[j].status = "running" /\ run[j].at = "push" /\ run[j] \in RunType /\ Is(j, Single)
           /\ run[j].todo = <<>> /\ Passed(j) = run[j].listed
           /\ run[j].next \in Nat \ {0} /\ run[j].next <= Len(run[j].rows)
           /\ Len(run[j].rows) = Len(run[j].entries)
           /\ Len(run[j].named) <= Len(run[j].entries)
           /\ Len(run[j].named) \in Nat /\ Len(run[j].entries) \in Nat
           /\ \A i \in 1 .. Len(run[j].rows) :
                 /\ run[j].rows[i].post
                      = IF i <= Len(run[j].named) THEN run[j].named[i] ELSE run[j].entries[i].post
                 /\ i < run[j].next <=> run[j].rows[i].outcome # "pending"
  <1>1. job[j].status = "running" /\ run[j].at = "push" /\ run[j] \in RunType
    BY DEF At, Types
  <1>2. Is(j, Single)
    BY <1>1 DEF JobInv, Staged
  <1>3. /\ run[j].todo = <<>>
        /\ Len(run[j].rows) = Len(run[j].entries) /\ run[j].next <= Len(run[j].rows)
        /\ \A i \in 1 .. Len(run[j].rows) :
              /\ run[j].rows[i].post = IF i <= Len(run[j].named) THEN run[j].named[i] ELSE run[j].entries[i].post
              /\ i < run[j].next <=> run[j].rows[i].outcome # "pending"
    BY <1>1, <1>2 DEF JobInv, Rows
  <1>4. Len(run[j].named) <= Len(run[j].entries)
    BY <1>1 DEF JobInv, Lines
  <1>5. Passed(j) = run[j].listed
    BY <1>3 DEF Passed, PostsOf
  <1>6. run[j].named \in Seq(Nat) /\ run[j].entries \in Seq(LineType) /\ run[j].next \in Nat \ {0}
    BY <1>1 DEF RunType
  <1>7. Len(run[j].named) \in Nat /\ Len(run[j].entries) \in Nat
    BY <1>6
  <1> QED BY <1>1, <1>2, <1>3, <1>4, <1>5, <1>6, <1>7

\* What a line lets its row say.
Says(j, e, o) ==
    \/ e.what = "none" /\ o = Undownloaded(j)
    \/ e.what \in Skips /\ o = "archived"
    \/ e.what = "unreadable" /\ o = "failed"
    \/ e.what = "file" /\ e.post \in Odd /\ o = "unsupported"
    \/ e.what = "file" /\ o \in {"created", "duplicate"} /\ FileOf(j, e) \in library'
    \/ e.what = "file" /\ o = "failed"

\* What a row says of a line is so.
LEMMA WhatIsSaidIsTrue ==
    ASSUME Types, NEW j \in Ids, JobInv(j), At(j, "push"),
           NEW i \in Nat, i = run[j].next, NEW e, e = run[j].entries[i], NEW o \in Outcomes \ {"pending"}, Says(j, e, o),
           NEW row, row.post = run[j].rows[i].post, row.outcome = o, UNCHANGED archive
    PROVE  /\ row.outcome \in {"created", "duplicate"} => row.post \in library'
           /\ row.outcome = "unsupported" => row.post \in Odd
           /\ row.outcome = "archived" =>
                 /\ \/ row.post \in archive' \/ run[j].stopped \/ row.post \notin run[j].listed
                    \/ i \in Nameless(j) /\ run[j].exit
                 /\ job[j].force => row.post \notin run[j].listed
  <1> DEFINE r == run[j]
  <1>1. /\ job[j].status = "running" /\ r.at = "push" /\ r \in RunType /\ Is(j, Single)
        /\ Passed(j) = r.listed /\ i \in 1 .. Len(r.rows) /\ i \in 1 .. Len(r.entries)
        /\ Len(r.named) \in Nat /\ Len(r.entries) \in Nat
        /\ row.post = IF i <= Len(r.named) THEN r.named[i] ELSE r.entries[i].post
    BY PushingIs
  <1>2. e \in LineType
    <2>1. r.entries \in Seq(LineType)
      BY SMTT(30), <1>1 DEF RunType
    <2> QED BY <1>1, <2>1
  <1>3. /\ e.what = "none" => i <= Len(r.named)
        /\ e.what \in Skips => ArchiveMode(j) # "bypass"
        /\ e.what = "skip" => e.post \in archive
        /\ e.what = "nameless" => e.post = 0
        /\ e.what \in {"skip", "file"} /\ i <= Len(r.named) /\ Is(j, Many) => e.post = r.named[i]
        /\ e.what \in {"skip", "file"} /\ Is(j, Many) => e.post # 0
    BY <1>1 DEF JobInv, Lines
  <1>4. CASE Is(j, Many)
    <2>1. r.named \in Seq(Posts)
      BY SMTT(30), <1>1, <1>4, NamedArePosts
    <2>2. e.what \in {"skip", "file"} => row.post = e.post
      BY <1>1, <1>3, <1>4
    <2>3. CASE e.what = "file" /\ o = "unsupported"
      BY <2>2, <2>3 DEF Says
    <2>4. CASE e.what = "file" /\ o \in {"created", "duplicate"}
      BY <1>3, <1>4, <2>2, <2>4 DEF Says, FileOf
    <2>5. CASE e.what = "skip" /\ o = "archived"
      BY <1>3, <2>2, <2>5 DEF ArchiveMode, Skips
    \* The row may be another post's, but unless something failed all that was listed
    \* is in the archive.
    <2>6. CASE e.what = "nameless" /\ o = "archived"
      <3>1. ArchiveMode(j) # "bypass"
        BY <1>3, <2>6 DEF Skips
      <3>2. ~job[j].force
        BY <3>1 DEF ArchiveMode
      <3>3. CASE r.exit
        <4>1. i \in DOMAIN r.entries
          BY SMTT(30), <1>1 DEF RunType
        <4> QED BY <2>6, <3>2, <3>3, <4>1 DEF Nameless
      <3>4. CASE ~r.exit
        <4>1. r.stopped \/ r.listed \subseteq archive
          BY <1>1, <1>4, <3>1, <3>4 DEF JobInv, Clean
        <4> QED BY <2>6, <3>2, <4>1
      <3> QED BY <3>3, <3>4
    <2>7. CASE e.what = "none" /\ o = "archived"
      <3>1. ~r.exit
        BY <2>7 DEF Says, Undownloaded, Skips
      <3>2. i \in 1 .. Len(r.named) /\ r.named[i] \in Posts /\ row.post = r.named[i]
        BY <1>1, <1>3, <2>1, <2>7
      <3>3. /\ ~r.stopped /\ ArchiveMode(j) # "bypass" => r.listed \subseteq archive
            /\ ArchiveMode(j) = "bypass" =>
                 \A k \in 1 .. Len(r.named) :
                    /\ r.named[k] \in r.listed => k <= r.paired
                    /\ k <= r.paired => r.entries[k].what # "none"
        BY <1>1, <1>4, <3>1 DEF JobInv, Clean
      <3>4. ArchiveMode(j) = "bypass" => r.named[i] \notin r.listed
        BY <2>7, <3>2, <3>3
      <3>5. job[j].force => ArchiveMode(j) = "bypass"
        BY DEF ArchiveMode
      <3> QED BY <2>7, <3>2, <3>3, <3>4, <3>5
    <2>8. CASE o = "failed"
      BY <2>8
    <2> QED BY <2>3, <2>4, <2>5, <2>6, <2>7, <2>8 DEF Says, Undownloaded, Skips
  <1>5. CASE Is(j, {"direct"})
    <2>1. r.named = << 1 >> /\ Len(r.named) = 1 /\ r.named[1] = 1
      <3>1. r.named = << 1 >>
        BY SMTT(30), <1>1, <1>5 DEF JobInv, Named
      <3> QED BY <3>1
    <2>2. /\ Len(r.entries) = 1 /\ r.entries[1] \in {Line(0, "none"), Line(0, "file")}
          /\ ~r.exit => r.entries[1] = Line(0, "file")
      BY <1>1, <1>5 DEF JobInv, Lines
    <2>3. i = 1 /\ row.post = 1
      BY <1>1, <2>1, <2>2
    <2>4. e.post = 0 /\ e.what \in {"none", "file"} /\ (~r.exit => e.what = "file")
      BY <2>2, <2>3 DEF Line
    <2>5. 0 \notin Odd
      BY DownloadsAssumption DEF Posts
    <2>6. FileOf(j, e) = 1
      BY <2>1, <2>4 DEF FileOf
    <2>7. o # "archived"
      BY <2>4 DEF Says, Undownloaded, Skips
    <2>8. o # "unsupported"
      BY <2>4, <2>5 DEF Says, Undownloaded, Skips
    <2>9. o \in {"created", "duplicate"} => 1 \in library'
      BY <2>4, <2>6 DEF Says, Undownloaded, Skips
    <2> QED BY <2>3, <2>7, <2>8, <2>9
  <1> QED BY <1>1, <1>4, <1>5 DEF Is, Single

LEMMA RowKeeps ==
    ASSUME Types, NEW j \in Ids, JobInv(j), At(j, "push"), NEW i \in Nat, i = run[j].next,
           NEW o \in Outcomes \ {"pending"}, Says(j, run[j].entries[i], o), Outcome(j, i, o, "push"),
           UNCHANGED <<online, archive, job, took, missed>>,
           library \subseteq library', library' \subseteq Posts
    PROVE  Types' /\ JobInv(j)' /\ Elsewhere(j) /\ Grows
  <1> DEFINE r == run[j]
             e == r.entries[i]
  <1>1. /\ job[j].status = "running" /\ r.at = "push" /\ r \in RunType /\ Is(j, Single)
        /\ r.todo = <<>> /\ Passed(j) = r.listed
        /\ i \in 1 .. Len(r.rows) /\ i \in Nat \ {0} /\ i <= Len(r.rows)
        /\ Len(r.rows) = Len(r.entries) /\ Len(r.named) <= Len(r.entries)
        /\ Len(r.named) \in Nat /\ Len(r.entries) \in Nat
        /\ \A k \in 1 .. Len(r.rows) :
              /\ r.rows[k].post = IF k <= Len(r.named) THEN r.named[k] ELSE r.entries[k].post
              /\ k < i <=> r.rows[k].outcome # "pending"
    BY SMTT(30), PushingIs
  <1>2. PICK more \in Stages : more = "push"
    BY SMTT(30) DEF Stages
  <1>3. Outcome(j, i, o, more)
    BY SMTT(30), <1>2
  <1>4. PICK f \in RunType :
           /\ Becomes(j, f)
           /\ f.at = (IF i < Len(r.rows) THEN more ELSE "end") /\ f.next = i + 1
           /\ Len(f.rows) = Len(r.rows)
           /\ f.rows[i].outcome = o /\ f.rows[i].post = r.rows[i].post
           /\ \A k \in 1 .. Len(r.rows) : k # i => f.rows[k] = r.rows[k]
           /\ f.named = r.named /\ f.there = r.there /\ f.short = r.short
           /\ f.gap = r.gap /\ f.windowed = r.windowed /\ f.todo = r.todo
           /\ f.listed = r.listed /\ f.paired = r.paired /\ f.stopped = r.stopped
           /\ f.exit = r.exit /\ f.entries = r.entries
    <2>1. i \in Nat \ {0} /\ i <= Len(run[j].rows) /\ o \in Outcomes
      BY <1>1
    <2>2. PICK f \in RunType : Becomes(j, f) /\ Settling(run[j], f, i, o, more)
      BY <1>3, <2>1, OutcomeIs
    <2> QED BY <2>2 DEF Settling
  <1>5. run' \in [Ids -> RunType] /\ run'[j] = f /\ \A q \in Ids \ {j} : run'[q] = run[q]
    BY <1>4, Becoming
  <1>6. online \in Nat
    BY DownloadsAssumption DEF Types
  <1>7. Types' /\ Elsewhere(j) /\ Grows
    BY <1>5, <1>6 DEF Types, Elsewhere, Grows
  <1>8. /\ job'[j] = job[j] /\ ArchiveMode(j)' = ArchiveMode(j) /\ Passed(j)' = Passed(j)
        /\ Nameless(j)' = Nameless(j)
    BY <1>4, <1>5 DEF ArchiveMode, Passed, Nameless, Is
  <1>9. f.at \in {"push", "end"} /\ (f.at = "push" <=> i < Len(r.rows))
    BY <1>2, <1>4
  <1>10. \A k \in 1 .. Len(r.rows) : f.rows[k].post = r.rows[k].post
    BY <1>4
  <1>11. RowPosts(j)' = RowPosts(j)
    <2>1. r.rows \in Seq(RowType) /\ f.rows \in Seq(RowType) /\ Len(f.rows) = Len(r.rows)
      BY <1>1, <1>4 DEF RunType
    <2>2. DOMAIN r.rows = 1 .. Len(r.rows) /\ DOMAIN f.rows = 1 .. Len(r.rows)
      BY <2>1
    <2> QED BY <1>5, <1>10, <2>2 DEF RowPosts
  <1> HIDE DEF r, e
  <1>12. Staged(j)' /\ Ordered(j)' /\ Good(j)'
    BY SMTT(30), <1>1, <1>5, <1>8, <1>9 DEF Staged, Ordered, Good, Is
  <1>13. Named(j)'
    <2>1. Stretch(j) => Stretch(j)'
      BY SMTT(30), <1>4, <1>5, <1>8 DEF Stretch, Nth, Base, Is, r
    <2> QED BY SMTT(30), <1>1, <1>4, <1>5, <1>8, <1>9, <2>1 DEF JobInv, Named, Is, r
  <1>14. Lines(j)'
    <2>1. /\ run'[j].named = run[j].named /\ run'[j].entries = run[j].entries /\ run'[j].paired = run[j].paired
          /\ run'[j].todo = run[j].todo /\ run'[j].exit = run[j].exit /\ run[j].at = "push"
      BY <1>1, <1>4, <1>5 DEF r
    <2>2. Lines(j)
      BY DEF JobInv
    <2> QED BY SMTT(30), <1>8, <2>1, <2>2 DEF Lines, Is
  <1>15. Clean(j)'
    BY SMTT(30), <1>1, <1>4, <1>5, <1>8 DEF JobInv, Clean, Is, r
  \* The rows up to this one are settled.
  <1>16. \A k \in 1 .. Len(r.rows) : k < i + 1 <=> f.rows[k].outcome # "pending"
    <2> SUFFICES ASSUME NEW k \in 1 .. Len(r.rows)
                 PROVE  k < i + 1 <=> f.rows[k].outcome # "pending"
      OBVIOUS
    <2>1. CASE k = i
      BY SMTT(30), <1>1, <1>4, <2>1
    <2>2. CASE k # i
      <3>1. f.rows[k] = r.rows[k] /\ (k < i <=> r.rows[k].outcome # "pending")
        BY <1>1, <1>4, <2>2
      <3>2. k < i + 1 <=> k < i
        BY SMTT(30), <1>1, <2>2
      <3> QED BY <3>1, <3>2
    <2> QED BY <2>1, <2>2
  <1>17. Rows(j)'
    <2>1. CASE f.at = "push"
      <3>1. i < Len(r.rows)
        BY <1>9, <2>1
      <3>2. f.next <= Len(f.rows)
        BY <1>1, <1>4, <3>1
      <3> QED BY SMTT(30), <1>1, <1>4, <1>5, <1>10, <1>16, <2>1, <3>2 DEF Rows
    <2>2. CASE f.at = "end"
      <3>1. ~(i < Len(r.rows))
        BY <1>9, <2>2
      <3>2. \A k \in 1 .. Len(r.rows) : k < i + 1
        BY <1>1, <3>1
      <3> QED BY <1>4, <1>5, <1>16, <2>2, <3>2 DEF Rows
    <2> QED BY SMTT(30), <1>9, <2>1, <2>2
  <1>18. True(j)'
    <2>1. \A k \in 1 .. Len(r.rows) :
             LET row == r.rows[k] IN
             /\ row.outcome \in {"created", "duplicate"} => row.post \in library
             /\ row.outcome = "unsupported" => row.post \in Odd
             /\ row.outcome = "archived" =>
                  /\ \/ row.post \in archive \/ r.stopped \/ row.post \notin r.listed
                     \/ k \in Nameless(j) /\ r.exit
                  /\ job[j].force => row.post \notin r.listed
      BY <1>1 DEF JobInv, True, r
    <2>2. PICK row : row = f.rows[i]
      OBVIOUS
    <2>3. row.post = run[j].rows[i].post /\ row.outcome = o
      BY <1>4, <2>2 DEF r
    <2>4. PICK line : line = run[j].entries[i] /\ Says(j, line, o)
      OBVIOUS
    <2>5. /\ row.outcome \in {"created", "duplicate"} => row.post \in library'
          /\ row.outcome = "unsupported" => row.post \in Odd
          /\ row.outcome = "archived" =>
                /\ \/ row.post \in archive' \/ run[j].stopped \/ row.post \notin run[j].listed
                   \/ i \in Nameless(j) /\ run[j].exit
                /\ job[j].force => row.post \notin run[j].listed
      BY <2>3, <2>4, WhatIsSaidIsTrue
    <2>6. \A k \in 1 .. Len(f.rows) :
             LET w == f.rows[k] IN
             /\ w.outcome \in {"created", "duplicate"} => w.post \in library'
             /\ w.outcome = "unsupported" => w.post \in Odd
             /\ w.outcome = "archived" =>
                  /\ \/ w.post \in archive' \/ f.stopped \/ w.post \notin f.listed
                     \/ k \in Nameless(j)' /\ f.exit
                  /\ job[j].force => w.post \notin f.listed
      <3> SUFFICES ASSUME NEW k \in 1 .. Len(r.rows)
                   PROVE  LET w == f.rows[k] IN
                          /\ w.outcome \in {"created", "duplicate"} => w.post \in library'
                          /\ w.outcome = "unsupported" => w.post \in Odd
                          /\ w.outcome = "archived" =>
                               /\ \/ w.post \in archive' \/ f.stopped \/ w.post \notin f.listed
                                  \/ k \in Nameless(j)' /\ f.exit
                               /\ job[j].force => w.post \notin f.listed
        BY <1>4
      <3>1. CASE k = i
        BY <1>4, <1>8, <2>2, <2>5, <3>1 DEF r
      <3>2. CASE k # i
        BY <1>4, <1>8, <2>1, <3>2
      <3> QED BY <3>1, <3>2
    <2> QED BY <1>5, <1>8, <2>6 DEF True
  <1>19. e = run[j].entries[i] /\ Says(j, e, o)
    BY DEF e, r
  <1>20. Paying(j)'
    <2>1. Owed(j)' \subseteq Owed(j)
      BY DEF Owed
    <2>2. /\ took[j] \subseteq archive
          /\ Is(j, {"book", "title", "direct"}) => took[j] = {}
          /\ ~job[j].force => \A p \in Owed(j) : \E k \in 1 .. Len(r.entries) :
                /\ r.entries[k] \in {Line(p, "file"), Line(0, "unreadable")}
                /\ r.rows[k].outcome \in {"pending", "failed"}
      BY <1>1 DEF JobInv, Paying, r
    <2>3. ASSUME ~job[j].force, NEW p \in Owed(j)'
          PROVE  \E k \in 1 .. Len(r.entries) :
                    /\ r.entries[k] \in {Line(p, "file"), Line(0, "unreadable")}
                    /\ f.rows[k].outcome \in {"pending", "failed"}
      <3>1. PICK k \in 1 .. Len(r.entries) :
               /\ r.entries[k] \in {Line(p, "file"), Line(0, "unreadable")}
               /\ r.rows[k].outcome \in {"pending", "failed"}
        BY <2>1, <2>2, <2>3
      <3>2. CASE k # i
        <4>1. f.rows[k] = r.rows[k]
          BY <1>1, <1>4, <3>2
        <4> QED BY <3>1, <4>1
      <3>3. CASE k = i
        <4>1. e \in {Line(p, "file"), Line(0, "unreadable")}
          BY <3>1, <3>3 DEF e
        <4>2. CASE e = Line(0, "unreadable")
          <5>1. e.what = "unreadable"
            BY <4>2 DEF Line
          <5>2. o = "failed"
            BY <1>19, <5>1 DEF Says, Skips
          <5> QED BY <1>4, <3>1, <3>3, <5>2
        <4>3. CASE e = Line(p, "file")
          <5>1. e.what = "file" /\ e.post = p
            BY <4>3 DEF Line
          <5>2. p \notin library' /\ p \notin Odd /\ p \in Posts
            BY <2>3 DEF Owed, Types
          <5>3. p # 0
            BY <5>2, DownloadsAssumption DEF Posts
          <5>4. FileOf(j, e) = p
            BY <5>1, <5>3 DEF FileOf
          <5>5. o = "failed"
            BY <1>19, <5>1, <5>2, <5>4 DEF Says, Skips
          <5> QED BY <1>4, <3>1, <3>3, <5>5
        <4> QED BY <4>1, <4>2, <4>3
      <3> QED BY <3>2, <3>3
    <2>4. CASE f.at = "push"
      BY <1>1, <1>4, <1>5, <1>8, <2>2, <2>3, <2>4 DEF Paying, Is
    <2>5. CASE f.at = "end"
      <3>1. ASSUME ~job[j].force, NEW p \in Owed(j)' PROVE Failed(j)'
        <4>1. PICK k \in 1 .. Len(r.entries) : f.rows[k].outcome \in {"pending", "failed"}
          BY <2>3, <3>1
        <4>2. k \in 1 .. Len(f.rows) /\ f.rows[k].outcome # "pending"
          <5>1. k < i + 1
            BY <1>1, <1>9, <2>5
          <5> QED BY <1>1, <1>4, <1>16, <5>1
        <4>3. k \in 1 .. Len(f.rows) /\ f.rows[k].outcome = "failed"
          BY <4>1, <4>2
        <4> QED BY <1>5, <4>3 DEF Failed
      <3> QED BY <1>1, <1>5, <1>8, <2>2, <2>5, <3>1 DEF Paying, Is
    <2> QED BY <1>9, <2>4, <2>5, ZenonT(30)
  <1>21. Covered(j)'
    <2> SUFFICES ASSUME ~job[j].capped, ~r.short, ~Is(j, {"book"}) PROVE Covered(j)'
      BY SMTT(30), <1>4, <1>5, <1>8 DEF Covered, Is
    <2>1. /\ ~Is(j, {"direct"}) => \A p \in r.there : p <= online
          /\ r.gap \/ r.there \subseteq RowPosts(j)
          /\ r.gap =>
                /\ Is(j, {"pool", "thread"})
                /\ Is(j, {"pool"}) => ~r.windowed
                /\ Is(j, {"thread"}) => \A p \in r.there : job[j].offset < p /\ p <= job[j].offset + Cap
          /\ r.gap /\ ~r.exit /\ Nameless(j) = {} =>
                /\ r.there \subseteq r.listed
                /\ \/ \E k \in 1 .. Len(r.entries) :
                         /\ r.entries[k].what = "unreadable"
                         /\ r.rows[k].outcome \in {"pending", "failed"}
                   \/ \A p \in r.listed :
                         \/ \E k \in 1 .. Len(r.named) : r.named[k] = p
                         \/ \E k \in Len(r.named) + 1 .. Len(r.entries) : r.entries[k].post = p
      BY <1>1 DEF JobInv, Covered, r
    <2>2. ASSUME NEW k \in 1 .. Len(r.entries), r.entries[k].what = "unreadable",
                 r.rows[k].outcome \in {"pending", "failed"}
          PROVE  f.rows[k].outcome \in {"pending", "failed"}
      <3>1. CASE k = i
        <4>1. e.what = "unreadable"
          BY <2>2, <3>1 DEF e
        <4>2. o = "failed"
          BY <1>19, <4>1 DEF Says, Skips
        <4> QED BY <1>4, <3>1, <4>2
      <3>2. CASE k # i
        BY SMTT(30), <1>1, <1>4, <2>2, <3>2
      <3> QED BY <3>1, <3>2
    <2>3. CASE f.at = "push"
      <3>1. r.gap /\ ~r.exit /\ Nameless(j) = {} =>
               \/ \E k \in 1 .. Len(r.entries) :
                     /\ r.entries[k].what = "unreadable"
                     /\ f.rows[k].outcome \in {"pending", "failed"}
               \/ \A p \in r.listed :
                     \/ \E k \in 1 .. Len(r.named) : r.named[k] = p
                     \/ \E k \in Len(r.named) + 1 .. Len(r.entries) : r.entries[k].post = p
        BY <2>1, <2>2
      <3>2. /\ f.there = r.there /\ f.gap = r.gap /\ f.exit = r.exit /\ f.windowed = r.windowed
            /\ f.listed = r.listed /\ f.entries = r.entries /\ f.named = r.named
        BY SMTT(30), <1>4
      <3>3. Passed(j)' = r.listed /\ job[j].status = "running"
        BY SMTT(30), <1>1, <1>8
      <3> QED BY <1>5, <1>8, <1>11, <2>1, <2>3, <3>1, <3>2, <3>3 DEF Covered, Is
    <2>4. CASE f.at = "end"
      <3>1. r.there \subseteq RowPosts(j) \/ (r.gap /\ (r.exit \/ Nameless(j) # {})) \/ Failed(j)'
        <4> SUFFICES ASSUME r.gap, ~r.exit, Nameless(j) = {} PROVE r.there \subseteq RowPosts(j) \/ Failed(j)'
          BY <2>1
        <4>1. CASE \E k \in 1 .. Len(r.entries) :
                      /\ r.entries[k].what = "unreadable"
                      /\ r.rows[k].outcome \in {"pending", "failed"}
          <5>1. PICK k \in 1 .. Len(r.entries) :
                      /\ r.entries[k].what = "unreadable"
                      /\ r.rows[k].outcome \in {"pending", "failed"}
            BY <4>1
          <5>2. f.rows[k].outcome \in {"pending", "failed"}
            BY <2>2, <5>1
          <5>3. k \in 1 .. Len(f.rows) /\ f.rows[k].outcome # "pending"
            <6>1. k < i + 1
              BY <1>1, <1>9, <2>4
            <6> QED BY <1>1, <1>4, <1>16, <6>1
          <5>4. k \in 1 .. Len(f.rows) /\ f.rows[k].outcome = "failed"
            BY <5>2, <5>3
          <5> QED BY <1>5, <5>4 DEF Failed
        <4>2. CASE \A p \in r.listed :
                      \/ \E k \in 1 .. Len(r.named) : r.named[k] = p
                      \/ \E k \in Len(r.named) + 1 .. Len(r.entries) : r.entries[k].post = p
          <5>1. ASSUME NEW p \in r.listed PROVE p \in RowPosts(j)
            <6>1. PICK k \in 1 .. Len(r.rows) : r.rows[k].post = p
              <7>1. CASE \E k \in 1 .. Len(r.named) : r.named[k] = p
                <8>1. PICK k \in 1 .. Len(r.named) : r.named[k] = p
                  BY <7>1
                <8>2. k \in 1 .. Len(r.rows) /\ k <= Len(r.named)
                  BY <1>1
                <8> QED BY <1>1, <8>1, <8>2
              <7>2. CASE \E k \in Len(r.named) + 1 .. Len(r.entries) : r.entries[k].post = p
                <8>1. PICK k \in Len(r.named) + 1 .. Len(r.entries) : r.entries[k].post = p
                  BY <7>2
                <8>2. k \in 1 .. Len(r.rows) /\ ~(k <= Len(r.named))
                  BY <1>1
                <8> QED BY <1>1, <8>1, <8>2
              <7> QED BY <4>2, <5>1, <7>1, <7>2
            <6>2. k \in DOMAIN r.rows
              BY SMTT(30), <1>1 DEF RunType
            <6> QED BY <6>1, <6>2 DEF RowPosts, r
          <5> QED BY <2>1, <5>1
        <4> QED BY <2>1, <4>1, <4>2
      <3> QED BY <1>1, <1>4, <1>5, <1>8, <1>11, <2>4, <3>1 DEF Covered, Is
    <2> QED BY SMTT(30), <1>9, <2>3, <2>4
  <1> QED BY <1>7, <1>12, <1>13, <1>14, <1>15, <1>17, <1>18, <1>20, <1>21 DEF JobInv

LEMMA SettleRowKeeps ==
    ASSUME Types, NEW j \in Ids, JobInv(j), SettleRow(j)
    PROVE  Types' /\ JobInv(j)' /\ Elsewhere(j) /\ Grows /\ Takes(j)
  <1>1. At(j, "push") /\ UNCHANGED <<online, archive, library, job, took, missed, books>>
    BY DEF SettleRow
  <1>2. PICK i \in Nat : i = run[j].next
    BY DEF Types, RunType
  <1>3. PICK o \in Outcomes \ {"pending"} : Says(j, run[j].entries[i], o) /\ Outcome(j, i, o, "push")
    <2> DEFINE e == run[j].entries[i]
    <2>1. \/ e.what = "none"       /\ Outcome(j, i, Undownloaded(j), "push")
          \/ e.what \in Skips      /\ Outcome(j, i, "archived", "push")
          \/ e.what = "unreadable" /\ Outcome(j, i, "failed", "push")
          \/ e.what = "file" /\ e.post \in Odd /\ Outcome(j, i, "unsupported", "push")
      BY <1>2 DEF SettleRow, Skips
    <2>2. \E o \in Outcomes \ {"pending"} :
             \/ e.what = "none" /\ o = Undownloaded(j) /\ Outcome(j, i, o, "push")
             \/ e.what \in Skips /\ o = "archived" /\ Outcome(j, i, o, "push")
             \/ e.what = "unreadable" /\ o = "failed" /\ Outcome(j, i, o, "push")
             \/ e.what = "file" /\ e.post \in Odd /\ o = "unsupported" /\ Outcome(j, i, o, "push")
      <3> HIDE DEF e
      <3>1. Undownloaded(j) \in Outcomes \ {"pending"}
        BY DEF Undownloaded, Outcomes
      <3>2. /\ "archived" \in Outcomes \ {"pending"} /\ "failed" \in Outcomes \ {"pending"}
            /\ "unsupported" \in Outcomes \ {"pending"}
        BY DEF Outcomes
      <3> QED BY <2>1, <3>1, <3>2, Zenon
    <2> QED BY <2>2 DEF Says
  <1>4. library \subseteq library' /\ library' \subseteq Posts
    BY <1>1 DEF Types
  <1>5. Types' /\ JobInv(j)' /\ Elsewhere(j) /\ Grows
    BY <1>1, <1>2, <1>3, <1>4, RowKeeps
  <1> QED BY <1>1, <1>5 DEF Takes

LEMMA PushKeeps ==
    ASSUME Types, NEW j \in Ids, JobInv(j), Push(j)
    PROVE  Types' /\ JobInv(j)' /\ Elsewhere(j) /\ Grows /\ Takes(j)
  <1> DEFINE e == run[j].entries[run[j].next]
             p == FileOf(j, e)
  <1>1. At(j, "push") /\ UNCHANGED <<online, archive, job, took, missed, books>> /\ e.what = "file" /\ e.post \notin Odd
    BY DEF Push
  <1>2. PICK i \in Nat : i = run[j].next
    BY DEF Types, RunType
  <1>3. p \in Posts
    BY <1>1, FileIsPost
  <1>4. Accepted(j, i, p, "push") \/ Unanswered(j, i, p, "push")
    BY <1>2 DEF Push
  <1>5. library \subseteq library' /\ library' \subseteq Posts
    BY SMTT(30), <1>3, <1>4 DEF Accepted, Unanswered, Types
  <1>6. PICK o \in Outcomes \ {"pending"} : Says(j, run[j].entries[i], o) /\ Outcome(j, i, o, "push")
    <2>1. CASE Accepted(j, i, p, "push")
      <3>1. PICK o \in {"created", "duplicate"} : Outcome(j, i, o, "push") /\ p \in library'
        <4>1. PICK o : o = IF p \in library THEN "duplicate" ELSE "created"
          OBVIOUS
        <4> QED BY SMTT(30), <2>1, <4>1 DEF Accepted
      <3>2. o \in Outcomes \ {"pending"}
        BY DEF Outcomes
      <3> QED BY <1>1, <1>2, <3>1, <3>2 DEF Says
    <2>2. CASE Unanswered(j, i, p, "push")
      <3>1. PICK o \in Outcomes \ {"pending"} : o = "failed"
        BY DEF Outcomes
      <3>2. Outcome(j, i, o, "push")
        BY <2>2, <3>1 DEF Unanswered
      <3> QED BY <1>1, <1>2, <3>1, <3>2 DEF Says
    <2> QED BY SMTT(30), <1>4, <2>1, <2>2
  <1>7. Types' /\ JobInv(j)' /\ Elsewhere(j) /\ Grows
    BY <1>1, <1>2, <1>5, <1>6, RowKeeps
  <1> QED BY <1>1, <1>7 DEF Takes

-----------------------------------------------------------------------------
(* Books *)

LEMMA BookingIs ==
    ASSUME Types, NEW j \in Ids, JobInv(j), \E s \in {"chapter", "pages", "bundle"} : At(j, s)
    PROVE  /\ job[j].status = "running" /\ Is(j, {"book", "title"}) /\ run[j] \in RunType
           /\ run[j].rows \in Seq(RowType) /\ run[j].next \in Nat \ {0}
           /\ run[j].at \in {"pages", "bundle"} => run[j].next <= Len(run[j].rows)
           /\ Is(j, {"title"}) /\ ~job[j].capped /\ ~run[j].short => run[j].there \subseteq RowPosts(j)
  <1>1. job[j].status = "running" /\ run[j].at \in {"chapter", "pages", "bundle"} /\ run[j] \in RunType
    BY DEF At, Types
  <1>2. /\ Is(j, {"book", "title"})
        /\ run[j].at \in {"pages", "bundle"} => run[j].next <= Len(run[j].rows)
    BY <1>1 DEF JobInv, Staged
  <1>3. Is(j, {"title"}) /\ ~job[j].capped /\ ~run[j].short => run[j].there \subseteq RowPosts(j)
    BY <1>1 DEF JobInv, Covered, Is
  <1>4. run[j].rows \in Seq(RowType) /\ run[j].next \in Nat \ {0}
    BY <1>1 DEF RunType
  <1> QED BY <1>1, <1>2, <1>3, <1>4

\* A step of a book that keeps its rows.
LEMMA SameRowsKeep ==
    ASSUME Types, NEW j \in Ids, JobInv(j), \E s \in {"chapter", "pages", "bundle"} : At(j, s),
           NEW r \in RunType, Becomes(j, r), r.at \in {"chapter", "pages", "bundle", "end"},
           r.rows = run[j].rows, r.next = run[j].next, r.there = run[j].there, r.short = run[j].short,
           r.at \in {"pages", "bundle"} => run[j].next <= Len(run[j].rows),
           UNCHANGED <<online, archive, library, job, took, missed>>
    PROVE  Types' /\ JobInv(j)' /\ Elsewhere(j) /\ Grows
  <1>1. Types' /\ SameJob(j) /\ Elsewhere(j) /\ Grows /\ run'[j] = r
    BY StepIs
  <1>2. /\ job[j].status = "running" /\ Is(j, {"book", "title"})
        /\ Is(j, {"title"}) /\ ~job[j].capped /\ ~run[j].short => run[j].there \subseteq RowPosts(j)
    BY BookingIs
  <1>3. RowPosts(j)' = RowPosts(j)
    BY <1>1 DEF RowPosts
  <1>4. Is(j, {"title"}) /\ ~job'[j].capped /\ ~r.short => r.there \subseteq RowPosts(j)'
    BY <1>2, <1>3
  <1>5. r.at \in {"pages", "bundle"} => r.next <= Len(r.rows)
    OBVIOUS
  <1> QED BY <1>1, <1>2, <1>4, <1>5, BookKeeps

\* A step of a book that settles its row.
LEMMA BookRowKeeps ==
    ASSUME Types, NEW j \in Ids, JobInv(j), \E s \in {"chapter", "pages", "bundle"} : At(j, s),
           NEW i \in Nat \ {0}, i = run[j].next, i <= Len(run[j].rows),
           NEW o \in Outcomes, Outcome(j, i, o, "chapter"),
           UNCHANGED <<online, archive, library, job, took, missed>>
    PROVE  Types' /\ JobInv(j)' /\ Elsewhere(j) /\ Grows
  <1>1. PICK more \in Stages : more = "chapter"
    BY DEF Stages
  <1>2. Outcome(j, i, o, more)
    BY <1>1
  <1>3. PICK f \in RunType : Becomes(j, f) /\ Settling(run[j], f, i, o, more)
    BY <1>2, OutcomeIs
  <1>4. Types' /\ SameJob(j) /\ Elsewhere(j) /\ Grows /\ run'[j] = f
    BY <1>3, StepIs
  <1>5. /\ job[j].status = "running" /\ Is(j, {"book", "title"}) /\ run[j].rows \in Seq(RowType)
        /\ Is(j, {"title"}) /\ ~job[j].capped /\ ~run[j].short => run[j].there \subseteq RowPosts(j)
    BY BookingIs
  <1>6. /\ f.at \in {"chapter", "end"} /\ Len(f.rows) = Len(run[j].rows)
        /\ \A k \in 1 .. Len(run[j].rows) : f.rows[k].post = run[j].rows[k].post
        /\ f.there = run[j].there /\ f.short = run[j].short
    BY <1>1, <1>3 DEF Settling
  <1>7. RowPosts(j)' = RowPosts(j)
    <2>1. DOMAIN run[j].rows = 1 .. Len(run[j].rows) /\ DOMAIN f.rows = 1 .. Len(run[j].rows)
      BY SMTT(30), <1>5, <1>6 DEF RunType
    <2> QED BY <1>4, <1>6, <2>1 DEF RowPosts
  <1>8. Is(j, {"title"}) /\ ~job'[j].capped /\ ~f.short => f.there \subseteq RowPosts(j)'
    BY <1>5, <1>6, <1>7
  <1>9. f.at \in {"chapter", "pages", "bundle", "end"} /\ (f.at \in {"pages", "bundle"} => f.next <= Len(f.rows))
    BY <1>6
  <1> QED BY <1>4, <1>5, <1>8, <1>9, BookKeeps

LEMMA ResolveChapterKeeps ==
    ASSUME Types, NEW j \in Ids, JobInv(j), ResolveChapter(j)
    PROVE  Types' /\ JobInv(j)' /\ Elsewhere(j) /\ Grows
  <1>1. At(j, "chapter") /\ UNCHANGED <<online, archive, library, job, took, missed>>
    BY DEF ResolveChapter
  <1>2. /\ \E s \in {"chapter", "pages", "bundle"} : At(j, s)
        /\ run[j] \in RunType /\ run[j].next \in Nat \ {0} /\ run[j].rows \in Seq(RowType)
    BY <1>1, BookingIs
  <1>3. CASE run[j].next > Len(run[j].rows)
    <2> DEFINE r == [run[j] EXCEPT !.at = "end"]
    <2>1. r \in RunType
      BY <1>2 DEF RunType, Stages
    <2>2. /\ r.at = "end" /\ r.rows = run[j].rows /\ r.next = run[j].next /\ r.there = run[j].there
          /\ r.short = run[j].short
      BY <1>2 DEF RunType
    <2>3. Becomes(j, r)
      BY <1>3 DEF ResolveChapter
    <2> HIDE DEF r
    <2>4. r.at \in {"chapter", "pages", "bundle", "end"} /\ r.at \notin {"pages", "bundle"}
      BY <2>2
    <2> QED BY <1>1, <1>2, <2>1, <2>2, <2>3, <2>4, SameRowsKeep
  <1>4. CASE ~(run[j].next > Len(run[j].rows))
    <2> DEFINE pages == [i \in 1 .. Pages |-> i]
    <2>1. PICK named \in Listings(pages) :
             Becomes(j, [run[j] EXCEPT !.at = "pages", !.named = named, !.windowed = FALSE])
      BY <1>4 DEF ResolveChapter
    <2>2. named \in Seq(Nat)
      <3>1. pages \in Seq(Nat)
        BY DownloadsAssumption
      <3> HIDE DEF pages
      <3> QED BY <2>1, <3>1, ListingsAre
    <2> DEFINE r == [run[j] EXCEPT !.at = "pages", !.named = named, !.windowed = FALSE]
    <2>3. r \in RunType
      BY <1>2, <2>2 DEF RunType, Stages
    <2>4. /\ r.at = "pages" /\ r.rows = run[j].rows /\ r.next = run[j].next /\ r.there = run[j].there
          /\ r.short = run[j].short
      BY <1>2 DEF RunType
    <2>5. Becomes(j, r)
      BY <2>1
    <2> HIDE DEF r
    <2>6. r.at \in {"chapter", "pages", "bundle", "end"} /\ run[j].next <= Len(run[j].rows)
      BY <1>2, <1>4, <2>4
    <2> QED BY <1>1, <1>2, <2>3, <2>4, <2>5, <2>6, SameRowsKeep
  <1> QED BY <1>3, <1>4

LEMMA ChapterFailsKeeps ==
    ASSUME Types, NEW j \in Ids, JobInv(j), ChapterFails(j)
    PROVE  Types' /\ JobInv(j)' /\ Elsewhere(j) /\ Grows
  <1>1. At(j, "chapter") /\ UNCHANGED <<online, archive, library, job, took, missed>>
    BY DEF ChapterFails
  <1>2. /\ \E s \in {"chapter", "pages", "bundle"} : At(j, s)
        /\ run[j].next \in Nat \ {0} /\ run[j].next <= Len(run[j].rows)
    BY <1>1, BookingIs DEF ChapterFails
  <1>3. PICK i \in Nat \ {0}, o \in Outcomes : i = run[j].next /\ Outcome(j, i, o, "chapter")
    BY <1>2 DEF ChapterFails, Outcomes
  <1> QED BY <1>1, <1>2, <1>3, BookRowKeeps

LEMMA TakePagesKeeps ==
    ASSUME Types, NEW j \in Ids, JobInv(j), TakePages(j)
    PROVE  Types' /\ JobInv(j)' /\ Elsewhere(j) /\ Grows
  <1>1. At(j, "pages") /\ UNCHANGED <<online, archive, library, job, took, missed>>
    BY DEF TakePages
  <1>2. /\ \E s \in {"chapter", "pages", "bundle"} : At(j, s)
        /\ run[j] \in RunType /\ run[j].at = "pages" /\ run[j].next <= Len(run[j].rows)
    BY <1>1, BookingIs DEF At
  <1>3. PICK got \in Nat, exit \in BOOLEAN :
           Becomes(j, [run[j] EXCEPT !.at = "bundle", !.got = got, !.exit = exit])
    <2>1. PICK got \in 0 .. BookPages(j), cut \in BOOLEAN :
             Becomes(j, [run[j] EXCEPT !.at = "bundle", !.got = got, !.exit = cut])
      BY Zenon DEF TakePages
    <2>2. got \in Nat
      BY <2>1
    <2> QED BY <2>1, <2>2
  <1> DEFINE r == [run[j] EXCEPT !.at = "bundle", !.got = got, !.exit = exit]
  <1>4. r \in RunType
    BY <1>2 DEF RunType, Stages
  <1>5. /\ r.at = "bundle" /\ r.rows = run[j].rows /\ r.next = run[j].next /\ r.there = run[j].there
        /\ r.short = run[j].short
    BY <1>2 DEF RunType
  <1>6. Becomes(j, r)
    BY <1>3
  <1> HIDE DEF r
  <1>7. r.at \in {"chapter", "pages", "bundle", "end"}
    BY <1>5
  <1> QED BY <1>1, <1>2, <1>4, <1>5, <1>6, <1>7, SameRowsKeep

\* A book is pushed with what its resolve found.
LEMMA BundleKeeps ==
    ASSUME Types, NEW j \in Ids, JobInv(j), WholeBooks, Bundle(j)
    PROVE  Types' /\ JobInv(j)' /\ Elsewhere(j) /\ Grows /\ WholeBooks'
  <1>1. At(j, "bundle") /\ UNCHANGED <<online, archive, library, job, took, missed>>
    BY DEF Bundle
  <1>2. /\ \E s \in {"chapter", "pages", "bundle"} : At(j, s)
        /\ run[j].next \in Nat \ {0} /\ run[j].next <= Len(run[j].rows)
    BY <1>1, BookingIs DEF At
  <1>3. PICK i \in Nat \ {0} : i = run[j].next
    BY <1>2
  <1>4. \E o \in Outcomes : Outcome(j, i, o, "chapter")
    <2>1. \/ Outcome(j, i, Undownloaded(j), "chapter")
          \/ Outcome(j, i, "failed", "chapter")
          \/ Outcome(j, i, "created", "chapter")
      BY <1>3 DEF Bundle
    <2>2. Undownloaded(j) \in Outcomes /\ "failed" \in Outcomes /\ "created" \in Outcomes
      BY DEF Undownloaded, Outcomes
    <2> QED BY <2>1, <2>2, Zenon
  <1>5. Types' /\ JobInv(j)' /\ Elsewhere(j) /\ Grows
    <2>1. PICK o \in Outcomes : Outcome(j, i, o, "chapter")
      BY <1>4
    <2> QED BY <1>1, <1>2, <1>3, <2>1, BookRowKeeps
  <1>6. WholeBooks'
    <2> DEFINE has  == IF Is(j, {"title"}) THEN Pages ELSE Cardinality(run[j].there)
               of   == IF Is(j, {"title"}) THEN run[j].rows[i].post ELSE 0
               book == [of |-> of, pages |-> run[j].got, found |-> Len(run[j].named), has |-> has]
    <2>1. books' = books \/ (IsWhole(j) /\ books' = books \cup {book})
      BY <1>3, Zenon DEF Bundle
    <2>2. book.pages = run[j].got /\ book.found = Len(run[j].named)
      OBVIOUS
    <2> HIDE DEF book
    <2> QED BY <2>1, <2>2 DEF WholeBooks, IsWhole
  <1> QED BY SMTT(30), <1>5, <1>6

-----------------------------------------------------------------------------
(* The end of a run *)

LEMMA DerivedIs ==
    ASSUME NEW rows \in Seq(RowType)
    PROVE  /\ Derived(rows) \in {"succeeded", "failed", "partial"}
           /\ Derived(rows) = "succeeded" => \A i \in 1 .. Len(rows) : rows[i].outcome # "failed"
  <1>1. DOMAIN rows = 1 .. Len(rows)
    OBVIOUS
  <1> QED BY <1>1 DEF Derived

\* A run that succeeds leaves nothing owed of what it listed and has a row of.
LEMMA SuccessPays ==
    ASSUME Types, NEW j \in Ids, JobInv(j), At(j, "end"),
           \A i \in 1 .. Len(run[j].rows) : run[j].rows[i].outcome # "failed",
           NEW p \in Owed(j), p \in run[j].listed, p \in RowPosts(j)
    PROVE  FALSE
  <1>1. run[j] \in RunType /\ run[j].rows \in Seq(RowType) /\ job[j] \in JobType
    BY DEF Types, RunType
  <1>2. p \in took[j] /\ p \in Posts /\ p \notin library /\ p \notin Odd
    BY DEF Owed, Types
  <1>3. Is(j, Single)
    BY <1>1, <1>2 DEF JobInv, Paying, Is, Single, Many, JobType, Kinds
  <1>4. PICK i \in 1 .. Len(run[j].rows) : run[j].rows[i].post = p
    BY <1>1 DEF RowPosts
  <1>5. PICK row \in RowType : row = run[j].rows[i]
    BY <1>1, <1>4
  <1>6. row.outcome # "pending" /\ row.outcome # "failed"
    BY <1>3, <1>5 DEF JobInv, Rows, At
  <1>7. row.outcome \in {"created", "duplicate", "archived", "unsupported"}
    BY <1>5, <1>6 DEF RowType, Outcomes
  <1>8. row.post = p
    BY <1>4, <1>5
  <1>9. /\ row.outcome \in {"created", "duplicate"} => p \in library
        /\ row.outcome = "unsupported" => p \in Odd
        /\ row.outcome = "archived" /\ job[j].force => p \notin run[j].listed
    BY <1>3, <1>5, <1>8 DEF JobInv, True, At
  <1>10. job[j].force
    <2>1. ~Failed(j)
      BY DEF Failed
    <2> QED BY <2>1 DEF JobInv, Paying, At
  <1> QED BY <1>2, <1>7, <1>9, <1>10

LEMMA EndKeeps ==
    ASSUME Types, NEW j \in Ids, JobInv(j), End(j)
    PROVE  Types' /\ JobInv(j)' /\ Elsewhere(j) /\ Grows
  <1> DEFINE r == run[j]
             s == Derived(run[j].rows)
             f == Ended(run[j], run[j].rows)
  <1>1. /\ At(j, "end") /\ HasStatus(j, s) /\ Becomes(j, f)
        /\ UNCHANGED <<online, archive, library, took>>
    BY DEF End
  <1>2. r \in RunType /\ r.rows \in Seq(RowType) /\ job[j].status = "running" /\ r.at = "end"
    BY <1>1 DEF Types, RunType, At
  <1>3. /\ s \in {"succeeded", "failed", "partial"}
        /\ s = "succeeded" => \A i \in 1 .. Len(r.rows) : r.rows[i].outcome # "failed"
    BY <1>2, DerivedIs
  <1>4. /\ f \in RunType /\ f.at = "off" /\ f.rows = r.rows /\ f.there = r.there
        /\ f.short = r.short /\ f.gap = r.gap /\ f.listed = r.listed
        /\ f.stopped = r.stopped /\ f.exit = r.exit /\ f.entries = r.entries
    BY <1>2, EndedIs
  <1>5. /\ missed \subseteq missed'
        /\ s = "succeeded" => took[j] \ (r.listed \cap RowPosts(j)) \subseteq missed'
    BY DEF End
  <1> HIDE DEF s, f
  <1>6. run' \in [Ids -> RunType] /\ run'[j] = f /\ \A q \in Ids \ {j} : run'[q] = run[q]
    BY <1>1, <1>4, Becoming
  <1>7. s \in Settled /\ s \in Settled \cup {"none", "queued", "running"}
    BY <1>3 DEF Settled
  <1>8. /\ job' \in [Ids -> JobType] /\ job'[j].status = s
        /\ job'[j].kind = job[j].kind /\ job'[j].force = job[j].force /\ job'[j].capped = job[j].capped
        /\ \A q \in Ids \ {j} : job'[q] = job[q]
    BY <1>1, <1>7, HavingStatus
  <1>9. online \in Nat
    BY DownloadsAssumption DEF Types
  <1>10. Types' /\ Elsewhere(j) /\ Grows
    BY <1>1, <1>5, <1>6, <1>8, <1>9 DEF Types, Elsewhere, Grows
  <1>11. s \notin {"none", "queued", "running"}
    BY <1>3
  <1>12. (Failed(j)' <=> Failed(j)) /\ RowPosts(j)' = RowPosts(j) /\ Nameless(j)' = Nameless(j)
    BY <1>4, <1>6 DEF Failed, RowPosts, Nameless
  <1>13. Staged(j)' /\ Named(j)' /\ Ordered(j)' /\ Lines(j)' /\ Clean(j)' /\ Rows(j)'
    BY <1>4, <1>6, <1>8, <1>11 DEF Staged, Named, Ordered, Lines, Clean, Rows
  <1>14. True(j)'
    BY <1>1, <1>4, <1>6, <1>8, <1>12 DEF JobInv, True, Is
  <1>15. s = "succeeded" => ~Failed(j)'
    BY <1>3, <1>12 DEF Failed
  <1>16. Good(j)'
    BY <1>8, <1>15 DEF Good
  <1>17. Covered(j)'
    BY <1>2, <1>4, <1>6, <1>8, <1>11, <1>12 DEF JobInv, Covered, Is
  <1>18. Paying(j)'
    <2>1. took'[j] \subseteq archive' /\ (Is(j, {"book", "title", "direct"})' => took'[j] = {})
      BY <1>1, <1>8 DEF JobInv, Paying, Is
    <2>2. ASSUME s = "succeeded", NEW p \in Owed(j)' PROVE FALSE
      <3>1. p \in took[j] /\ p \notin library /\ p \notin Odd /\ p \notin missed'
        BY <1>1, <2>2 DEF Owed
      <3>2. p \in Owed(j) /\ p \in r.listed /\ p \in RowPosts(j)
        BY <1>5, <2>2, <3>1 DEF Owed
      <3>3. \A i \in 1 .. Len(r.rows) : r.rows[i].outcome # "failed"
        BY <1>3, <2>2
      <3> QED BY <1>1, <3>2, <3>3, SuccessPays
    <2> QED BY <1>8, <1>11, <2>1, <2>2 DEF Paying
  <1> QED BY <1>10, <1>13, <1>14, <1>16, <1>17, <1>18 DEF JobInv

-----------------------------------------------------------------------------
(* The invariant *)

\* Every recorded post was taken by some job.
Taken == \A p \in archive : \E j \in Ids : p \in took[j]

IInv == Types /\ (\A j \in Ids : JobInv(j)) /\ Taken /\ WholeBooks

LEMMA InitIs == Init => IInv
  <1> SUFFICES ASSUME Init PROVE IInv
    OBVIOUS
  <1>1. /\ archive = {} /\ library = {} /\ missed = {} /\ books = {}
        /\ job = [j \in Ids |-> NoJob] /\ run = [j \in Ids |-> NoRun] /\ took = [j \in Ids |-> {}]
        /\ online \in {MaxPosts - 1, MaxPosts}
    BY DEF Init
  <1>2. NoJob \in JobType /\ NoJob.status = "none"
    BY DEF NoJob, JobType, Kinds
  <1>3. NoRun.at = "off" /\ NoRun.rows = <<>>
    BY DEF NoRun
  <1>4. Types
    <2>1. online \in 0 .. MaxPosts
      BY <1>1, DownloadsAssumption
    <2> QED BY <1>1, <1>2, <2>1, NoRunIs DEF Types
  <1>5. ASSUME NEW j \in Ids PROVE JobInv(j)
    <2>1. run[j] = NoRun /\ job[j] = NoJob /\ took[j] = {}
      BY <1>1
    <2>2. Staged(j) /\ Named(j) /\ Ordered(j) /\ Lines(j) /\ Clean(j) /\ Rows(j) /\ True(j)
      BY <1>2, <1>3, <2>1 DEF Staged, Named, Ordered, Lines, Clean, Rows, True
    <2>3. Paying(j)
      BY <1>2, <2>1 DEF Paying, Owed
    <2>4. Covered(j) /\ Good(j)
      BY <1>2, <1>3, <2>1 DEF Covered, Good
    <2> QED BY <2>2, <2>3, <2>4 DEF JobInv
  <1> QED BY <1>1, <1>4, <1>5 DEF IInv, Taken, WholeBooks

\* What a step of one job has to keep.
Turn(j) ==
    /\ Types' /\ JobInv(j)' /\ Elsewhere(j) /\ Grows
    /\ archive' \subseteq archive \cup took'[j] /\ took[j] \subseteq took'[j]
    /\ WholeBooks'

LEMMA ProcessTurns ==
    ASSUME Types, NEW j \in Ids, JobInv(j), WholeBooks, Process(j)
    PROVE  Turn(j)
  <1>1. Takes(j) => WholeBooks'
    BY DEF Takes, WholeBooks
  <1>2. UNCHANGED <<archive, took, books>> => Takes(j)
    BY DEF Takes
  <1>3. CASE Resolve(j)
    <2>1. Takes(j)
      BY <1>2, <1>3 DEF Resolve
    <2> QED BY <1>1, <1>3, <2>1, ResolveKeeps DEF Turn, Takes
  <1>4. CASE ResolveWhole(j)
    <2>1. Takes(j)
      BY <1>2, <1>4 DEF ResolveWhole
    <2> QED BY <1>1, <1>4, <2>1, ResolveWholeKeeps DEF Turn, Takes
  <1>5. CASE ResolveChildren(j)
    <2>1. Takes(j)
      BY <1>2, <1>5 DEF ResolveChildren
    <2> QED BY <1>1, <1>5, <2>1, ResolveChildrenKeeps DEF Turn, Takes
  <1>6. CASE ResolveDeep(j)
    <2>1. Takes(j)
      BY <1>2, <1>6 DEF ResolveDeep
    <2> QED BY <1>1, <1>6, <2>1, ResolveDeepKeeps DEF Turn, Takes
  <1>7. CASE ResolveDirect(j)
    <2>1. Takes(j)
      BY <1>2, <1>7 DEF ResolveDirect
    <2> QED BY <1>1, <1>7, <2>1, ResolveDirectKeeps DEF Turn, Takes
  <1>8. CASE ResolveFails(j) \/ WorkDirFails(j) \/ Panic(j)
    <2>1. Breaks(j)
      BY <1>8 DEF ResolveFails, WorkDirFails, Panic
    <2> QED BY <1>1, <1>2, <2>1, BreaksKeeps DEF Turn, Takes
  <1>9. CASE Launch(j)
    BY <1>1, <1>9, LaunchKeeps DEF Turn, Takes
  <1>10. CASE SkipRecorded(j)
    BY <1>1, <1>10, SkipRecordedKeeps DEF Turn, Takes
  <1>11. CASE TakeFile(j)
    BY <1>1, <1>11, TakeFileKeeps DEF Turn, Takes
  <1>12. CASE TakeDirect(j)
    BY <1>1, <1>12, TakeDirectKeeps DEF Turn, Takes
  <1>13. CASE Downloaded(j)
    BY <1>1, <1>13, DownloadedKeeps DEF Turn, Takes
  <1>14. CASE SettleRow(j)
    BY <1>1, <1>14, SettleRowKeeps DEF Turn, Takes
  <1>15. CASE Push(j)
    BY <1>1, <1>15, PushKeeps DEF Turn, Takes
  <1>16. CASE ResolveChapter(j)
    <2>1. Takes(j)
      BY <1>2, <1>16 DEF ResolveChapter
    <2> QED BY <1>1, <1>16, <2>1, ResolveChapterKeeps DEF Turn, Takes
  <1>17. CASE ChapterFails(j)
    <2>1. Takes(j)
      BY <1>2, <1>17 DEF ChapterFails
    <2> QED BY <1>1, <1>17, <2>1, ChapterFailsKeeps DEF Turn, Takes
  <1>18. CASE TakePages(j)
    <2>1. Takes(j)
      BY <1>2, <1>18 DEF TakePages
    <2> QED BY <1>1, <1>18, <2>1, TakePagesKeeps DEF Turn, Takes
  <1>19. CASE Bundle(j)
    <2>1. UNCHANGED <<archive, took>>
      BY <1>19 DEF Bundle
    <2> QED BY <1>19, <2>1, BundleKeeps DEF Turn
  <1>20. CASE End(j)
    <2>1. Takes(j)
      BY <1>2, <1>20 DEF End
    <2> QED BY <1>1, <1>20, <2>1, EndKeeps DEF Turn, Takes
  <1> QED BY <1>3, <1>4, <1>5, <1>6, <1>7, <1>8, <1>9, <1>10, <1>11, <1>12, <1>13, <1>14, <1>15,
             <1>16, <1>17, <1>18, <1>19, <1>20 DEF Process

\* The other jobs see at most more posts.
LEMMA TurnKeeps ==
    ASSUME IInv, NEW j \in Ids, Turn(j)
    PROVE  IInv'
  <1>1. ASSUME NEW q \in Ids PROVE JobInv(q)'
    <2>1. CASE q = j
      BY <2>1 DEF Turn
    <2>2. CASE q # j
      <3>1. job'[q] = job[q] /\ run'[q] = run[q] /\ took'[q] = took[q]
        BY <2>2 DEF Turn, Elsewhere
      <3> QED BY <3>1, FrameIs DEF IInv, Turn
    <2> QED BY <2>1, <2>2
  <1>2. Taken'
    <2> SUFFICES ASSUME NEW p \in archive' PROVE \E q \in Ids : p \in took'[q]
      BY DEF Taken
    <2>1. CASE p \in took'[j]
      BY <2>1
    <2>2. CASE p \notin took'[j]
      <3>1. PICK q \in Ids : p \in took[q]
        BY <2>2 DEF IInv, Taken, Turn
      <3>2. q # j
        BY <2>2, <3>1 DEF Turn
      <3> QED BY <3>1, <3>2 DEF Turn, Elsewhere
    <2> QED BY <2>1, <2>2
  <1> QED BY <1>1, <1>2 DEF IInv, Turn

LEMMA NextIs == IInv /\ [Next]_vars => IInv'
  <1> SUFFICES ASSUME IInv, [Next]_vars PROVE IInv'
    OBVIOUS
  <1>1. Types /\ (\A j \in Ids : JobInv(j)) /\ WholeBooks
    BY DEF IInv
  <1>2. ASSUME NEW j \in Ids, Submit(j) \/ Start(j) \/ Cancel(j) \/ Retry(j) PROVE IInv'
    <2>1. Types' /\ JobInv(j)' /\ Elsewhere(j) /\ Grows
      BY <1>1, <1>2, SubmitKeeps, StartKeeps, CancelKeeps, RetryKeeps
    <2>2. UNCHANGED <<archive, took, books>>
      BY <1>2 DEF Submit, Start, Cancel, Retry
    <2>3. Turn(j)
      BY <1>1, <2>1, <2>2 DEF Turn, WholeBooks
    <2> QED BY <2>3, TurnKeeps
  <1>3. ASSUME NEW j \in Ids, Process(j) PROVE IInv'
    BY <1>1, <1>3, ProcessTurns, TurnKeeps
  <1>4. CASE Stop \/ Crash
    <2>1. PICK keep \in BOOLEAN : Restart(keep)
      BY <1>4 DEF Stop, Crash
    <2>2. /\ Types' /\ took' = took /\ archive' = archive /\ books' = books
          /\ \A j \in Ids : JobInv(j)'
      BY <1>1, <2>1, RestartKeeps
    <2> QED BY <2>2 DEF IInv, Taken, WholeBooks
  <1>5. CASE Publish
    <2>1. /\ Types' /\ took' = took /\ archive' = archive /\ books' = books
          /\ \A j \in Ids : JobInv(j)'
      BY <1>1, <1>5, PublishKeeps
    <2> QED BY <2>1 DEF IInv, Taken, WholeBooks
  <1>6. CASE UNCHANGED vars
    <2>1. /\ online' = online /\ archive' = archive /\ library' = library /\ job' = job
          /\ run' = run /\ took' = took /\ missed' = missed /\ books' = books
      BY <1>6 DEF vars
    <2>2. Types'
      BY <1>1, <2>1 DEF Types
    <2>3. Grows
      BY <1>1, <2>1, DownloadsAssumption DEF Grows, Types
    <2>4. ASSUME NEW j \in Ids PROVE JobInv(j)'
      BY <1>1, <2>1, <2>2, <2>3, FrameIs
    <2> QED BY <2>1, <2>2, <2>4 DEF IInv, Taken, WholeBooks
  <1> QED BY <1>2, <1>3, <1>4, <1>5, <1>6 DEF Next

LEMMA InvariantHolds == Spec => []IInv
  BY InitIs, NextIs, PTL DEF Spec

-----------------------------------------------------------------------------
(* The theorems *)

\* Whatever jobs share the archive, whatever fails and wherever a run is cut, a
\* post gallery-dl has recorded is with monbooru, or a job that took it has yet to
\* succeed and its retry bypasses the archive (job.go:542); the exceptions are what
\* monbooru does not take and what a later run of the job did not list.
THEOREM PostsAreNotLost == Spec => []NothingLost
  <1>1. IInv => NothingLost
    <2> SUFFICES ASSUME IInv, NEW p \in archive \ (library \cup Odd \cup missed)
                 PROVE  \E j \in Ids : p \in took[j] /\ job[j].status # "succeeded"
      BY DEF NothingLost
    <2>1. PICK j \in Ids : p \in took[j]
      BY DEF IInv, Taken
    <2>2. p \in Owed(j)
      BY <2>1 DEF Owed
    <2>3. job[j].status # "succeeded"
      BY <2>2 DEF IInv, JobInv, Paying
    <2> QED BY <2>1, <2>3
  <1> QED BY <1>1, InvariantHolds, PTL

\* A row that says created or duplicate is of a post monbooru has, one that says
\* archived of a post the archive has or the download did not come to: lines that
\* are missing, skipped or of no post never shift the pairing (processor.go:358),
\* but for a skip that names no post, after a file that failed (gdl.go:425).
THEOREM RowsStayTrue == Spec => []RowsTellTruth
  <1>1. IInv => RowsTellTruth
    <2> SUFFICES ASSUME IInv, NEW j \in Ids, ~Is(j, {"book", "title"})
                 PROVE  \A i \in DOMAIN run[j].rows :
                           LET row == run[j].rows[i]
                           IN  /\ row.outcome \in {"created", "duplicate"} => row.post \in library
                               /\ row.outcome = "archived" =>
                                    \/ row.post \in archive \/ run[j].stopped
                                    \/ row.post \notin run[j].listed
                                    \/ i \in Nameless(j) /\ run[j].exit
      BY DEF RowsTellTruth
    <2>1. Is(j, Single)
      BY DEF IInv, Types, JobType, Kinds, Is, Single, Many
    <2>2. DOMAIN run[j].rows = 1 .. Len(run[j].rows)
      BY DEF IInv, Types, RunType
    <2> QED BY <2>1, <2>2 DEF IInv, JobInv, True
  <1> QED BY <1>1, InvariantHolds, PTL

\* A book is pushed with every page its resolve found (processor.go:699), and a
\* job that succeeded without offering a next window has a row of every post its
\* first pass could see (processor.go:140), whatever the second pass and the
\* download missed, unless both came up short or a skip did not name its post.
THEOREM SuccessesAreWhole == Spec => []SuccessIsWhole
  <1>1. IInv => SuccessIsWhole
    <2> SUFFICES ASSUME IInv PROVE WholeBooks /\ UncappedIsAll
      BY DEF SuccessIsWhole
    <2>1. ASSUME NEW j \in Ids, job[j].status = "succeeded", ~job[j].capped, ~run[j].short,
                 ~Is(j, {"book"}), ~(run[j].gap /\ (run[j].exit \/ Nameless(j) # {}))
          PROVE  run[j].there \subseteq RowPosts(j)
      <3>1. Covered(j) /\ ~Failed(j)
        BY <2>1 DEF IInv, JobInv, Good
      <3> QED BY <2>1, <3>1 DEF Covered
    <2> QED BY <2>1 DEF IInv, UncappedIsAll
  <1> QED BY <1>1, InvariantHolds, PTL

=============================================================================
