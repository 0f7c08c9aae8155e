----------------------------- MODULE LookupBudget -----------------------------
(***************************************************************************)
(* The daily budget of scheduled lookups (src/internal/queue/budget.go).   *)
(* monbooru keeps no count of its own and stops its nightly walk when a    *)
(* lookup is refused, so the count here is the only thing that rations the *)
(* sources: neither two requests at once nor a restart may refund a spend. *)
(*                                                                         *)
(* A step is one hold of Queue.mu, one read of the clock or one statement  *)
(* sent to the database, which is taken to succeed.                        *)
(***************************************************************************)
EXTENDS Integers

CONSTANTS
    Callers,   \* request goroutines
    Free,      \* nobody holds budgetWrite
    MaxLimit,  \* the largest limit ever configured
    Days,      \* bound: the last day
    MaxBoots   \* bound: starts of the process

ASSUME BudgetAssumption ==
    /\ Free \notin Callers
    /\ MaxLimit \in Nat /\ Days \in Nat /\ MaxBoots \in Nat

NoDay == -1

VARIABLES
    clock,        \* today
    limit,        \* budgetLimit
    day, spent,   \* budgetDay, budgetSpent
    row,          \* the counter scheduled_lookup
    budgetWrite,  \* its holder
    pc,           \* of each caller
    seen,         \* the day each caller has read
    taken,        \* the spend the holder of budgetWrite is to write
    up, boots,
    accepted,     \* history: takes answered true, by the day they were charged to
    straddled     \* history: midnight passed between a caller's clock and its lock

vars == <<clock, limit, day, spent, row, budgetWrite, pc, seen, taken, up, boots,
          accepted, straddled>>

Init ==
    /\ clock = 0 /\ limit = 0
    /\ day = NoDay /\ spent = 0
    /\ row = [day |-> NoDay, n |-> 0]
    /\ budgetWrite = Free
    /\ pc = [c \in Callers |-> "idle"] /\ seen = [c \in Callers |-> NoDay] /\ taken = 0
    /\ up = FALSE /\ boots = 0
    /\ accepted = [d \in 0 .. Days |-> 0] /\ straddled = FALSE

\* Mutant of Loaded: a restart starts afresh.
LoadedNothing == [day |-> NoDay, n |-> 0]

\* UseStore loads the counter.
Loaded == row

\* New, SetLookupBudget with the configured limit, UseStore.
Boot ==
    /\ ~up /\ boots < MaxBoots
    /\ up' = TRUE /\ boots' = boots + 1
    /\ day' = Loaded.day /\ spent' = Loaded.n
    /\ \E l \in 0 .. MaxLimit : limit' = l
    /\ UNCHANGED <<clock, row, budgetWrite, pc, seen, taken, accepted, straddled>>

\* The settings page changes the limit.
SetLookupBudget ==
    /\ up
    /\ \E l \in 0 .. MaxLimit : limit' = l
    /\ UNCHANGED <<clock, day, spent, row, budgetWrite, pc, seen, taken, up, boots, accepted, straddled>>

\* TakeLookupBudget or LookupBudget reads the clock, before it takes a lock.
Call(c) ==
    /\ up /\ pc[c] = "idle"
    /\ \E what \in {"take", "look"} : pc' = [pc EXCEPT ![c] = what]
    /\ seen' = [seen EXCEPT ![c] = clock]
    /\ UNCHANGED <<clock, limit, day, spent, row, budgetWrite, taken, up, boots, accepted, straddled>>

\* Mutant of RolledSpent: the count restarts whatever the day.
RolledAlways(d) == 0

\* rollBudgetLocked, for the day d.
RolledSpent(d) == IF day # d THEN 0 ELSE spent

Exhausted(d) == RolledSpent(d) >= limit

\* TakeLookupBudget refuses: the day's budget is spent.
Refuse(c) ==
    /\ pc[c] = "take" /\ budgetWrite = Free
    /\ Exhausted(seen[c])
    /\ day' = seen[c] /\ spent' = RolledSpent(seen[c])
    /\ pc' = [pc EXCEPT ![c] = "idle"]
    /\ UNCHANGED <<clock, limit, row, budgetWrite, seen, taken, up, boots, accepted, straddled>>

\* TakeLookupBudget spends, and keeps budgetWrite for the write.
Take(c) ==
    /\ pc[c] = "take" /\ budgetWrite = Free
    /\ ~Exhausted(seen[c])
    /\ day' = seen[c] /\ spent' = RolledSpent(seen[c]) + 1
    /\ taken' = RolledSpent(seen[c]) + 1
    /\ budgetWrite' = c
    /\ pc' = [pc EXCEPT ![c] = "save"]
    /\ UNCHANGED <<clock, limit, row, seen, up, boots, accepted, straddled>>

\* persistBudget, the answer and the unlock.
Save(c) ==
    /\ pc[c] = "save"
    /\ row' = [day |-> seen[c], n |-> taken]
    /\ accepted' = [accepted EXCEPT ![seen[c]] = @ + 1]
    /\ budgetWrite' = Free
    /\ pc' = [pc EXCEPT ![c] = "idle"]
    /\ UNCHANGED <<clock, limit, day, spent, seen, taken, up, boots, straddled>>

\* LookupBudget rolls the count too, on the day it read.
Look(c) ==
    /\ pc[c] = "look"
    /\ day' = seen[c] /\ spent' = RolledSpent(seen[c])
    /\ pc' = [pc EXCEPT ![c] = "idle"]
    /\ UNCHANGED <<clock, limit, row, budgetWrite, seen, taken, up, boots, accepted, straddled>>

Midnight ==
    /\ clock < Days
    /\ clock' = clock + 1
    /\ straddled' = (straddled \/ \E c \in Callers : pc[c] \in {"take", "look"})
    /\ UNCHANGED <<limit, day, spent, row, budgetWrite, pc, seen, taken, up, boots, accepted>>

Crash ==
    /\ up /\ up' = FALSE
    /\ day' = NoDay /\ spent' = 0 /\ limit' = 0
    /\ budgetWrite' = Free
    /\ pc' = [c \in Callers |-> "idle"]
    /\ UNCHANGED <<clock, row, seen, taken, boots, accepted, straddled>>

Next ==
    \/ Boot \/ SetLookupBudget \/ Midnight \/ Crash
    \/ \E c \in Callers : Call(c) \/ Refuse(c) \/ Take(c) \/ Save(c) \/ Look(c)

Spec == Init /\ [][Next]_vars

-----------------------------------------------------------------------------
(* Properties *)

\* Every variable has its type; the counts stay within the largest limit.
TypeOK ==
    /\ clock \in 0 .. Days /\ limit \in 0 .. MaxLimit
    /\ day \in NoDay .. Days /\ spent \in 0 .. MaxLimit
    /\ row \in [day : NoDay .. Days, n : 0 .. MaxLimit]
    /\ budgetWrite \in Callers \cup {Free}
    /\ pc \in [Callers -> {"idle", "take", "look", "save"}]
    /\ seen \in [Callers -> NoDay .. Days] /\ taken \in 0 .. MaxLimit
    /\ up \in BOOLEAN /\ boots \in 0 .. MaxBoots
    /\ accepted \in [0 .. Days -> Nat] /\ straddled \in BOOLEAN

\* No day is charged more lookups than the largest limit that was set, however
\* many requests race, whatever the restarts: a crash loop does not refill a
\* spent budget (queue.go: "a crash loop must not refill a spent budget").
\* Unless midnight falls between some caller's reading of the clock and its
\* lock: see DailyLimit.
LimitHolds == straddled \/ \A d \in 0 .. Days : accepted[d] <= MaxLimit

\* The row is never behind what callers were told of today: writes do not land
\* out of order, and what a crash leaves on disk counts every accepted lookup.
RowCounts ==
    straddled \/ accepted[clock] = 0 \/ (row.day = clock /\ row.n >= accepted[clock])

\* The daily budget without the exception of LimitHolds.  A caller that read the
\* clock before midnight and takes the lock after a caller of the new day rolls
\* the count back to the old day, and the next call starts the new day afresh.
DailyLimit == \A d \in 0 .. Days : accepted[d] <= MaxLimit

=============================================================================
