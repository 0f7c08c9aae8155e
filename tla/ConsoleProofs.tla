---------------------------- MODULE ConsoleProofs ----------------------------
(***************************************************************************)
(* What the console changes beside the queue, for any constants: the       *)
(* lookup budget, sessions, pairing, the gallery-dl install and the        *)
(* settings, each with an inductive invariant of its own; at the end the   *)
(* properties of MCConsole, in which one of them runs.                     *)
(***************************************************************************)
EXTENDS MCConsole, FiniteSetTheorems, SequenceTheorems, TLAPS

\* The lookup budget (LookupBudget.tla).

\* The lock and the callers.
Locking ==
    /\ \A c \in Callers : pc[c] = "save" <=> budgetWrite = c
    /\ \A c \in Callers : pc[c] # "idle" => up /\ seen[c] \in 0 .. clock

\* What memory, the row and the take under way hold of today's lookups, as long
\* as every clock was read today.
Counting ==
    /\ \A c \in Callers : pc[c] \in {"take", "look"} => seen[c] = clock
    /\ \A d \in 0 .. Days : accepted[d] <= MaxLimit /\ (d > clock => accepted[d] = 0)
    /\ \A c \in Callers : pc[c] = "save" =>
          /\ accepted[seen[c]] < taken
          /\ IF seen[c] = clock THEN day = clock /\ taken <= spent ELSE accepted[clock] = 0
    /\ up => accepted[clock] = 0 \/ (day = clock /\ accepted[clock] <= spent)
    /\ accepted[clock] = 0 \/ (row.day = clock /\ accepted[clock] <= row.n)

\* The inductive invariant of the budget.
IInv == TypeOK /\ Locking /\ (straddled \/ Counting)

LEMMA Initially == Init => IInv
  <1> SUFFICES ASSUME Init PROVE IInv
    OBVIOUS
  <1> USE BudgetAssumption DEF Init, NoDay
  <1>1. TypeOK
    <2>1. day \in NoDay .. Days /\ row \in [day : NoDay .. Days, n : 0 .. MaxLimit]
      OBVIOUS
    <2>2. pc \in [Callers -> {"idle", "take", "look", "save"}] /\ seen \in [Callers -> NoDay .. Days]
      OBVIOUS
    <2>3. accepted \in [0 .. Days -> Nat]
      OBVIOUS
    <2>4. up \in BOOLEAN /\ straddled \in BOOLEAN
      BY Zenon
    <2> QED BY <2>1, <2>2, <2>3, <2>4 DEF TypeOK
  <1>2. Locking
    BY DEF Locking
  <1>3. Counting
    BY DEF Counting
  <1> QED BY <1>1, <1>2, <1>3 DEF IInv

LEMMA BootKeeps ==
    ASSUME IInv, Boot
    PROVE  IInv'
  <1> USE BudgetAssumption DEF IInv, NoDay
  <1>1. TypeOK'
    BY DEF TypeOK, Locking, Boot, Loaded
  <1>2. Locking'
    BY DEF TypeOK, Locking, Boot, Loaded
  <1>3. (straddled \/ Counting)'
    <2>1. CASE straddled
      BY <2>1 DEF Boot, Loaded
    <2>2. CASE ~straddled
      BY <2>2 DEF TypeOK, Locking, Counting, Boot, Loaded
    <2> QED BY <2>1, <2>2
  <1> QED BY <1>1, <1>2, <1>3

LEMMA SetLookupBudgetKeeps ==
    ASSUME IInv, SetLookupBudget
    PROVE  IInv'
  <1> USE BudgetAssumption DEF IInv, NoDay
  <1>1. TypeOK'
    BY DEF TypeOK, Locking, SetLookupBudget
  <1>2. Locking'
    BY DEF TypeOK, Locking, SetLookupBudget
  <1>3. (straddled \/ Counting)'
    <2>1. CASE straddled
      BY <2>1 DEF SetLookupBudget
    <2>2. CASE ~straddled
      BY <2>2 DEF TypeOK, Locking, Counting, SetLookupBudget
    <2> QED BY <2>1, <2>2
  <1> QED BY <1>1, <1>2, <1>3

LEMMA MidnightKeeps ==
    ASSUME IInv, Midnight
    PROVE  IInv'
  <1> USE BudgetAssumption DEF IInv, NoDay
  <1>1. TypeOK'
    BY DEF TypeOK, Locking, Midnight
  <1>2. Locking'
    BY DEF TypeOK, Locking, Midnight
  <1>3. (straddled \/ Counting)'
    <2>1. CASE straddled
      BY <2>1 DEF Midnight
    <2>2. CASE ~straddled
      BY <2>2 DEF TypeOK, Locking, Counting, Midnight
    <2> QED BY <2>1, <2>2
  <1> QED BY <1>1, <1>2, <1>3

LEMMA CrashKeeps ==
    ASSUME IInv, Crash
    PROVE  IInv'
  <1> USE BudgetAssumption DEF IInv, NoDay
  <1>1. TypeOK'
    <2>1. (day \in NoDay .. Days)'
      BY DEF Crash
    <2>2. (pc \in [Callers -> {"idle", "take", "look", "save"}])'
      BY DEF Crash
    <2>3. (up \in BOOLEAN)'
      BY Zenon DEF Crash
    <2> QED BY <2>1, <2>2, <2>3 DEF TypeOK, Crash
  <1>2. Locking'
    BY DEF TypeOK, Locking, Crash
  <1>3. (straddled \/ Counting)'
    <2>1. CASE straddled
      BY <2>1 DEF Crash
    <2>2. CASE ~straddled
      BY <2>2 DEF TypeOK, Locking, Counting, Crash
    <2> QED BY <2>1, <2>2
  <1> QED BY <1>1, <1>2, <1>3

LEMMA CallKeeps ==
    ASSUME IInv, NEW c \in Callers, Call(c)
    PROVE  IInv'
  <1> USE BudgetAssumption DEF IInv, NoDay
  <1>1. TypeOK'
    BY DEF TypeOK, Locking, Call
  <1>2. Locking'
    BY DEF TypeOK, Locking, Call
  <1>3. (straddled \/ Counting)'
    <2>1. CASE straddled
      BY <2>1 DEF Call
    <2>2. CASE ~straddled
      BY <2>2 DEF TypeOK, Locking, Counting, Call
    <2> QED BY <2>1, <2>2
  <1> QED BY <1>1, <1>2, <1>3

LEMMA RefuseKeeps ==
    ASSUME IInv, NEW c \in Callers, Refuse(c)
    PROVE  IInv'
  <1> USE BudgetAssumption DEF IInv, NoDay
  <1>1. TypeOK'
    BY DEF TypeOK, Locking, Refuse, Exhausted, RolledSpent
  <1>2. Locking'
    BY DEF TypeOK, Locking, Refuse, Exhausted, RolledSpent
  <1>3. (straddled \/ Counting)'
    <2>1. CASE straddled
      BY <2>1 DEF Refuse, Exhausted, RolledSpent
    <2>2. CASE ~straddled
      BY <2>2 DEF TypeOK, Locking, Counting, Refuse, Exhausted, RolledSpent
    <2> QED BY <2>1, <2>2
  <1> QED BY <1>1, <1>2, <1>3

LEMMA TakeKeeps ==
    ASSUME IInv, NEW c \in Callers, Take(c)
    PROVE  IInv'
  <1> USE BudgetAssumption DEF IInv, NoDay
  <1>1. TypeOK'
    BY DEF TypeOK, Locking, Take, Exhausted, RolledSpent
  <1>2. Locking'
    BY DEF TypeOK, Locking, Take, Exhausted, RolledSpent
  <1>3. (straddled \/ Counting)'
    <2>1. CASE straddled
      BY <2>1 DEF Take, Exhausted, RolledSpent
    <2>2. CASE ~straddled
      BY <2>2 DEF TypeOK, Locking, Counting, Take, Exhausted, RolledSpent
    <2> QED BY <2>1, <2>2
  <1> QED BY <1>1, <1>2, <1>3

LEMMA SaveKeeps ==
    ASSUME IInv, NEW c \in Callers, Save(c)
    PROVE  IInv'
  <1> USE BudgetAssumption DEF IInv, NoDay
  <1>1. TypeOK'
    BY SMTT(30) DEF TypeOK, Locking, Save
  <1>2. Locking'
    BY DEF TypeOK, Locking, Save
  <1>3. (straddled \/ Counting)'
    <2>1. CASE straddled
      BY <2>1 DEF Save
    <2>2. CASE ~straddled
      BY <2>2 DEF TypeOK, Locking, Counting, Save
    <2> QED BY <2>1, <2>2
  <1> QED BY <1>1, <1>2, <1>3

LEMMA LookKeeps ==
    ASSUME IInv, NEW c \in Callers, Look(c)
    PROVE  IInv'
  <1> USE BudgetAssumption DEF IInv, NoDay
  <1>1. TypeOK'
    BY DEF TypeOK, Locking, Look, RolledSpent
  <1>2. Locking'
    BY DEF TypeOK, Locking, Look, RolledSpent
  <1>3. (straddled \/ Counting)'
    <2>1. CASE straddled
      BY <2>1 DEF Look, RolledSpent
    <2>2. CASE ~straddled
      BY <2>2 DEF TypeOK, Locking, Counting, Look, RolledSpent
    <2> QED BY <2>1, <2>2
  <1> QED BY <1>1, <1>2, <1>3

LEMMA StepKeeps == IInv /\ [Next]_vars => IInv'
  <1> SUFFICES ASSUME IInv, [Next]_vars PROVE IInv'
    OBVIOUS
  <1>1. CASE UNCHANGED vars
    BY <1>1 DEF vars, IInv, TypeOK, Locking, Counting
  <1>2. CASE Boot \/ SetLookupBudget \/ Midnight \/ Crash
    BY <1>2, BootKeeps, SetLookupBudgetKeeps, MidnightKeeps, CrashKeeps
  <1>3. CASE \E c \in Callers : Call(c) \/ Refuse(c) \/ Take(c) \/ Save(c) \/ Look(c)
    BY <1>3, CallKeeps, RefuseKeeps, TakeKeeps, SaveKeeps, LookKeeps
  <1> QED
    BY <1>1, <1>2, <1>3 DEF Next

\* No day is charged more than the largest limit that was set, however many
\* requests race and whatever the restarts, as long as no caller straddles
\* midnight; and every variable keeps its type.
THEOREM BudgetIsKept == Spec => [](TypeOK /\ LimitHolds)
  <1>1. IInv => TypeOK /\ LimitHolds
    BY DEF IInv, LimitHolds, Counting
  <1> QED
    BY <1>1, Initially, StepKeeps, PTL DEF Spec

\* What a crash leaves on disk counts every lookup accepted today.
THEOREM RowIsNotBehind == Spec => []RowCounts
  <1>1. IInv => RowCounts
    BY DEF IInv, RowCounts, Counting, TypeOK
  <1> QED
    BY <1>1, Initially, StepKeeps, PTL DEF Spec

-----------------------------------------------------------------------------
\* Sessions and the password (Sessions.tla).

BusyType == [at : {"idle", "login", "hash", "save", "open", "clear", "unset", "cleared"},
             sid : 0 .. MaxSessions, wasOn : BOOLEAN, ver : Nat]
\* The types, and no session in use that was not created.
SessionsType ==
    /\ on \in BOOLEAN /\ version \in Nat /\ created \in 0 .. MaxSessions
    /\ live \subseteq 1 .. created
    /\ jar \in [Browsers -> 0 .. MaxSessions]
    /\ busy \in [Browsers -> BusyType]
    /\ born \in [1 .. MaxSessions -> Nat]
    /\ setter \in [who : Browsers \cup {"none"}, ver : Nat]

\* A browser has saved a new password, or none, and not yet signed the others out.
Ending(b) == busy[b].at \in {"open", "clear", "cleared"}

\* A browser that changes the password has a session to keep, unless no login
\* applied; the version it read is not ahead.
Changing(b) ==
    LET c == busy[b] IN
    /\ c.at \in {"hash", "save"} => c.ver <= version
    /\ c.at \in {"open", "clear"} => c.ver < version
    /\ c.at = "hash" /\ c.ver = version /\ c.sid = 0 => ~on
    /\ c.at = "save" /\ c.ver = version /\ c.sid = 0 => ~on /\ ~c.wasOn
    /\ c.at = "clear" /\ c.ver + 1 = version => c.sid # 0

\* A session of an older version is live only while some browser has yet to sign
\* the others out, and so is a version whose setter is not signed in.
SignedOut ==
    /\ (\A i \in live : born[i] = version) \/ \E b \in Browsers : Ending(b)
    /\ setter.ver <= version
    /\ setter.ver = version /\ version > 0 =>
          setter.who \in Browsers /\ (jar[setter.who] \in live \/ \E b \in Browsers : Ending(b))

\* No two browsers hold the same session.
Cookies == \A b, c \in Browsers : jar[b] <= created /\ (jar[b] = jar[c] /\ jar[b] # 0 => b = c)

\* The inductive invariant of the sessions.
SessionsInv == SessionsType /\ Cookies /\ (\A b \in Browsers : Changing(b)) /\ SignedOut

LEMMA SessionsStart == A!Init => SessionsInv
  <1> SUFFICES ASSUME A!Init PROVE SessionsInv
    OBVIOUS
  <1> USE SessionsAssumption DEF A!Init, A!Idle, A!Anon, A!NoSetter, A!Sids
  <1>1. on \in BOOLEAN
    BY Zenon
  <1>2. SessionsType
    BY <1>1 DEF SessionsType, BusyType
  <1>3. \A b \in Browsers : Changing(b)
    BY DEF Changing
  <1>4. SignedOut
    BY DEF SignedOut
  <1>5. Cookies
    BY DEF Cookies
  <1> QED BY <1>2, <1>3, <1>4, <1>5 DEF SessionsInv

LEMMA LoginCheckKeepsSessions ==
    ASSUME SessionsInv, NEW b \in Browsers, A!LoginCheck(b)
    PROVE  SessionsInv'
  <1> USE SessionsAssumption DEF SessionsInv, A!Idle, A!Anon, A!At, A!LoginCheck
  <1>1. SessionsType'
    BY DEF SessionsType, BusyType
  <1>2. ASSUME NEW c \in Browsers PROVE Changing(c)'
    BY <1>2 DEF SessionsType, BusyType, Changing
  <1>3. SignedOut'
    BY DEF SessionsType, BusyType, SignedOut, Ending, Changing
  <1>4. Cookies'
    BY DEF SessionsType, Cookies
  <1> QED BY <1>1, <1>2, <1>3, <1>4

LEMMA LoginDoneKeepsSessions ==
    ASSUME SessionsInv, NEW b \in Browsers, A!LoginDone(b)
    PROVE  SessionsInv'
  <1> USE SessionsAssumption DEF SessionsInv, A!Idle, A!Anon, A!Opened, A!LoginDone
  <1>1. SessionsType'
    <2>1. (busy \in [Browsers -> BusyType])'
      BY DEF SessionsType, BusyType
    <2>2. live' \subseteq 1 .. created' /\ created' \in 0 .. MaxSessions
      BY DEF SessionsType
    <2>3. (jar \in [Browsers -> 0 .. MaxSessions])'
      BY DEF SessionsType
    <2>4. (born \in [1 .. MaxSessions -> Nat])'
      BY DEF SessionsType
    <2> QED BY <2>1, <2>2, <2>3, <2>4 DEF SessionsType
  <1>2. ASSUME NEW c \in Browsers PROVE Changing(c)'
    BY <1>2 DEF SessionsType, BusyType, Changing
  <1>3. SignedOut'
    BY SMTT(30) DEF SessionsType, BusyType, SignedOut, Ending, Changing
  <1>4. Cookies'
    BY SMTT(30) DEF SessionsType, Cookies
  <1> QED BY <1>1, <1>2, <1>3, <1>4

LEMMA LogoutKeepsSessions ==
    ASSUME SessionsInv, NEW b \in Browsers, A!Logout(b)
    PROVE  SessionsInv'
  <1> USE SessionsAssumption DEF SessionsInv, A!Anon, A!NoSetter, A!Logout
  <1>1. SessionsType'
    <2>1. (setter \in [who : Browsers \cup {"none"}, ver : Nat])'
      BY DEF SessionsType
    <2>2. (live \subseteq 1 .. created)'
      BY DEF SessionsType
    <2>3. (jar \in [Browsers -> 0 .. MaxSessions])'
      BY DEF SessionsType
    <2> QED BY <2>1, <2>2, <2>3 DEF SessionsType
  <1>2. ASSUME NEW c \in Browsers PROVE Changing(c)'
    BY <1>2 DEF SessionsType, BusyType, Changing
  <1>3. SignedOut'
    BY DEF SessionsType, BusyType, SignedOut, Ending, Changing, Cookies
  <1>4. Cookies'
    BY DEF SessionsType, Cookies
  <1> QED BY <1>1, <1>2, <1>3, <1>4

LEMMA ChangeCheckKeepsSessions ==
    ASSUME SessionsInv, NEW b \in Browsers, A!ChangeCheck(b)
    PROVE  SessionsInv'
  <1> USE SessionsAssumption DEF SessionsInv, A!Idle, A!Anon, A!Admitted, A!Carried, A!ChangeCheck
  <1>1. SessionsType'
    <2>1. A!Carried(b) \in 0 .. MaxSessions
      BY DEF SessionsType
    <2>2. [A!Idle EXCEPT !.at = "hash", !.sid = A!Carried(b), !.ver = version] \in BusyType
      BY <2>1 DEF SessionsType, BusyType
    <2>3. (busy \in [Browsers -> BusyType])'
      BY <2>2 DEF SessionsType
    <2> QED BY <2>3 DEF SessionsType
  <1>2. ASSUME NEW c \in Browsers PROVE Changing(c)'
    BY <1>2 DEF SessionsType, BusyType, Changing
  <1>3. SignedOut'
    BY DEF SessionsType, BusyType, SignedOut, Ending, Changing
  <1>4. Cookies'
    BY DEF SessionsType, Cookies
  <1> QED BY <1>1, <1>2, <1>3, <1>4

LEMMA ChangeHashKeepsSessions ==
    ASSUME SessionsInv, NEW b \in Browsers, A!ChangeHash(b)
    PROVE  SessionsInv'
  <1> USE SessionsAssumption DEF SessionsInv, A!ChangeHash
  <1>1. SessionsType'
    BY ZenonT(40) DEF SessionsType, BusyType
  <1>2. ASSUME NEW c \in Browsers PROVE Changing(c)'
    BY <1>2 DEF SessionsType, BusyType, Changing
  <1>3. SignedOut'
    BY DEF SessionsType, BusyType, SignedOut, Ending, Changing
  <1>4. Cookies'
    BY DEF SessionsType, Cookies
  <1> QED BY <1>1, <1>2, <1>3, <1>4

LEMMA AbandonKeepsSessions ==
    ASSUME SessionsInv, NEW b \in Browsers, A!Abandon(b)
    PROVE  SessionsInv'
  <1> USE SessionsAssumption DEF SessionsInv, A!Idle, A!Anon, A!Abandon
  <1>1. SessionsType'
    BY DEF SessionsType, BusyType
  <1>2. ASSUME NEW c \in Browsers PROVE Changing(c)'
    BY <1>2 DEF SessionsType, BusyType, Changing
  <1>3. SignedOut'
    BY DEF SessionsType, BusyType, SignedOut, Ending, Changing
  <1>4. Cookies'
    BY DEF SessionsType, Cookies
  <1> QED BY <1>1, <1>2, <1>3, <1>4

LEMMA ChangeSaveKeepsSessions ==
    ASSUME SessionsInv, NEW b \in Browsers, A!ChangeSave(b)
    PROVE  SessionsInv'
  <1> USE SessionsAssumption DEF SessionsInv, A!At, A!ChangeSave
  <1>1. SessionsType'
    <2>1. (on \in BOOLEAN)'
      BY Zenon
    <2>2. (busy \in [Browsers -> BusyType])'
      BY ZenonT(40) DEF SessionsType, BusyType
    <2> QED BY <2>1, <2>2 DEF SessionsType
  <1>2. ASSUME NEW c \in Browsers PROVE Changing(c)'
    BY <1>2, SMTT(30) DEF SessionsType, BusyType, Changing
  <1>3. SignedOut'
    BY SMTT(30) DEF SessionsType, BusyType, SignedOut, Ending, Changing
  <1>4. Cookies'
    BY DEF SessionsType, Cookies
  <1> QED BY <1>1, <1>2, <1>3, <1>4

LEMMA ChangeOpenKeepsSessions ==
    ASSUME SessionsInv, NEW b \in Browsers, A!ChangeOpen(b)
    PROVE  SessionsInv'
  <1> USE SessionsAssumption DEF SessionsInv, A!Opened, A!Open, A!ChangeOpen
  <1>1. SessionsType'
    <2>1. created + 1 \in 0 .. MaxSessions
      BY DEF SessionsType
    <2>2. [busy[b] EXCEPT !.at = "clear", !.sid = created + 1] \in BusyType
      BY <2>1 DEF SessionsType, BusyType
    <2>3. (busy \in [Browsers -> BusyType])'
      BY <2>2 DEF SessionsType
    <2>4. live' \subseteq 1 .. created' /\ created' \in 0 .. MaxSessions
      BY DEF SessionsType
    <2>5. (jar \in [Browsers -> 0 .. MaxSessions])'
      BY DEF SessionsType
    <2>6. (born \in [1 .. MaxSessions -> Nat])'
      BY DEF SessionsType
    <2> QED BY <2>3, <2>4, <2>5, <2>6 DEF SessionsType
  <1>2. ASSUME NEW c \in Browsers PROVE Changing(c)'
    BY <1>2 DEF SessionsType, BusyType, Changing
  <1>3. SignedOut'
    BY DEF SessionsType, BusyType, SignedOut, Ending, Changing
  <1>4. Cookies'
    BY DEF SessionsType, Cookies
  <1> QED BY <1>1, <1>2, <1>3, <1>4

LEMMA ChangeClearKeepsSessions ==
    ASSUME SessionsInv, NEW b \in Browsers, A!ChangeClear(b)
    PROVE  SessionsInv'
  <1> USE SessionsAssumption DEF SessionsInv, A!Idle, A!Anon, A!NoSetter, A!Cleared, A!ChangeClear
  <1>1. SessionsType'
    BY SMTT(30) DEF SessionsType, BusyType
  <1>2. ASSUME NEW c \in Browsers PROVE Changing(c)'
    BY <1>2 DEF SessionsType, BusyType, Changing
  <1>3. SignedOut'
    BY DEF SessionsType, BusyType, SignedOut, Ending, Changing
  <1>4. Cookies'
    BY DEF SessionsType, Cookies
  <1> QED BY <1>1, <1>2, <1>3, <1>4

LEMMA RemoveCheckKeepsSessions ==
    ASSUME SessionsInv, NEW b \in Browsers, A!RemoveCheck(b)
    PROVE  SessionsInv'
  <1> USE SessionsAssumption DEF SessionsInv, A!Idle, A!Anon, A!At, A!RemoveCheck
  <1>1. SessionsType'
    BY DEF SessionsType, BusyType
  <1>2. ASSUME NEW c \in Browsers PROVE Changing(c)'
    BY <1>2 DEF SessionsType, BusyType, Changing
  <1>3. SignedOut'
    BY DEF SessionsType, BusyType, SignedOut, Ending, Changing
  <1>4. Cookies'
    BY DEF SessionsType, Cookies
  <1> QED BY <1>1, <1>2, <1>3, <1>4

LEMMA RemoveSaveKeepsSessions ==
    ASSUME SessionsInv, NEW b \in Browsers, A!RemoveSave(b)
    PROVE  SessionsInv'
  <1> USE SessionsAssumption DEF SessionsInv, A!At, A!RemoveSave
  <1>1. SessionsType'
    <2>1. (on \in BOOLEAN)'
      BY Zenon
    <2>2. (busy \in [Browsers -> BusyType])'
      BY DEF SessionsType, BusyType
    <2> QED BY <2>1, <2>2 DEF SessionsType
  <1>2. ASSUME NEW c \in Browsers PROVE Changing(c)'
    BY <1>2, SMTT(30) DEF SessionsType, BusyType, Changing
  <1>3. SignedOut'
    BY SMTT(30) DEF SessionsType, BusyType, SignedOut, Ending, Changing
  <1>4. Cookies'
    BY DEF SessionsType, Cookies
  <1> QED BY <1>1, <1>2, <1>3, <1>4

LEMMA RemoveClearKeepsSessions ==
    ASSUME SessionsInv, NEW b \in Browsers, A!RemoveClear(b)
    PROVE  SessionsInv'
  <1> USE SessionsAssumption DEF SessionsInv, A!Idle, A!Anon, A!NoSetter, A!RemoveClear
  <1>1. SessionsType'
    BY DEF SessionsType, BusyType
  <1>2. ASSUME NEW c \in Browsers PROVE Changing(c)'
    BY <1>2 DEF SessionsType, BusyType, Changing
  <1>3. SignedOut'
    BY DEF SessionsType, BusyType, SignedOut, Ending, Changing
  <1>4. Cookies'
    BY DEF SessionsType, Cookies
  <1> QED BY <1>1, <1>2, <1>3, <1>4

LEMMA ExpireKeepsSessions ==
    ASSUME SessionsInv, NEW i \in A!Sids, A!Expire(i)
    PROVE  SessionsInv'
  <1> USE SessionsAssumption DEF SessionsInv, A!Sids, A!NoSetter, A!Expire
  <1>1. SessionsType'
    <2>1. (setter \in [who : Browsers \cup {"none"}, ver : Nat])'
      BY DEF SessionsType
    <2> QED BY <2>1 DEF SessionsType
  <1>2. ASSUME NEW c \in Browsers PROVE Changing(c)'
    BY <1>2 DEF SessionsType, BusyType, Changing
  <1>3. SignedOut'
    BY DEF SessionsType, BusyType, SignedOut, Ending
  <1>4. Cookies'
    BY DEF SessionsType, Cookies
  <1> QED BY <1>1, <1>2, <1>3, <1>4

LEMMA RestartKeepsSessions ==
    ASSUME SessionsInv, A!Restart
    PROVE  SessionsInv'
  <1> USE SessionsAssumption DEF SessionsInv, A!Idle, A!Anon, A!NoSetter, A!Restart
  <1>1. SessionsType'
    BY DEF SessionsType, BusyType
  <1>2. ASSUME NEW c \in Browsers PROVE Changing(c)'
    BY <1>2 DEF SessionsType, BusyType, Changing
  <1>3. SignedOut'
    BY DEF SessionsType, BusyType, SignedOut, Ending
  <1>4. Cookies'
    BY DEF SessionsType, Cookies
  <1> QED BY <1>1, <1>2, <1>3, <1>4

LEMMA SessionsStep == SessionsInv /\ [A!Next]_(A!vars) => SessionsInv'
  <1> SUFFICES ASSUME SessionsInv, [A!Next]_(A!vars) PROVE SessionsInv'
    OBVIOUS
  <1>1. CASE UNCHANGED A!vars
    BY <1>1 DEF A!vars, SessionsInv, SessionsType, Cookies, Changing, SignedOut, Ending
  <1>2. CASE \E b \in Browsers : \/ A!LoginCheck(b) \/ A!LoginDone(b) \/ A!Logout(b) \/ A!ChangeCheck(b)
                                 \/ A!ChangeHash(b) \/ A!ChangeSave(b) \/ A!ChangeOpen(b)
                                 \/ A!ChangeClear(b) \/ A!RemoveCheck(b) \/ A!RemoveSave(b)
                                 \/ A!RemoveClear(b) \/ A!Abandon(b)
    BY <1>2, LoginCheckKeepsSessions, LoginDoneKeepsSessions, LogoutKeepsSessions,
       ChangeCheckKeepsSessions, ChangeHashKeepsSessions, ChangeSaveKeepsSessions,
       ChangeOpenKeepsSessions, ChangeClearKeepsSessions, RemoveCheckKeepsSessions,
       RemoveSaveKeepsSessions, RemoveClearKeepsSessions, AbandonKeepsSessions
  <1>3. CASE \E i \in A!Sids : A!Expire(i)
    BY <1>3, ExpireKeepsSessions
  <1>4. CASE A!Restart
    BY <1>4, RestartKeepsSessions
  <1> QED BY <1>1, <1>2, <1>3, <1>4 DEF A!Next

\* Each change of the password signs out the others and keeps its own browser
\* (web/auth.go), for any browsers, versions and sessions.
LEMMA ChangesSignOut == A!Spec => []A!ChangeSignsOut
  <1>1. SessionsInv => A!ChangeSignsOut
    BY DEF SessionsInv, SessionsType, SignedOut, Ending, A!ChangeSignsOut
  <1> QED BY <1>1, SessionsStart, SessionsStep, PTL DEF A!Spec

-----------------------------------------------------------------------------
\* Pairing with monbooru, both ways (Pairing.tla).

\* An attempt, or none.
Maybe == 0 .. MaxRequests
ReqType == [app : Apps \cup {"nobody"}, state : {"none", "pending", "approved", "denied"},
            claimed : BOOLEAN]

\* The types of both ends.
PairingType ==
    /\ tokens \subseteq [paired : Apps \cup {"nobody", "monbooru"}, of : Nat]
    /\ apiToken \in Maybe /\ attempt \in Maybe /\ link \in Maybe
    /\ offered \subseteq P!Attempts /\ ended \subseteq P!Attempts /\ dropped \subseteq P!Attempts
    /\ polls \subseteq [att : P!Attempts, at : {"ask", "token", "wait", "over", "save"}]
    /\ removal \in [tok : Maybe, at : {"none", "save", "tell"}]
    /\ theirs \in [P!Attempts -> {"none", "pending", "approved", "denied", "gone"}]
    /\ reqs \in [P!Asks -> ReqType]
    /\ mints \subseteq [slot : 1 .. MaxPolls, req : P!Asks, app : Apps, at : {"mint", "hand"}]
    /\ teardowns \subseteq Apps \cup {"monbooru"}
    /\ filed \in Nat /\ own \in Nat /\ minted \in [P!Asks -> Nat]
    /\ parted \in BOOLEAN /\ lost \in Nat

\* monloader's token list says what apiToken says.
Whole ==
    /\ \A t, u \in tokens : t.paired # "nobody" /\ t.paired = u.paired => t = u
    /\ \A t \in tokens : t.paired = "monbooru" => apiToken # 0 /\ t.of = apiToken
    /\ apiToken # 0 => [paired |-> "monbooru", of |-> apiToken] \in tokens

\* The requests filed so far, and what may still become a token.
Approvals ==
    /\ \A n \in P!Asks : reqs[n].state # "none" => reqs[n].app \in Apps
    /\ \A n \in P!Asks : reqs[n].state = "none" => reqs[n] = P!NoReq
    /\ \A n \in P!Asks : n > filed => reqs[n] = P!NoReq /\ minted[n] = 0
    /\ \A n \in P!Asks : reqs[n] # P!NoReq /\ ~reqs[n].claimed =>
          minted[n] = 0 /\ \A m \in mints : m.req # n
    /\ \A m \in mints : m.req <= filed /\ (m.at = "mint" => minted[m.req] = 0)
    /\ \A m, o \in mints : m.req = o.req => m = o
    /\ \A n \in P!Asks : minted[n] <= 1
    /\ \A n, o \in P!Asks :
          reqs[n].state = "pending" /\ reqs[o].state = "pending" /\ reqs[n].app = reqs[o].app => n = o

\* A poll that carries a token.
Carries(p) == p.at \in {"token", "save"}

\* monbooru knows the attempts up to n.
Known(n) == \A k \in P!Attempts : theirs[k] # "none" <=> k <= n

\* monbooru knows the first attempts and no other, and handed out each token that
\* a poll, the configuration or a removal holds.
Handed ==
    /\ \E n \in Maybe : Known(n)
    /\ \A k \in offered : theirs[k] # "none"
    /\ \A p \in polls : theirs[p.att] # "none" /\ (Carries(p) => theirs[p.att] = "gone")
    /\ attempt # 0 => theirs[attempt] # "none"
    /\ \A k \in ended : theirs[k] # "none"
    /\ \A k \in dropped : theirs[k] = "gone"
    /\ \A k \in {link, apiToken, removal.tok} : k # 0 => theirs[k] = "gone"

\* The attempt in memory is not over and is not being saved, and an offer not yet
\* taken in is of neither kind.
Attempted ==
    /\ attempt \notin ended
    /\ \A p \in polls : p.at = "save" => p.att \notin ended /\ p.att # attempt
    /\ \A k \in offered : k \notin ended /\ k # attempt /\ \A p \in polls : p.att # k

\* A token is in one place: with one poll, or in the configuration, a removal or
\* among the dropped.
Once ==
    /\ \A p, q \in polls : Carries(p) /\ Carries(q) /\ p.att = q.att => p = q
    /\ \A p \in polls : Carries(p) => p.att # apiToken /\ p.att # removal.tok /\ p.att \notin dropped
    /\ apiToken \notin dropped /\ removal.tok \notin dropped

\* Both ends name the same pairing, or what makes them differ is known.
SameEnds ==
    \/ parted
    \/ link \in dropped
    \/ \E p \in polls : Carries(p) /\ p.att = link
    \/ removal.at = "tell" /\ removal.tok = link /\ apiToken = 0
    \/ "monbooru" \in teardowns /\ link = 0
    \/ link = apiToken

\* A removal under way has taken its token out of the configuration, or is about to.
Ends ==
    /\ removal.at = "none" => removal.tok = 0
    /\ removal.at = "save" => parted \/ removal.tok = apiToken \/ apiToken = 0
    /\ removal.at = "tell" => parted \/ removal.tok = 0 \/ apiToken # removal.tok
    /\ SameEnds

\* The inductive invariant of the pairing.
PairingInv == PairingType /\ Whole /\ Approvals /\ Handed /\ Attempted /\ Once /\ Ends

LEMMA NoReqIs == P!NoReq \in ReqType /\ P!NoReq.state = "none" /\ P!NoReq.app = "nobody" /\ ~P!NoReq.claimed
  BY DEF P!NoReq, P!Nobody, ReqType

LEMMA PairingStart == P!Init => PairingInv
  <1> SUFFICES ASSUME P!Init PROVE PairingInv
    OBVIOUS
  <1> USE PairingAssumption DEF P!Init, P!Attempts, P!Asks, P!None, P!Monbooru, P!Nobody, P!NoReq, P!NoRemoval, Maybe
  <1>1. PairingType
    <2>1. parted \in BOOLEAN
      BY Zenon
    <2> QED BY <2>1 DEF PairingType, ReqType
  <1>2. Whole
    BY DEF Whole
  <1>3. Approvals
    BY DEF Approvals
  <1>4. Handed
    BY DEF Handed, Known
  <1>5. Attempted
    BY DEF Attempted
  <1>6. Once
    BY DEF Once
  <1>7. Ends
    BY DEF Ends, SameEnds
  <1> QED BY <1>1, <1>2, <1>3, <1>4, <1>5, <1>6, <1>7 DEF PairingInv

\* An instance counts as the module it comes from.
LEMMA PairingCounts == ASSUME NEW xs PROVE P!Cardinality(xs) = Cardinality(xs)
  BY DEF P!Cardinality, Cardinality

\* The attempts monbooru knows are counted from 1.
LEMMA MadeCounts ==
    ASSUME PairingType, NEW n \in Maybe, Known(n)
    PROVE  P!Cardinality(P!Made) = n
  <1> USE PairingAssumption DEF Maybe
  <1>1. P!Made = 1 .. n
    BY DEF P!Made, P!Attempts, Known
  <1>2. Cardinality(1 .. n) = n
    BY FS_Interval
  <1> QED BY <1>1, <1>2, PairingCounts

LEMMA ConnectKeepsPairing ==
    ASSUME PairingInv, P!Connect
    PROVE  PairingInv'
  <1> USE PairingAssumption DEF PairingInv, P!Attempts, P!Asks, P!None, P!Monbooru, P!Nobody, P!NoReq, P!NoRemoval, Maybe, P!Connect, P!Room, P!inbound
  <1>1. PICK top \in Maybe : Known(top)
    BY DEF Handed
  <1>2. P!Cardinality(P!Made) = top
    BY <1>1, MadeCounts
  <1>3. top + 1 \in P!Attempts /\ theirs[top + 1] = "none"
    BY <1>1, <1>2 DEF Known, PairingType
  <1>4. theirs' = [j \in P!Attempts |-> IF j = top + 1 THEN "pending"
                     ELSE IF theirs[j] = "pending" THEN "gone" ELSE theirs[j]]
    BY <1>2
  <1>5. offered' = offered \cup {top + 1}
    BY <1>2
  <1>6. UNCHANGED <<tokens, apiToken, attempt, polls, removal, link, reqs, mints, filed, minted, ended, dropped>>
    BY DEF P!Connect
  <1>7. PairingType'
    <2>1. (offered \subseteq P!Attempts)'
      <3> HIDE DEF P!Connect
      <3> QED BY <1>3, <1>5 DEF PairingType
    <2>2. (theirs \in [P!Attempts -> {"none", "pending", "approved", "denied", "gone"}])'
      <3> HIDE DEF P!Connect
      <3> QED BY <1>4 DEF PairingType
    <2> QED BY <2>1, <2>2 DEF PairingType
  <1>8. Whole'
    BY DEF Whole
  <1>9. Approvals'
    BY DEF Approvals
  <1>10. Handed'
    <2>1. (\E n \in Maybe : Known(n))'
      <3> HIDE DEF P!Connect
      <3>1. \A k \in P!Attempts : theirs'[k] # "none" <=> k <= top + 1
        BY <1>1, <1>3, <1>4 DEF PairingType, Known
      <3> QED BY <1>3, <3>1, SMTT(30) DEF Known
    <2>2. (\A k \in offered : theirs[k] # "none")'
      <3> HIDE DEF P!Connect
      <3> QED BY <1>3, <1>4, <1>5, <1>6 DEF PairingType, Handed, Carries
    <2>3. (\A p \in polls : theirs[p.att] # "none" /\ (Carries(p) => theirs[p.att] = "gone"))'
      <3> HIDE DEF P!Connect
      <3> QED BY <1>3, <1>4, <1>5, <1>6 DEF PairingType, Handed, Carries
    <2>4. (attempt # 0 => theirs[attempt] # "none")'
      <3> HIDE DEF P!Connect
      <3> QED BY <1>3, <1>4, <1>5, <1>6 DEF PairingType, Handed, Carries
    <2>5. (\A k \in ended : theirs[k] # "none")'
      <3> HIDE DEF P!Connect
      <3> QED BY <1>3, <1>4, <1>5, <1>6 DEF PairingType, Handed, Carries
    <2>6. (\A k \in dropped : theirs[k] = "gone")'
      <3> HIDE DEF P!Connect
      <3> QED BY <1>3, <1>4, <1>5, <1>6 DEF PairingType, Handed, Carries
    <2>7. (\A k \in {link, apiToken, removal.tok} : k # 0 => theirs[k] = "gone")'
      <3> HIDE DEF P!Connect
      <3> QED BY <1>3, <1>4, <1>5, <1>6 DEF PairingType, Handed, Carries
    <2> QED BY <2>1, <2>2, <2>3, <2>4, <2>5, <2>6, <2>7 DEF Handed
  <1>11. Attempted'
    <2> HIDE DEF P!Connect
    <2> QED BY <1>3, <1>5, <1>6 DEF PairingType, Handed, Attempted
  <1>12. Once'
    BY DEF Once
  <1>13. Ends'
    BY DEF Ends, SameEnds
  <1> QED BY <1>7, <1>8, <1>9, <1>10, <1>11, <1>12, <1>13

LEMMA SetAttemptKeepsPairing ==
    ASSUME PairingInv, NEW a \in P!Attempts, P!SetAttempt(a)
    PROVE  PairingInv'
  <1> USE PairingAssumption DEF PairingInv, P!Attempts, P!Asks, P!None, P!Monbooru, P!Nobody, P!NoReq, P!NoRemoval, Maybe, P!SetAttempt, P!inbound
  <1>1. PairingType'
    <2>1. (attempt \in Maybe)'
      BY DEF PairingType
    <2>2. (offered \subseteq P!Attempts)'
      BY DEF PairingType
    <2>3. (ended \subseteq P!Attempts)'
      BY DEF PairingType
    <2> QED BY <2>1, <2>2, <2>3 DEF PairingType
  <1>2. Whole'
    BY DEF Whole
  <1>3. Approvals'
    BY DEF Approvals
  <1>4. Handed'
    <2>1. (\E n \in Maybe : Known(n))'
      BY DEF Handed, Known
    <2>2. (\A k \in offered : theirs[k] # "none")'
      BY DEF PairingType, Handed, Known, Carries
    <2>3. (\A p \in polls : theirs[p.att] # "none" /\ (Carries(p) => theirs[p.att] = "gone"))'
      BY DEF Handed
    <2>4. (attempt # 0 => theirs[attempt] # "none")'
      BY DEF PairingType, Handed, Known, Carries
    <2>5. (\A k \in ended : theirs[k] # "none")'
      BY DEF PairingType, Handed, Known, Carries
    <2>6. (\A k \in dropped : theirs[k] = "gone")'
      BY DEF Handed
    <2>7. (\A k \in {link, apiToken, removal.tok} : k # 0 => theirs[k] = "gone")'
      BY DEF Handed
    <2> QED BY <2>1, <2>2, <2>3, <2>4, <2>5, <2>6, <2>7 DEF Handed
  <1>5. Attempted'
    BY DEF PairingType, Handed, Attempted
  <1>6. Once'
    BY DEF Once
  <1>7. Ends'
    BY DEF Ends, SameEnds
  <1> QED BY <1>1, <1>2, <1>3, <1>4, <1>5, <1>6, <1>7

LEMMA PollStartKeepsPairing ==
    ASSUME PairingInv, P!PollStart
    PROVE  PairingInv'
  <1> USE PairingAssumption DEF PairingInv, P!Attempts, P!Asks, P!None, P!Monbooru, P!Nobody, P!NoReq, P!NoRemoval, Maybe, P!PollStart, P!inbound
  <1>1. PairingType'
    <2>1. (polls \subseteq [att : P!Attempts, at : {"ask", "token", "wait", "over", "save"}])'
      BY DEF PairingType
    <2> QED BY <2>1 DEF PairingType
  <1>2. Whole'
    BY DEF Whole
  <1>3. Approvals'
    BY DEF Approvals
  <1>4. Handed'
    <2>1. (\E n \in Maybe : Known(n))'
      BY DEF Handed, Known
    <2>2. (\A k \in offered : theirs[k] # "none")'
      BY DEF Handed
    <2>3. (\A p \in polls : theirs[p.att] # "none" /\ (Carries(p) => theirs[p.att] = "gone"))'
      BY DEF PairingType, Handed, Known, Carries
    <2>4. (attempt # 0 => theirs[attempt] # "none")'
      BY DEF Handed
    <2>5. (\A k \in ended : theirs[k] # "none")'
      BY DEF Handed
    <2>6. (\A k \in dropped : theirs[k] = "gone")'
      BY DEF Handed
    <2>7. (\A k \in {link, apiToken, removal.tok} : k # 0 => theirs[k] = "gone")'
      BY DEF Handed
    <2> QED BY <2>1, <2>2, <2>3, <2>4, <2>5, <2>6, <2>7 DEF Handed
  <1>5. Attempted'
    BY DEF PairingType, Handed, Attempted
  <1>6. Once'
    BY DEF PairingType, Handed, Once, Carries
  <1>7. Ends'
    <2>1. (removal.at = "none" => removal.tok = 0)'
      BY DEF Ends
    <2>2. (removal.at = "save" => parted \/ removal.tok = apiToken \/ apiToken = 0)'
      BY DEF Ends
    <2>3. (removal.at = "tell" => parted \/ removal.tok = 0 \/ apiToken # removal.tok)'
      BY DEF Ends
    <2>4. (SameEnds)'
      BY DEF PairingType, Handed, Once, Ends, SameEnds, Carries, Whole
    <2> QED BY <2>1, <2>2, <2>3, <2>4 DEF Ends
  <1> QED BY <1>1, <1>2, <1>3, <1>4, <1>5, <1>6, <1>7

LEMMA PollAnswerKeepsPairing ==
    ASSUME PairingInv, NEW poll, P!PollAnswer(poll)
    PROVE  PairingInv'
  <1> USE PairingAssumption DEF PairingInv, P!Attempts, P!Asks, P!None, P!Monbooru, P!Nobody, P!NoReq, P!NoRemoval, Maybe, P!PollAnswer, P!Advance, P!inbound
  <1>1. poll \in [att : P!Attempts, at : {"ask", "token", "wait", "over", "save"}]
    BY DEF PairingType
  <1>2. poll.att \in P!Attempts
    BY <1>1
  <1>3. \/ /\ theirs[poll.att] = "approved" /\ theirs' = [theirs EXCEPT ![poll.att] = "gone"]
           /\ link' = poll.att /\ polls' = (polls \ {poll}) \cup {[poll EXCEPT !.at = "token"]}
        \/ /\ theirs' = theirs /\ link' = link
           /\ \E s \in {"over", "wait"} : polls' = (polls \ {poll}) \cup {[poll EXCEPT !.at = s]}
    OBVIOUS
  <1>4. \A s \in {"over", "wait", "token"} :
           [poll EXCEPT !.at = s].att = poll.att /\ [poll EXCEPT !.at = s].at = s
    BY <1>1
  <1>5. poll \in polls /\ poll.at = "ask"
    OBVIOUS
  <1>6. UNCHANGED <<tokens, apiToken, removal, teardowns, dropped, parted>>
    OBVIOUS
  <1>7. PairingType'
    <2>1. (link \in Maybe)'
      BY DEF PairingType
    <2>2. (polls \subseteq [att : P!Attempts, at : {"ask", "token", "wait", "over", "save"}])'
      BY SMTT(30) DEF PairingType
    <2>3. (theirs \in [P!Attempts -> {"none", "pending", "approved", "denied", "gone"}])'
      BY DEF PairingType
    <2> QED BY <2>1, <2>2, <2>3 DEF PairingType
  <1>8. Whole'
    BY DEF Whole
  <1>9. Approvals'
    BY DEF Approvals
  <1>10. Handed'
    <2>1. (\E n \in Maybe : Known(n))'
      <3>1. \A k \in P!Attempts : theirs'[k] # "none" <=> theirs[k] # "none"
        BY <1>2 DEF PairingType
      <3> HIDE DEF P!PollAnswer
      <3> QED BY <3>1 DEF Handed, Known
    <2>2. (\A k \in offered : theirs[k] # "none")'
      BY SMTT(30) DEF PairingType, Handed, Known, Carries
    <2>3. (\A p \in polls : theirs[p.att] # "none" /\ (Carries(p) => theirs[p.att] = "gone"))'
      <3>1. \A k \in P!Attempts : theirs[k] # "none" => theirs'[k] # "none"
        BY <1>2 DEF PairingType
      <3>2. \A k \in P!Attempts : theirs[k] = "gone" => theirs'[k] = "gone"
        BY <1>2 DEF PairingType
      <3>3. \A p \in polls : p.att \in P!Attempts /\ theirs[p.att] # "none" /\ (Carries(p) => theirs[p.att] = "gone")
        BY DEF PairingType, Handed
      <3>4. \A p \in polls' : p \in polls \/ (p.att = poll.att /\ (Carries(p) => theirs'[p.att] = "gone"))
        <4> HIDE DEF PairingInv, P!PollAnswer, P!Advance
        <4>1. CASE /\ theirs' = [theirs EXCEPT ![poll.att] = "gone"]
                   /\ polls' = (polls \ {poll}) \cup {[poll EXCEPT !.at = "token"]}
          <5>1. theirs'[poll.att] = "gone"
            BY <4>1, <1>2 DEF PairingType, PairingInv
          <5> QED BY <5>1, <4>1, <1>4
        <4>2. CASE \E s \in {"over", "wait"} : polls' = (polls \ {poll}) \cup {[poll EXCEPT !.at = s]}
          BY <4>2, <1>4 DEF Carries
        <4> QED BY <4>1, <4>2, <1>3
      <3> HIDE DEF PairingInv, P!PollAnswer, P!Advance
      <3> QED BY <3>1, <3>2, <3>3, <3>4, <1>2, <1>5
    <2>4. (attempt # 0 => theirs[attempt] # "none")'
      BY SMTT(30) DEF PairingType, Handed, Known, Carries
    <2>5. (\A k \in ended : theirs[k] # "none")'
      BY DEF PairingType, Handed, Known, Carries
    <2>6. (\A k \in dropped : theirs[k] = "gone")'
      BY DEF PairingType, Handed, Known, Carries
    <2>7. (\A k \in {link, apiToken, removal.tok} : k # 0 => theirs[k] = "gone")'
      BY DEF PairingType, Handed, Known, Carries
    <2> QED BY <2>1, <2>2, <2>3, <2>4, <2>5, <2>6, <2>7 DEF Handed
  <1>11. Attempted'
    BY DEF PairingType, Handed, Attempted
  <1>12. Once'
    <2>1. CASE theirs[poll.att] = "approved"
      <3>1. apiToken # poll.att /\ removal.tok # poll.att /\ poll.att \notin dropped
        BY <1>2, <2>1 DEF PairingType, Handed
      <3>2. \A p \in polls : Carries(p) => p.att # poll.att
        BY <1>2, <2>1 DEF PairingType, Handed
      <3>3. polls' = (polls \ {poll}) \cup {[poll EXCEPT !.at = "token"]}
        BY <2>1
      <3> HIDE DEF P!PollAnswer, P!Advance
      <3>4. \A p \in polls' : Carries(p) => (p \in polls \/ p = [poll EXCEPT !.at = "token"])
        BY <3>3
      <3>5. \A p, q \in polls' : Carries(p) /\ Carries(q) /\ p.att = q.att => p = q
        BY <1>4, <3>2, <3>4 DEF Once
      <3>6. \A p \in polls' : Carries(p) => p.att # apiToken /\ p.att # removal.tok /\ p.att \notin dropped
        BY <1>4, <3>1, <3>4 DEF Once
      <3> QED BY <1>6, <3>5, <3>6 DEF Once, Carries
    <2>2. CASE theirs[poll.att] # "approved"
      <3>1. PICK s \in {"over", "wait"} : polls' = (polls \ {poll}) \cup {[poll EXCEPT !.at = s]}
        BY <2>2, <1>3
      <3> HIDE DEF P!PollAnswer, P!Advance
      <3> QED BY <1>4, <1>6, <3>1, ZenonT(40) DEF Once, Carries
    <2> QED BY <2>1, <2>2
  <1>13. Ends'
    <2>1. (removal.at = "none" => removal.tok = 0)'
      BY DEF Ends
    <2>2. (removal.at = "save" => parted \/ removal.tok = apiToken \/ apiToken = 0)'
      BY DEF Ends
    <2>3. (removal.at = "tell" => parted \/ removal.tok = 0 \/ apiToken # removal.tok)'
      BY DEF Ends
    <2>4. (SameEnds)'
      <3> HIDE DEF P!PollAnswer, P!Advance
      <3> QED BY <1>2, <1>3, <1>4, <1>5, <1>6 DEF Ends, SameEnds, Carries
    <2> QED BY <2>1, <2>2, <2>3, <2>4 DEF Ends
  <1> QED BY <1>7, <1>8, <1>9, <1>10, <1>11, <1>12, <1>13

LEMMA PollWaitsKeepsPairing ==
    ASSUME PairingInv, NEW poll, P!PollWaits(poll)
    PROVE  PairingInv'
  <1> USE PairingAssumption DEF PairingInv, P!Attempts, P!Asks, P!None, P!Monbooru, P!Nobody, P!NoReq, P!NoRemoval, Maybe, P!PollWaits, P!Fault, P!inbound
  <1>1. poll \in [att : P!Attempts, at : {"ask", "token", "wait", "over", "save"}]
    BY DEF PairingType
  <1>2. poll.att \in P!Attempts
    BY <1>1
  <1>3. PairingType'
    <2>1. (dropped \subseteq P!Attempts)'
      <3>1. dropped' = dropped \/ dropped' = dropped \cup {poll.att}
        OBVIOUS
      <3>2. dropped \subseteq P!Attempts
        BY DEF PairingType
      <3> HIDE DEF P!PollWaits, P!Fault, P!Committed, P!Repaired, PairingInv
      <3> QED BY <1>2, <3>1, <3>2, Zenon
    <2>2. (polls \subseteq [att : P!Attempts, at : {"ask", "token", "wait", "over", "save"}])'
      BY DEF PairingType
    <2>3. (lost \in Nat)'
      BY DEF PairingType
    <2> QED BY <2>1, <2>2, <2>3 DEF PairingType
  <1>4. Whole'
    BY DEF Whole
  <1>5. Approvals'
    BY DEF Approvals
  <1>6. Handed'
    <2>1. (\E n \in Maybe : Known(n))'
      BY DEF Handed, Known
    <2>2. (\A k \in offered : theirs[k] # "none")'
      BY DEF Handed
    <2>3. (\A p \in polls : theirs[p.att] # "none" /\ (Carries(p) => theirs[p.att] = "gone"))'
      BY DEF PairingType, Handed, Known, Carries
    <2>4. (attempt # 0 => theirs[attempt] # "none")'
      BY DEF Handed
    <2>5. (\A k \in ended : theirs[k] # "none")'
      BY DEF Handed
    <2>6. (\A k \in dropped : theirs[k] = "gone")'
      <3>1. dropped' = dropped \/ (dropped' = dropped \cup {poll.att} /\ Carries(poll))
        BY DEF Carries
      <3>2. Carries(poll) => theirs[poll.att] = "gone"
        BY DEF Handed
      <3> QED BY <1>2, <3>1, <3>2, ZenonT(40) DEF PairingType, Handed
    <2>7. (\A k \in {link, apiToken, removal.tok} : k # 0 => theirs[k] = "gone")'
      BY DEF Handed
    <2> QED BY <2>1, <2>2, <2>3, <2>4, <2>5, <2>6, <2>7 DEF Handed
  <1>7. Attempted'
    BY DEF PairingType, Handed, Attempted
  <1>8. Once'
    BY DEF PairingType, Handed, Once, Carries
  <1>9. Ends'
    <2>1. (removal.at = "none" => removal.tok = 0)'
      BY DEF Ends
    <2>2. (removal.at = "save" => parted \/ removal.tok = apiToken \/ apiToken = 0)'
      BY DEF Ends
    <2>3. (removal.at = "tell" => parted \/ removal.tok = 0 \/ apiToken # removal.tok)'
      BY DEF Ends
    <2>4. (SameEnds)'
      BY DEF PairingType, Handed, Once, Ends, SameEnds, Carries, Whole
    <2> QED BY <2>1, <2>2, <2>3, <2>4 DEF Ends
  <1> QED BY <1>3, <1>4, <1>5, <1>6, <1>7, <1>8, <1>9

LEMMA PollOverKeepsPairing ==
    ASSUME PairingInv, NEW poll, P!PollOver(poll)
    PROVE  PairingInv'
  <1> USE PairingAssumption DEF PairingInv, P!Attempts, P!Asks, P!None, P!Monbooru, P!Nobody, P!NoReq, P!NoRemoval, Maybe, P!PollOver, P!inbound
  <1>1. PairingType'
    <2>1. (attempt \in Maybe)'
      BY DEF PairingType
    <2>2. (polls \subseteq [att : P!Attempts, at : {"ask", "token", "wait", "over", "save"}])'
      BY DEF PairingType
    <2> QED BY <2>1, <2>2 DEF PairingType
  <1>2. Whole'
    BY DEF Whole
  <1>3. Approvals'
    BY DEF Approvals
  <1>4. Handed'
    <2>1. (\E n \in Maybe : Known(n))'
      BY DEF Handed, Known
    <2>2. (\A k \in offered : theirs[k] # "none")'
      BY DEF Handed
    <2>3. (\A p \in polls : theirs[p.att] # "none" /\ (Carries(p) => theirs[p.att] = "gone"))'
      BY DEF PairingType, Handed, Known, Carries
    <2>4. (attempt # 0 => theirs[attempt] # "none")'
      BY DEF PairingType, Handed, Known, Carries
    <2>5. (\A k \in ended : theirs[k] # "none")'
      BY DEF Handed
    <2>6. (\A k \in dropped : theirs[k] = "gone")'
      BY DEF Handed
    <2>7. (\A k \in {link, apiToken, removal.tok} : k # 0 => theirs[k] = "gone")'
      BY DEF Handed
    <2> QED BY <2>1, <2>2, <2>3, <2>4, <2>5, <2>6, <2>7 DEF Handed
  <1>5. Attempted'
    BY DEF PairingType, Handed, Attempted
  <1>6. Once'
    BY DEF PairingType, Handed, Once, Carries
  <1>7. Ends'
    <2>1. (removal.at = "none" => removal.tok = 0)'
      BY DEF Ends
    <2>2. (removal.at = "save" => parted \/ removal.tok = apiToken \/ apiToken = 0)'
      BY DEF Ends
    <2>3. (removal.at = "tell" => parted \/ removal.tok = 0 \/ apiToken # removal.tok)'
      BY DEF Ends
    <2>4. (SameEnds)'
      BY DEF PairingType, Handed, Once, Ends, SameEnds, Carries, Whole
    <2> QED BY <2>1, <2>2, <2>3, <2>4 DEF Ends
  <1> QED BY <1>1, <1>2, <1>3, <1>4, <1>5, <1>6, <1>7

LEMMA PollTakeKeepsPairing ==
    ASSUME PairingInv, NEW poll, P!PollTake(poll)
    PROVE  PairingInv'
  <1> USE PairingAssumption DEF PairingInv, P!Attempts, P!Asks, P!None, P!Monbooru, P!Nobody, P!NoReq, P!NoRemoval, Maybe, P!PollTake, P!Takes, P!Advance, P!inbound
  <1>1. poll \in [att : P!Attempts, at : {"ask", "token", "wait", "over", "save"}]
    BY DEF PairingType
  <1>2. poll.att \in P!Attempts
    BY <1>1
  <1>3. poll \in polls /\ poll.at = "token"
    OBVIOUS
  <1>4. \/ polls' = (polls \ {poll}) \cup {[poll EXCEPT !.at = "save"]} /\ dropped' = dropped
        \/ polls' = polls \ {poll} /\ dropped' = dropped \cup {poll.att}
    OBVIOUS
  <1>5. [poll EXCEPT !.at = "save"].att = poll.att /\ [poll EXCEPT !.at = "save"].at = "save"
    BY <1>1
  <1>6. UNCHANGED <<apiToken, link, removal, teardowns, parted>>
    OBVIOUS
  <1>7. PairingType'
    <2>1. (attempt \in Maybe)'
      BY DEF PairingType
    <2>2. (dropped \subseteq P!Attempts)'
      <3>1. dropped' = dropped \/ dropped' = dropped \cup {poll.att}
        OBVIOUS
      <3> QED BY <1>2, <3>1 DEF PairingType
    <2>3. (polls \subseteq [att : P!Attempts, at : {"ask", "token", "wait", "over", "save"}])'
      BY DEF PairingType
    <2> QED BY <2>1, <2>2, <2>3 DEF PairingType
  <1>8. Whole'
    BY DEF Whole
  <1>9. Approvals'
    BY DEF Approvals
  <1>10. Handed'
    <2>1. (\E n \in Maybe : Known(n))'
      BY DEF Handed, Known
    <2>2. (\A k \in offered : theirs[k] # "none")'
      BY DEF Handed
    <2>3. (\A p \in polls : theirs[p.att] # "none" /\ (Carries(p) => theirs[p.att] = "gone"))'
      BY DEF PairingType, Handed, Known, Carries
    <2>4. (attempt # 0 => theirs[attempt] # "none")'
      BY DEF PairingType, Handed, Known, Carries
    <2>5. (\A k \in ended : theirs[k] # "none")'
      BY DEF Handed
    <2>6. (\A k \in dropped : theirs[k] = "gone")'
      <3>1. dropped' = dropped \/ (dropped' = dropped \cup {poll.att} /\ Carries(poll))
        BY DEF Carries
      <3>2. Carries(poll) => theirs[poll.att] = "gone"
        BY DEF Handed
      <3> QED BY <1>2, <3>1, <3>2 DEF PairingType, Handed
    <2>7. (\A k \in {link, apiToken, removal.tok} : k # 0 => theirs[k] = "gone")'
      BY DEF Handed
    <2> QED BY <2>1, <2>2, <2>3, <2>4, <2>5, <2>6, <2>7 DEF Handed
  <1>11. Attempted'
    BY DEF PairingType, Handed, Attempted
  <1>12. Once'
    BY SMTT(30) DEF PairingType, Handed, Once, Carries
  <1>13. Ends'
    <2>1. (removal.at = "none" => removal.tok = 0)'
      BY DEF Ends
    <2>2. (removal.at = "save" => parted \/ removal.tok = apiToken \/ apiToken = 0)'
      BY DEF Ends
    <2>3. (removal.at = "tell" => parted \/ removal.tok = 0 \/ apiToken # removal.tok)'
      BY DEF Ends
    <2>4. (SameEnds)'
      <3> HIDE DEF P!PollTake, P!Advance, P!Takes
      <3> QED BY <1>3, <1>4, <1>5, <1>6 DEF Ends, SameEnds, Carries
    <2> QED BY <2>1, <2>2, <2>3, <2>4 DEF Ends
  <1> QED BY <1>7, <1>8, <1>9, <1>10, <1>11, <1>12, <1>13

LEMMA PollSaveKeepsPairing ==
    ASSUME PairingInv, NEW poll, P!PollSave(poll)
    PROVE  PairingInv'
  <1> USE PairingAssumption DEF PairingInv, P!Attempts, P!Asks, P!None, P!Monbooru, P!Nobody, P!NoReq, P!NoRemoval, Maybe, P!PollSave, P!Committed, P!Repaired, P!PairedWith, P!Fault, P!inbound
  <1>1. poll \in [att : P!Attempts, at : {"ask", "token", "wait", "over", "save"}]
    BY DEF PairingType
  <1>2. poll.att \in P!Attempts
    BY <1>1
  <1>3. \/ /\ apiToken' = poll.att /\ dropped' = dropped
           /\ parted' \/ (link = poll.att /\ removal.at # "save")
        \/ dropped' = dropped \cup {poll.att} /\ apiToken' = apiToken /\ (parted => parted')
    BY Zenon
  <1>4. PairingType'
    <2>1. (tokens \subseteq [paired : Apps \cup {"nobody", "monbooru"}, of : Nat])'
      BY DEF PairingType
    <2>2. (apiToken \in Maybe)'
      BY DEF PairingType
    <2>3. (attempt \in Maybe)'
      BY DEF PairingType
    <2>4. (dropped \subseteq P!Attempts)'
      <3>1. dropped' = dropped \/ dropped' = dropped \cup {poll.att}
        OBVIOUS
      <3>2. dropped \subseteq P!Attempts
        BY DEF PairingType
      <3> HIDE DEF P!PollSave, P!Fault, P!Committed, P!Repaired, PairingInv
      <3> QED BY <1>2, <3>1, <3>2, Zenon
    <2>5. (polls \subseteq [att : P!Attempts, at : {"ask", "token", "wait", "over", "save"}])'
      BY DEF PairingType
    <2>6. (parted \in BOOLEAN)'
      BY Zenon DEF PairingType
    <2>7. (lost \in Nat)'
      BY DEF PairingType
    <2> QED BY <2>1, <2>2, <2>3, <2>4, <2>5, <2>6, <2>7 DEF PairingType
  <1>5. Whole'
    <2>1. (\A t, u \in tokens : t.paired # "nobody" /\ t.paired = u.paired => t = u)'
      BY DEF PairingType, Whole
    <2>2. (\A t \in tokens : t.paired = "monbooru" => apiToken # 0 /\ t.of = apiToken)'
      BY DEF PairingType, Whole
    <2>3. (apiToken # 0 => [paired |-> "monbooru", of |-> apiToken] \in tokens)'
      BY DEF PairingType, Whole
    <2> QED BY <2>1, <2>2, <2>3 DEF Whole
  <1>6. Approvals'
    BY DEF Approvals
  <1>7. Handed'
    <2>1. (\E n \in Maybe : Known(n))'
      BY DEF Handed, Known
    <2>2. (\A k \in offered : theirs[k] # "none")'
      BY DEF Handed
    <2>3. (\A p \in polls : theirs[p.att] # "none" /\ (Carries(p) => theirs[p.att] = "gone"))'
      BY DEF PairingType, Handed, Known, Carries
    <2>4. (attempt # 0 => theirs[attempt] # "none")'
      BY DEF PairingType, Handed, Known, Carries
    <2>5. (\A k \in ended : theirs[k] # "none")'
      BY DEF Handed
    <2>6. (\A k \in dropped : theirs[k] = "gone")'
      <3>1. dropped' = dropped \/ (dropped' = dropped \cup {poll.att} /\ Carries(poll))
        BY DEF Carries
      <3>2. Carries(poll) => theirs[poll.att] = "gone"
        BY DEF Handed
      <3> QED BY <1>2, <3>1, <3>2, ZenonT(40) DEF PairingType, Handed
    <2>7. (\A k \in {link, apiToken, removal.tok} : k # 0 => theirs[k] = "gone")'
      BY DEF PairingType, Handed, Known, Carries
    <2> QED BY <2>1, <2>2, <2>3, <2>4, <2>5, <2>6, <2>7 DEF Handed
  <1>8. Attempted'
    BY SMTT(30) DEF PairingType, Handed, Attempted
  <1>9. Once'
    BY DEF PairingType, Handed, Once, Carries
  <1>10. Ends'
    <2>1. (removal.at = "none" => removal.tok = 0)'
      BY DEF Ends
    <2>2. (removal.at = "save" => parted \/ removal.tok = apiToken \/ apiToken = 0)'
      BY <1>3 DEF PairingType, Ends
    <2>3. (removal.at = "tell" => parted \/ removal.tok = 0 \/ apiToken # removal.tok)'
      BY DEF PairingType, Handed, Once, Ends, SameEnds, Carries, Whole
    <2>4. (SameEnds)'
      <3>1. poll \in polls /\ Carries(poll) /\ polls' = polls \ {poll} /\ UNCHANGED <<link, removal, teardowns>>
        BY DEF Carries
      <3> HIDE DEF P!PollSave
      <3> QED BY <1>3, <3>1 DEF PairingType, Ends, SameEnds, Carries, Once
    <2> QED BY <2>1, <2>2, <2>3, <2>4 DEF Ends
  <1> QED BY <1>4, <1>5, <1>6, <1>7, <1>8, <1>9, <1>10

LEMMA CancelKeepsPairing ==
    ASSUME PairingInv, P!Cancel
    PROVE  PairingInv'
  <1> USE PairingAssumption DEF PairingInv, P!Attempts, P!Asks, P!None, P!Monbooru, P!Nobody, P!NoReq, P!NoRemoval, Maybe, P!Cancel, P!inbound
  <1>1. PairingType'
    <2>1. (attempt \in Maybe)'
      BY DEF PairingType
    <2>2. (ended \subseteq P!Attempts)'
      BY DEF PairingType
    <2> QED BY <2>1, <2>2 DEF PairingType
  <1>2. Whole'
    BY DEF Whole
  <1>3. Approvals'
    BY DEF Approvals
  <1>4. Handed'
    <2>1. (\E n \in Maybe : Known(n))'
      BY DEF Handed, Known
    <2>2. (\A k \in offered : theirs[k] # "none")'
      BY DEF Handed
    <2>3. (\A p \in polls : theirs[p.att] # "none" /\ (Carries(p) => theirs[p.att] = "gone"))'
      BY DEF Handed
    <2>4. (attempt # 0 => theirs[attempt] # "none")'
      BY DEF PairingType, Handed, Known, Carries
    <2>5. (\A k \in ended : theirs[k] # "none")'
      BY DEF PairingType, Handed, Known, Carries
    <2>6. (\A k \in dropped : theirs[k] = "gone")'
      BY DEF Handed
    <2>7. (\A k \in {link, apiToken, removal.tok} : k # 0 => theirs[k] = "gone")'
      BY DEF Handed
    <2> QED BY <2>1, <2>2, <2>3, <2>4, <2>5, <2>6, <2>7 DEF Handed
  <1>5. Attempted'
    BY DEF PairingType, Handed, Attempted
  <1>6. Once'
    BY DEF Once
  <1>7. Ends'
    BY DEF Ends, SameEnds
  <1> QED BY <1>1, <1>2, <1>3, <1>4, <1>5, <1>6, <1>7

LEMMA RemoveKeepsPairing ==
    ASSUME PairingInv, P!Remove
    PROVE  PairingInv'
  <1> USE PairingAssumption DEF PairingInv, P!Attempts, P!Asks, P!None, P!Monbooru, P!Nobody, P!NoReq, P!NoRemoval, Maybe, P!Remove, P!ToldWith, P!inbound
  <1>1. PairingType'
    <2>1. (attempt \in Maybe)'
      BY DEF PairingType
    <2>2. (ended \subseteq P!Attempts)'
      BY DEF PairingType
    <2>3. (removal \in [tok : Maybe, at : {"none", "save", "tell"}])'
      BY DEF PairingType
    <2> QED BY <2>1, <2>2, <2>3 DEF PairingType
  <1>2. Whole'
    BY DEF Whole
  <1>3. Approvals'
    BY DEF Approvals
  <1>4. Handed'
    <2>1. (\E n \in Maybe : Known(n))'
      BY DEF Handed, Known
    <2>2. (\A k \in offered : theirs[k] # "none")'
      BY DEF Handed
    <2>3. (\A p \in polls : theirs[p.att] # "none" /\ (Carries(p) => theirs[p.att] = "gone"))'
      BY DEF Handed
    <2>4. (attempt # 0 => theirs[attempt] # "none")'
      BY DEF PairingType, Handed, Known, Carries
    <2>5. (\A k \in ended : theirs[k] # "none")'
      BY DEF PairingType, Handed, Known, Carries
    <2>6. (\A k \in dropped : theirs[k] = "gone")'
      BY DEF Handed
    <2>7. (\A k \in {link, apiToken, removal.tok} : k # 0 => theirs[k] = "gone")'
      BY DEF PairingType, Handed, Known, Carries
    <2> QED BY <2>1, <2>2, <2>3, <2>4, <2>5, <2>6, <2>7 DEF Handed
  <1>5. Attempted'
    BY DEF PairingType, Handed, Attempted
  <1>6. Once'
    BY DEF PairingType, Handed, Once, Carries
  <1>7. Ends'
    <2>1. (removal.at = "none" => removal.tok = 0)'
      BY DEF PairingType, Handed, Once, Ends, SameEnds, Carries, Whole
    <2>2. (removal.at = "save" => parted \/ removal.tok = apiToken \/ apiToken = 0)'
      BY DEF PairingType, Handed, Once, Ends, SameEnds, Carries, Whole
    <2>3. (removal.at = "tell" => parted \/ removal.tok = 0 \/ apiToken # removal.tok)'
      BY DEF PairingType, Handed, Once, Ends, SameEnds, Carries, Whole
    <2>4. (SameEnds)'
      BY DEF PairingType, Handed, Once, Ends, SameEnds, Carries, Whole
    <2> QED BY <2>1, <2>2, <2>3, <2>4 DEF Ends
  <1> QED BY <1>1, <1>2, <1>3, <1>4, <1>5, <1>6, <1>7

LEMMA RemoveSaveKeepsPairing ==
    ASSUME PairingInv, P!RemoveSave
    PROVE  PairingInv'
  <1> USE PairingAssumption DEF PairingInv, P!Attempts, P!Asks, P!None, P!Monbooru, P!Nobody, P!NoReq, P!NoRemoval, Maybe, P!RemoveSave, P!Unpaired, P!PairedWith, P!Fault, P!inbound
  <1>1. PairingType'
    <2>1. (tokens \subseteq [paired : Apps \cup {"nobody", "monbooru"}, of : Nat])'
      BY DEF PairingType
    <2>2. (apiToken \in Maybe)'
      BY DEF PairingType
    <2>3. (removal \in [tok : Maybe, at : {"none", "save", "tell"}])'
      BY DEF PairingType
    <2>4. (parted \in BOOLEAN)'
      BY Zenon DEF PairingType
    <2>5. (lost \in Nat)'
      BY DEF PairingType
    <2> QED BY <2>1, <2>2, <2>3, <2>4, <2>5 DEF PairingType
  <1>2. Whole'
    <2>1. (\A t, u \in tokens : t.paired # "nobody" /\ t.paired = u.paired => t = u)'
      BY DEF PairingType, Whole
    <2>2. (\A t \in tokens : t.paired = "monbooru" => apiToken # 0 /\ t.of = apiToken)'
      BY DEF PairingType, Whole
    <2>3. (apiToken # 0 => [paired |-> "monbooru", of |-> apiToken] \in tokens)'
      BY DEF PairingType, Whole
    <2> QED BY <2>1, <2>2, <2>3 DEF Whole
  <1>3. Approvals'
    BY DEF Approvals
  <1>4. Handed'
    <2>1. (\E n \in Maybe : Known(n))'
      BY DEF Handed, Known
    <2>2. (\A k \in offered : theirs[k] # "none")'
      BY DEF Handed
    <2>3. (\A p \in polls : theirs[p.att] # "none" /\ (Carries(p) => theirs[p.att] = "gone"))'
      BY DEF Handed
    <2>4. (attempt # 0 => theirs[attempt] # "none")'
      BY DEF Handed
    <2>5. (\A k \in ended : theirs[k] # "none")'
      BY DEF Handed
    <2>6. (\A k \in dropped : theirs[k] = "gone")'
      BY DEF Handed
    <2>7. (\A k \in {link, apiToken, removal.tok} : k # 0 => theirs[k] = "gone")'
      BY DEF PairingType, Handed, Known, Carries
    <2> QED BY <2>1, <2>2, <2>3, <2>4, <2>5, <2>6, <2>7 DEF Handed
  <1>5. Attempted'
    BY DEF Attempted
  <1>6. Once'
    BY DEF PairingType, Handed, Once, Carries
  <1>7. Ends'
    <2>1. (removal.at = "none" => removal.tok = 0)'
      BY DEF PairingType, Handed, Once, Ends, SameEnds, Carries, Whole
    <2>2. (removal.at = "save" => parted \/ removal.tok = apiToken \/ apiToken = 0)'
      BY DEF PairingType, Handed, Once, Ends, SameEnds, Carries, Whole
    <2>3. (removal.at = "tell" => parted \/ removal.tok = 0 \/ apiToken # removal.tok)'
      BY DEF PairingType, Handed, Once, Ends, SameEnds, Carries, Whole
    <2>4. (SameEnds)'
      BY DEF PairingType, Handed, Once, Ends, SameEnds, Carries, Whole
    <2> QED BY <2>1, <2>2, <2>3, <2>4 DEF Ends
  <1> QED BY <1>1, <1>2, <1>3, <1>4, <1>5, <1>6, <1>7

LEMMA RemoveTellKeepsPairing ==
    ASSUME PairingInv, P!RemoveTell
    PROVE  PairingInv'
  <1> USE PairingAssumption DEF PairingInv, P!Attempts, P!Asks, P!None, P!Monbooru, P!Nobody, P!NoReq, P!NoRemoval, Maybe, P!RemoveTell, P!Fault, P!inbound
  <1>1. PairingType'
    <2>1. (link \in Maybe)'
      BY DEF PairingType
    <2>2. (removal \in [tok : Maybe, at : {"none", "save", "tell"}])'
      BY DEF PairingType
    <2>3. (parted \in BOOLEAN)'
      BY Zenon DEF PairingType
    <2>4. (lost \in Nat)'
      BY DEF PairingType
    <2> QED BY <2>1, <2>2, <2>3, <2>4 DEF PairingType
  <1>2. Whole'
    BY DEF Whole
  <1>3. Approvals'
    BY DEF Approvals
  <1>4. Handed'
    <2>1. (\E n \in Maybe : Known(n))'
      BY DEF Handed, Known
    <2>2. (\A k \in offered : theirs[k] # "none")'
      BY DEF Handed
    <2>3. (\A p \in polls : theirs[p.att] # "none" /\ (Carries(p) => theirs[p.att] = "gone"))'
      BY DEF Handed
    <2>4. (attempt # 0 => theirs[attempt] # "none")'
      BY DEF Handed
    <2>5. (\A k \in ended : theirs[k] # "none")'
      BY DEF Handed
    <2>6. (\A k \in dropped : theirs[k] = "gone")'
      BY DEF Handed
    <2>7. (\A k \in {link, apiToken, removal.tok} : k # 0 => theirs[k] = "gone")'
      BY DEF PairingType, Handed, Known, Carries
    <2> QED BY <2>1, <2>2, <2>3, <2>4, <2>5, <2>6, <2>7 DEF Handed
  <1>5. Attempted'
    BY DEF Attempted
  <1>6. Once'
    BY DEF PairingType, Handed, Once, Carries
  <1>7. Ends'
    <2>1. (removal.at = "none" => removal.tok = 0)'
      BY DEF PairingType, Handed, Once, Ends, SameEnds, Carries, Whole
    <2>2. (removal.at = "save" => parted \/ removal.tok = apiToken \/ apiToken = 0)'
      BY DEF PairingType, Handed, Once, Ends, SameEnds, Carries, Whole
    <2>3. (removal.at = "tell" => parted \/ removal.tok = 0 \/ apiToken # removal.tok)'
      BY DEF PairingType, Handed, Once, Ends, SameEnds, Carries, Whole
    <2>4. (SameEnds)'
      BY DEF PairingType, Handed, Once, Ends, SameEnds, Carries, Whole
    <2> QED BY <2>1, <2>2, <2>3, <2>4 DEF Ends
  <1> QED BY <1>1, <1>2, <1>3, <1>4, <1>5, <1>6, <1>7

LEMMA TheirDecisionKeepsPairing ==
    ASSUME PairingInv, NEW a \in P!Attempts, P!TheirDecision(a)
    PROVE  PairingInv'
  <1> USE PairingAssumption DEF PairingInv, P!Attempts, P!Asks, P!None, P!Monbooru, P!Nobody, P!NoReq, P!NoRemoval, Maybe, P!TheirDecision, P!inbound
  <1>1. PairingType'
    <2>1. (theirs \in [P!Attempts -> {"none", "pending", "approved", "denied", "gone"}])'
      BY DEF PairingType
    <2> QED BY <2>1 DEF PairingType
  <1>2. Whole'
    BY DEF Whole
  <1>3. Approvals'
    BY DEF Approvals
  <1>4. Handed'
    <2>1. (\E n \in Maybe : Known(n))'
      <3>1. \A k \in P!Attempts : theirs'[k] # "none" <=> theirs[k] # "none"
        BY DEF PairingType
      <3> HIDE DEF P!TheirDecision
      <3> QED BY <3>1 DEF Handed, Known
    <2>2. (\A k \in offered : theirs[k] # "none")'
      BY DEF PairingType, Handed, Known, Carries
    <2>3. (\A p \in polls : theirs[p.att] # "none" /\ (Carries(p) => theirs[p.att] = "gone"))'
      BY DEF PairingType, Handed, Known, Carries
    <2>4. (attempt # 0 => theirs[attempt] # "none")'
      BY DEF PairingType, Handed, Known, Carries
    <2>5. (\A k \in ended : theirs[k] # "none")'
      BY DEF PairingType, Handed, Known, Carries
    <2>6. (\A k \in dropped : theirs[k] = "gone")'
      BY DEF PairingType, Handed, Known, Carries
    <2>7. (\A k \in {link, apiToken, removal.tok} : k # 0 => theirs[k] = "gone")'
      BY DEF PairingType, Handed, Known, Carries
    <2> QED BY <2>1, <2>2, <2>3, <2>4, <2>5, <2>6, <2>7 DEF Handed
  <1>5. Attempted'
    BY DEF Attempted
  <1>6. Once'
    BY DEF Once
  <1>7. Ends'
    BY DEF Ends, SameEnds
  <1> QED BY <1>1, <1>2, <1>3, <1>4, <1>5, <1>6, <1>7

LEMMA TheirExpiryKeepsPairing ==
    ASSUME PairingInv, NEW a \in P!Attempts, P!TheirExpiry(a)
    PROVE  PairingInv'
  <1> USE PairingAssumption DEF PairingInv, P!Attempts, P!Asks, P!None, P!Monbooru, P!Nobody, P!NoReq, P!NoRemoval, Maybe, P!TheirExpiry, P!inbound
  <1>1. PairingType'
    <2>1. (theirs \in [P!Attempts -> {"none", "pending", "approved", "denied", "gone"}])'
      BY DEF PairingType
    <2> QED BY <2>1 DEF PairingType
  <1>2. Whole'
    BY DEF Whole
  <1>3. Approvals'
    BY DEF Approvals
  <1>4. Handed'
    <2>1. (\E n \in Maybe : Known(n))'
      <3>1. \A k \in P!Attempts : theirs'[k] # "none" <=> theirs[k] # "none"
        BY DEF PairingType
      <3> HIDE DEF P!TheirExpiry
      <3> QED BY <3>1 DEF Handed, Known
    <2>2. (\A k \in offered : theirs[k] # "none")'
      BY DEF PairingType, Handed, Known, Carries
    <2>3. (\A p \in polls : theirs[p.att] # "none" /\ (Carries(p) => theirs[p.att] = "gone"))'
      BY DEF PairingType, Handed, Known, Carries
    <2>4. (attempt # 0 => theirs[attempt] # "none")'
      BY DEF PairingType, Handed, Known, Carries
    <2>5. (\A k \in ended : theirs[k] # "none")'
      BY DEF PairingType, Handed, Known, Carries
    <2>6. (\A k \in dropped : theirs[k] = "gone")'
      BY DEF PairingType, Handed, Known, Carries
    <2>7. (\A k \in {link, apiToken, removal.tok} : k # 0 => theirs[k] = "gone")'
      BY DEF PairingType, Handed, Known, Carries
    <2> QED BY <2>1, <2>2, <2>3, <2>4, <2>5, <2>6, <2>7 DEF Handed
  <1>5. Attempted'
    BY DEF Attempted
  <1>6. Once'
    BY DEF Once
  <1>7. Ends'
    BY DEF Ends, SameEnds
  <1> QED BY <1>1, <1>2, <1>3, <1>4, <1>5, <1>6, <1>7

LEMMA TheirRemovalKeepsPairing ==
    ASSUME PairingInv, P!TheirRemoval
    PROVE  PairingInv'
  <1> USE PairingAssumption DEF PairingInv, P!Attempts, P!Asks, P!None, P!Monbooru, P!Nobody, P!NoReq, P!NoRemoval, Maybe, P!TheirRemoval, P!Fault, P!inbound
  <1>1. PairingType'
    <2>1. (link \in Maybe)'
      BY DEF PairingType
    <2>2. (teardowns \subseteq Apps \cup {"monbooru"})'
      BY DEF PairingType
    <2>3. (parted \in BOOLEAN)'
      BY Zenon DEF PairingType
    <2>4. (lost \in Nat)'
      BY DEF PairingType
    <2> QED BY <2>1, <2>2, <2>3, <2>4 DEF PairingType
  <1>2. Whole'
    BY DEF Whole
  <1>3. Approvals'
    BY DEF Approvals
  <1>4. Handed'
    <2>1. (\E n \in Maybe : Known(n))'
      BY DEF Handed, Known
    <2>2. (\A k \in offered : theirs[k] # "none")'
      BY DEF Handed
    <2>3. (\A p \in polls : theirs[p.att] # "none" /\ (Carries(p) => theirs[p.att] = "gone"))'
      BY DEF Handed
    <2>4. (attempt # 0 => theirs[attempt] # "none")'
      BY DEF Handed
    <2>5. (\A k \in ended : theirs[k] # "none")'
      BY DEF Handed
    <2>6. (\A k \in dropped : theirs[k] = "gone")'
      BY DEF Handed
    <2>7. (\A k \in {link, apiToken, removal.tok} : k # 0 => theirs[k] = "gone")'
      BY DEF PairingType, Handed, Known, Carries
    <2> QED BY <2>1, <2>2, <2>3, <2>4, <2>5, <2>6, <2>7 DEF Handed
  <1>5. Attempted'
    BY DEF Attempted
  <1>6. Once'
    BY DEF Once
  <1>7. Ends'
    <2>1. (removal.at = "none" => removal.tok = 0)'
      BY DEF Ends
    <2>2. (removal.at = "save" => parted \/ removal.tok = apiToken \/ apiToken = 0)'
      BY DEF PairingType, Handed, Once, Ends, SameEnds, Carries, Whole
    <2>3. (removal.at = "tell" => parted \/ removal.tok = 0 \/ apiToken # removal.tok)'
      BY DEF PairingType, Handed, Once, Ends, SameEnds, Carries, Whole
    <2>4. (SameEnds)'
      BY DEF PairingType, Handed, Once, Ends, SameEnds, Carries, Whole
    <2> QED BY <2>1, <2>2, <2>3, <2>4 DEF Ends
  <1> QED BY <1>1, <1>2, <1>3, <1>4, <1>5, <1>6, <1>7

LEMMA AskKeepsPairing ==
    ASSUME PairingInv, NEW app \in Apps, P!Ask(app)
    PROVE  PairingInv'
  <1> USE PairingAssumption DEF PairingInv, P!Attempts, P!Asks, P!None, P!Monbooru, P!Nobody, P!NoRemoval, Maybe, P!Ask, P!Room, P!Filed, P!Pending, P!PairedWith, P!outbound
  <1>1. PICK top \in Maybe : Known(top)
    BY DEF Handed
  <1>2. filed + 1 \in P!Asks
    BY <1>1, MadeCounts, SMTT(30) DEF PairingType
  <1>3. filed' = filed + 1 /\ minted' = minted /\ mints' = mints
    OBVIOUS
  <1>4. reqs'[filed + 1] = [app |-> app, state |-> "pending", claimed |-> FALSE]
    BY <1>2
  <1>5. \A o \in P!Asks : o # filed + 1 => reqs'[o] = reqs[o] \/ reqs'[o] = P!NoReq
    BY DEF PairingType
  <1>6. \A o \in P!Asks : o # filed + 1 /\ reqs[o].app = app /\ reqs[o].state = "pending" => reqs'[o] = P!NoReq
    BY DEF PairingType
  <1>7. reqs' = [o \in P!Asks |-> reqs'[o]]
    OBVIOUS
  <1>8. [app |-> app, state |-> "pending", claimed |-> FALSE] \in ReqType
    BY DEF ReqType
  <1>9. PairingType'
    <2>1. (reqs \in [P!Asks -> ReqType])'
      <3> HIDE DEF P!Ask, P!Room, P!Filed, P!Pending
      <3>1. \A o \in P!Asks : reqs'[o] \in ReqType
        BY <1>4, <1>5, <1>8, NoReqIs, ZenonT(40) DEF PairingType
      <3> QED BY <1>7, <3>1
    <2>2. (filed \in Nat)'
      <3> HIDE DEF P!Ask, P!Room, P!Filed, P!Pending
      <3> QED BY <1>3 DEF PairingType
    <2> QED BY <2>1, <2>2 DEF PairingType
  <1>10. Whole'
    BY DEF Whole
  <1>11. Approvals'
    <2>1. (\A n \in P!Asks : reqs[n].state # "none" => reqs[n].app \in Apps)'
      <3> HIDE DEF P!Ask, P!Room, P!Filed, P!Pending
      <3> QED BY <1>2, <1>3, <1>4, <1>5, <1>6, NoReqIs, SMTT(30) DEF PairingType, Approvals
    <2>2. (\A n \in P!Asks : reqs[n].state = "none" => reqs[n] = P!NoReq)'
      <3> HIDE DEF P!Ask, P!Room, P!Filed, P!Pending
      <3> QED BY <1>2, <1>3, <1>4, <1>5, <1>6, NoReqIs DEF PairingType, Approvals
    <2>3. (\A n \in P!Asks : n > filed => reqs[n] = P!NoReq /\ minted[n] = 0)'
      <3> HIDE DEF P!Ask, P!Room, P!Filed, P!Pending
      <3> QED BY <1>2, <1>3, <1>4, <1>5, <1>6, NoReqIs DEF PairingType, Approvals
    <2>4. (\A n \in P!Asks : reqs[n] # P!NoReq /\ ~reqs[n].claimed =>
              minted[n] = 0 /\ \A m \in mints : m.req # n)'
      <3> HIDE DEF P!Ask, P!Room, P!Filed, P!Pending
      <3> QED BY <1>2, <1>3, <1>4, <1>5, <1>6, NoReqIs DEF PairingType, Approvals
    <2>5. (\A m \in mints : m.req <= filed /\ (m.at = "mint" => minted[m.req] = 0))'
      <3> HIDE DEF P!Ask, P!Room, P!Filed, P!Pending
      <3> QED BY <1>2, <1>3, <1>4, <1>5, <1>6, NoReqIs DEF PairingType, Approvals
    <2>6. (\A m, o \in mints : m.req = o.req => m = o)'
      <3> HIDE DEF P!Ask, P!Room, P!Filed, P!Pending
      <3> QED BY <1>2, <1>3, <1>4, <1>5, <1>6, NoReqIs DEF PairingType, Approvals
    <2>7. (\A n \in P!Asks : minted[n] <= 1)'
      <3> HIDE DEF P!Ask, P!Room, P!Filed, P!Pending
      <3> QED BY <1>2, <1>3, <1>4, <1>5, <1>6, NoReqIs DEF PairingType, Approvals
    <2>8. (\A n, o \in P!Asks :
              reqs[n].state = "pending" /\ reqs[o].state = "pending" /\ reqs[n].app = reqs[o].app => n = o)'
      <3> HIDE DEF P!Ask, P!Room, P!Filed, P!Pending
      <3>1. \A o \in P!Asks : o # filed + 1 /\ reqs'[o].state = "pending" =>
               reqs'[o] = reqs[o] /\ reqs[o].app # app
        BY <1>5, <1>6, NoReqIs
      <3>2. reqs'[filed + 1].app = app
        BY <1>4
      <3> QED BY <1>2, <3>1, <3>2 DEF PairingType, Approvals
    <2> QED BY <2>1, <2>2, <2>3, <2>4, <2>5, <2>6, <2>7, <2>8 DEF Approvals
  <1>12. Handed'
    <2> HIDE DEF P!Ask, P!Room, P!Filed, P!Pending
    <2> QED BY DEF P!Ask, Handed, Known
  <1>13. Attempted'
    BY DEF Attempted
  <1>14. Once'
    BY DEF Once
  <1>15. Ends'
    BY DEF Ends, SameEnds
  <1> QED BY <1>9, <1>10, <1>11, <1>12, <1>13, <1>14, <1>15

LEMMA DecideKeepsPairing ==
    ASSUME PairingInv, NEW r \in P!Asks, P!Decide(r)
    PROVE  PairingInv'
  <1> USE PairingAssumption DEF PairingInv, P!Attempts, P!Asks, P!None, P!Monbooru, P!Nobody, P!NoRemoval, Maybe, P!Decide, P!outbound
  <1>1. PICK d \in {"approved", "denied"} : reqs' = [reqs EXCEPT ![r].state = d]
    OBVIOUS
  <1>2. reqs[r] \in ReqType /\ reqs[r].state = "pending"
    BY DEF PairingType
  <1>3. [reqs[r] EXCEPT !.state = d] \in ReqType
    BY <1>2 DEF ReqType
  <1>4. \A o \in P!Asks : o # r => reqs'[o] = reqs[o]
    BY <1>1 DEF PairingType
  <1>5. reqs'[r] = [reqs[r] EXCEPT !.state = d]
    BY <1>1 DEF PairingType
  <1>6. reqs'[r].state = d /\ reqs'[r].app = reqs[r].app /\ reqs'[r].claimed = reqs[r].claimed
    BY <1>2, <1>5 DEF ReqType
  <1>7. filed' = filed /\ minted' = minted /\ mints' = mints
    BY DEF P!Decide
  <1>8. PairingType'
    <2>1. (reqs \in [P!Asks -> ReqType])'
      <3> HIDE DEF P!Decide
      <3> QED BY <1>1, <1>3 DEF PairingType
    <2> QED BY <2>1 DEF PairingType
  <1>9. Whole'
    BY DEF Whole
  <1>10. Approvals'
    <2>1. (\A n \in P!Asks : reqs[n].state # "none" => reqs[n].app \in Apps)'
      <3> HIDE DEF P!Decide
      <3> QED BY <1>1, <1>2, <1>4, <1>6, <1>7, NoReqIs DEF PairingType, Approvals
    <2>2. (\A n \in P!Asks : reqs[n].state = "none" => reqs[n] = P!NoReq)'
      <3> HIDE DEF P!Decide
      <3> QED BY <1>1, <1>2, <1>4, <1>6, <1>7, NoReqIs DEF PairingType, Approvals
    <2>3. (\A n \in P!Asks : n > filed => reqs[n] = P!NoReq /\ minted[n] = 0)'
      <3> HIDE DEF P!Decide
      <3> QED BY <1>1, <1>2, <1>4, <1>6, <1>7, NoReqIs DEF PairingType, Approvals
    <2>4. (\A n \in P!Asks : reqs[n] # P!NoReq /\ ~reqs[n].claimed =>
              minted[n] = 0 /\ \A m \in mints : m.req # n)'
      <3> HIDE DEF P!Decide
      <3> QED BY <1>1, <1>2, <1>4, <1>6, <1>7, NoReqIs DEF PairingType, Approvals
    <2>5. (\A m \in mints : m.req <= filed /\ (m.at = "mint" => minted[m.req] = 0))'
      BY DEF Approvals
    <2>6. (\A m, o \in mints : m.req = o.req => m = o)'
      BY DEF Approvals
    <2>7. (\A n \in P!Asks : minted[n] <= 1)'
      BY DEF Approvals
    <2>8. (\A n, o \in P!Asks :
              reqs[n].state = "pending" /\ reqs[o].state = "pending" /\ reqs[n].app = reqs[o].app => n = o)'
      <3> HIDE DEF P!Decide
      <3> QED BY <1>1, <1>2, <1>4, <1>6, <1>7, NoReqIs DEF PairingType, Approvals
    <2> QED BY <2>1, <2>2, <2>3, <2>4, <2>5, <2>6, <2>7, <2>8 DEF Approvals
  <1>11. Handed'
    BY DEF Handed, Known
  <1>12. Attempted'
    BY DEF Attempted
  <1>13. Once'
    BY DEF Once
  <1>14. Ends'
    BY DEF Ends, SameEnds
  <1> QED BY <1>8, <1>9, <1>10, <1>11, <1>12, <1>13, <1>14

LEMMA SweepKeepsPairing ==
    ASSUME PairingInv, NEW r \in P!Asks, P!Sweep(r)
    PROVE  PairingInv'
  <1> USE PairingAssumption DEF PairingInv, P!Attempts, P!Asks, P!None, P!Monbooru, P!Nobody, P!NoReq, P!NoRemoval, Maybe, P!Sweep, P!outbound
  <1>1. PairingType'
    <2>1. (reqs \in [P!Asks -> ReqType])'
      BY DEF PairingType, ReqType
    <2> QED BY <2>1 DEF PairingType
  <1>2. Whole'
    BY DEF Whole
  <1>3. Approvals'
    <2>1. (\A n \in P!Asks : reqs[n].state # "none" => reqs[n].app \in Apps)'
      BY DEF PairingType, Approvals, ReqType
    <2>2. (\A n \in P!Asks : reqs[n].state = "none" => reqs[n] = P!NoReq)'
      BY DEF PairingType, Approvals, ReqType
    <2>3. (\A n \in P!Asks : n > filed => reqs[n] = P!NoReq /\ minted[n] = 0)'
      BY DEF PairingType, Approvals, ReqType
    <2>4. (\A n \in P!Asks : reqs[n] # P!NoReq /\ ~reqs[n].claimed =>
              minted[n] = 0 /\ \A m \in mints : m.req # n)'
      BY ZenonT(40) DEF PairingType, Approvals, ReqType
    <2>5. (\A m \in mints : m.req <= filed /\ (m.at = "mint" => minted[m.req] = 0))'
      BY DEF Approvals
    <2>6. (\A m, o \in mints : m.req = o.req => m = o)'
      BY DEF Approvals
    <2>7. (\A n \in P!Asks : minted[n] <= 1)'
      BY DEF Approvals
    <2>8. (\A n, o \in P!Asks :
              reqs[n].state = "pending" /\ reqs[o].state = "pending" /\ reqs[n].app = reqs[o].app => n = o)'
      BY DEF PairingType, Approvals, ReqType
    <2> QED BY <2>1, <2>2, <2>3, <2>4, <2>5, <2>6, <2>7, <2>8 DEF Approvals
  <1>4. Handed'
    BY DEF Handed, Known
  <1>5. Attempted'
    BY DEF Attempted
  <1>6. Once'
    BY DEF Once
  <1>7. Ends'
    BY DEF Ends, SameEnds
  <1> QED BY <1>1, <1>2, <1>3, <1>4, <1>5, <1>6, <1>7

LEMMA ClaimKeepsPairing ==
    ASSUME PairingInv, NEW r \in P!Asks, P!Claim(r)
    PROVE  PairingInv'
  <1> USE PairingAssumption DEF PairingInv, P!Attempts, P!Asks, P!None, P!Monbooru, P!Nobody, P!NoRemoval, Maybe, P!Claim, P!Claimable, P!outbound
  <1>1. reqs[r] \in ReqType /\ reqs[r].app \in Apps /\ reqs[r].state = "approved" /\ ~reqs[r].claimed
    BY DEF PairingType, Approvals
  <1>2. [reqs[r] EXCEPT !.claimed = TRUE] \in ReqType
    BY <1>1 DEF ReqType
  <1>3. PICK slot \in 1 .. MaxPolls :
          mints' = mints \cup {[slot |-> slot, req |-> r, app |-> reqs[r].app, at |-> "mint"]}
    OBVIOUS
  <1>4. \A o \in P!Asks : o # r => reqs'[o] = reqs[o]
    BY DEF PairingType
  <1>5. reqs'[r] = [reqs[r] EXCEPT !.claimed = TRUE]
    BY DEF PairingType
  <1>6. reqs'[r].state = "approved" /\ reqs'[r].app = reqs[r].app /\ reqs'[r].claimed
    BY <1>1, <1>5 DEF ReqType
  <1>7. reqs' = [reqs EXCEPT ![r] = [reqs[r] EXCEPT !.claimed = TRUE]]
    OBVIOUS
  <1>8. filed' = filed /\ minted' = minted
    OBVIOUS
  <1>9. reqs[r] # P!NoReq /\ minted[r] = 0 /\ \A m \in mints : m.req # r
    BY <1>1, NoReqIs DEF Approvals
  <1>10. PairingType'
    <2>1. (reqs \in [P!Asks -> ReqType])'
      <3> HIDE DEF P!Claim, P!Claimable
      <3> QED BY <1>2, <1>7 DEF PairingType
    <2>2. (mints \subseteq [slot : 1 .. MaxPolls, req : P!Asks, app : Apps, at : {"mint", "hand"}])'
      <3> HIDE DEF P!Claim, P!Claimable
      <3> QED BY <1>1, <1>3 DEF PairingType
    <2> QED BY <2>1, <2>2 DEF PairingType
  <1>11. Whole'
    BY DEF Whole
  <1>12. Approvals'
    <2>1. (\A n \in P!Asks : reqs[n].state # "none" => reqs[n].app \in Apps)'
      <3> HIDE DEF P!Claim, P!Claimable
      <3> QED BY <1>1, <1>3, <1>4, <1>6, <1>8, <1>9, NoReqIs DEF PairingType, Approvals
    <2>2. (\A n \in P!Asks : reqs[n].state = "none" => reqs[n] = P!NoReq)'
      <3> HIDE DEF P!Claim, P!Claimable
      <3> QED BY <1>1, <1>3, <1>4, <1>6, <1>8, <1>9, NoReqIs DEF PairingType, Approvals
    <2>3. (\A n \in P!Asks : n > filed => reqs[n] = P!NoReq /\ minted[n] = 0)'
      <3> HIDE DEF P!Claim, P!Claimable
      <3> QED BY <1>1, <1>3, <1>4, <1>6, <1>8, <1>9, NoReqIs DEF PairingType, Approvals
    <2>4. (\A n \in P!Asks : reqs[n] # P!NoReq /\ ~reqs[n].claimed =>
              minted[n] = 0 /\ \A m \in mints : m.req # n)'
      <3> HIDE DEF P!Claim, P!Claimable
      <3> QED BY <1>1, <1>3, <1>4, <1>6, <1>8, <1>9, NoReqIs DEF PairingType, Approvals
    <2>5. (\A m \in mints : m.req <= filed /\ (m.at = "mint" => minted[m.req] = 0))'
      <3> HIDE DEF P!Claim, P!Claimable
      <3> QED BY <1>1, <1>3, <1>4, <1>6, <1>8, <1>9, NoReqIs DEF PairingType, Approvals
    <2>6. (\A m, o \in mints : m.req = o.req => m = o)'
      <3> HIDE DEF P!Claim, P!Claimable
      <3> QED BY <1>1, <1>3, <1>4, <1>6, <1>8, <1>9, NoReqIs DEF PairingType, Approvals
    <2>7. (\A n \in P!Asks : minted[n] <= 1)'
      BY DEF Approvals
    <2>8. (\A n, o \in P!Asks :
              reqs[n].state = "pending" /\ reqs[o].state = "pending" /\ reqs[n].app = reqs[o].app => n = o)'
      <3> HIDE DEF P!Claim, P!Claimable
      <3> QED BY <1>1, <1>3, <1>4, <1>6, <1>8, <1>9, NoReqIs DEF PairingType, Approvals
    <2> QED BY <2>1, <2>2, <2>3, <2>4, <2>5, <2>6, <2>7, <2>8 DEF Approvals
  <1>13. Handed'
    BY DEF Handed, Known
  <1>14. Attempted'
    BY DEF Attempted
  <1>15. Once'
    BY DEF Once
  <1>16. Ends'
    BY DEF Ends, SameEnds
  <1> QED BY <1>10, <1>11, <1>12, <1>13, <1>14, <1>15, <1>16

LEMMA MintKeepsPairing ==
    ASSUME PairingInv, NEW mint, P!Mint(mint)
    PROVE  PairingInv'
  <1> USE PairingAssumption DEF PairingInv, P!Attempts, P!Asks, P!None, P!Monbooru, P!Nobody, P!NoRemoval, Maybe, P!Mint, P!Repaired, P!PairedWith, P!Fault, P!outbound
  <1>1. mint \in [slot : 1 .. MaxPolls, req : P!Asks, app : Apps, at : {"mint", "hand"}]
    BY DEF PairingType
  <1>2. PICK r \in P!Asks : r = mint.req
    BY <1>1
  <1>3. reqs[r] \in ReqType /\ minted[r] = 0 /\ r <= filed
    BY <1>1, <1>2 DEF PairingType, Approvals
  <1>4. PICK h : h = [mint EXCEPT !.at = "hand"]
    OBVIOUS
  <1>5. h \in [slot : 1 .. MaxPolls, req : P!Asks, app : Apps, at : {"mint", "hand"}] /\ h.req = r /\ h.at = "hand"
    BY <1>1, <1>2, <1>4
  <1>6. PICK free : free = [reqs[r] EXCEPT !.claimed = FALSE]
    OBVIOUS
  <1>7. free \in ReqType /\ free.state = reqs[r].state /\ free.app = reqs[r].app
    BY <1>3, <1>6 DEF ReqType
  <1>8. \/ /\ minted' = [minted EXCEPT ![r] = 1]
           /\ mints' = (mints \ {mint}) \cup {h}
           /\ reqs' = reqs
        \/ /\ mints' = mints \ {mint} /\ minted' = minted
           /\ reqs' = reqs \/ (reqs[r] # P!NoReq /\ reqs' = [reqs EXCEPT ![r] = free])
    BY <1>2, <1>3, <1>4, <1>6 DEF PairingType
  <1>9. filed' = filed /\ mint \in mints /\ mint.at = "mint"
    OBVIOUS
  <1>10. \A m \in mints : m.req = r => m = mint
    BY <1>2, <1>9 DEF Approvals
  <1>11. PairingType'
    <2>1. (tokens \subseteq [paired : Apps \cup {"nobody", "monbooru"}, of : Nat])'
      BY SMTT(30) DEF PairingType
    <2>2. (reqs \in [P!Asks -> ReqType])'
      <3> HIDE DEF P!Mint, P!Repaired, P!Fault
      <3> QED BY <1>7, <1>8 DEF PairingType
    <2>3. (mints \subseteq [slot : 1 .. MaxPolls, req : P!Asks, app : Apps, at : {"mint", "hand"}])'
      <3> HIDE DEF P!Mint, P!Repaired, P!Fault
      <3> QED BY <1>5, <1>8 DEF PairingType
    <2>4. (minted \in [P!Asks -> Nat])'
      <3> HIDE DEF P!Mint, P!Repaired, P!Fault
      <3> QED BY <1>8 DEF PairingType
    <2>5. (lost \in Nat)'
      BY SMTT(30) DEF PairingType
    <2> QED BY <2>1, <2>2, <2>3, <2>4, <2>5 DEF PairingType
  <1>12. Whole'
    <2>1. (\A t, u \in tokens : t.paired # "nobody" /\ t.paired = u.paired => t = u)'
      BY SMTT(30) DEF PairingType, Whole
    <2>2. (\A t \in tokens : t.paired = "monbooru" => apiToken # 0 /\ t.of = apiToken)'
      BY DEF PairingType, Whole
    <2>3. (apiToken # 0 => [paired |-> "monbooru", of |-> apiToken] \in tokens)'
      BY DEF PairingType, Whole
    <2> QED BY <2>1, <2>2, <2>3 DEF Whole
  <1>13. Approvals'
    <2>1. (\A n \in P!Asks : reqs[n].state # "none" => reqs[n].app \in Apps)'
      <3> HIDE DEF P!Mint, P!Repaired, P!Fault
      <3>1. CASE reqs' = reqs
        BY <1>2, <1>3, <1>5, <1>8, <1>9, <3>1, NoReqIs DEF PairingType, Approvals
      <3>2. CASE reqs' # reqs
        <4>1. \A n \in P!Asks : n # r => reqs'[n] = reqs[n]
          BY <1>8, <3>2 DEF PairingType
        <4>2. reqs'[r] = free /\ reqs[r] # P!NoReq /\ mints' = mints \ {mint} /\ minted' = minted
          BY <1>8, <3>2 DEF PairingType
        <4> QED BY <1>2, <1>3, <1>7, <1>9, <4>1, <4>2, NoReqIs DEF PairingType, Approvals
      <3> QED BY <3>1, <3>2
    <2>2. (\A n \in P!Asks : reqs[n].state = "none" => reqs[n] = P!NoReq)'
      <3> HIDE DEF P!Mint, P!Repaired, P!Fault
      <3>1. CASE reqs' = reqs
        BY <1>2, <1>3, <1>5, <1>8, <1>9, <3>1, NoReqIs DEF PairingType, Approvals
      <3>2. CASE reqs' # reqs
        <4>1. \A n \in P!Asks : n # r => reqs'[n] = reqs[n]
          BY <1>8, <3>2 DEF PairingType
        <4>2. reqs'[r] = free /\ reqs[r] # P!NoReq /\ mints' = mints \ {mint} /\ minted' = minted
          BY <1>8, <3>2 DEF PairingType
        <4> QED BY <1>2, <1>3, <1>7, <1>9, <4>1, <4>2, NoReqIs DEF PairingType, Approvals
      <3> QED BY <3>1, <3>2
    <2>3. (\A n \in P!Asks : n > filed => reqs[n] = P!NoReq /\ minted[n] = 0)'
      <3> HIDE DEF P!Mint, P!Repaired, P!Fault
      <3>1. CASE reqs' = reqs
        BY <1>2, <1>3, <1>5, <1>8, <1>9, <3>1, NoReqIs DEF PairingType, Approvals
      <3>2. CASE reqs' # reqs
        <4>1. \A n \in P!Asks : n # r => reqs'[n] = reqs[n]
          BY <1>8, <3>2 DEF PairingType
        <4>2. reqs'[r] = free /\ reqs[r] # P!NoReq /\ mints' = mints \ {mint} /\ minted' = minted
          BY <1>8, <3>2 DEF PairingType
        <4> QED BY <1>2, <1>3, <1>7, <1>9, <4>1, <4>2, NoReqIs DEF PairingType, Approvals
      <3> QED BY <3>1, <3>2
    <2>4. (\A n \in P!Asks : reqs[n] # P!NoReq /\ ~reqs[n].claimed =>
              minted[n] = 0 /\ \A m \in mints : m.req # n)'
      <3> HIDE DEF P!Mint, P!Repaired, P!Fault
      <3>1. CASE reqs' = reqs
        BY <1>2, <1>3, <1>5, <1>8, <1>9, <3>1, NoReqIs DEF PairingType, Approvals
      <3>2. CASE reqs' # reqs
        <4>1. \A n \in P!Asks : n # r => reqs'[n] = reqs[n]
          BY <1>8, <3>2 DEF PairingType
        <4>2. reqs'[r] = free /\ reqs[r] # P!NoReq /\ mints' = mints \ {mint} /\ minted' = minted
          BY <1>8, <3>2 DEF PairingType
        <4> QED BY <1>2, <1>10, <1>3, <1>7, <1>9, <4>1, <4>2, NoReqIs DEF PairingType, Approvals
      <3> QED BY <3>1, <3>2
    <2>5. (\A m \in mints : m.req <= filed /\ (m.at = "mint" => minted[m.req] = 0))'
      <3> HIDE DEF P!Mint, P!Repaired, P!Fault
      <3>1. CASE reqs' = reqs
        BY <1>2, <1>3, <1>5, <1>8, <1>9, <3>1, NoReqIs DEF PairingType, Approvals
      <3>2. CASE reqs' # reqs
        <4>1. \A n \in P!Asks : n # r => reqs'[n] = reqs[n]
          BY <1>8, <3>2 DEF PairingType
        <4>2. reqs'[r] = free /\ reqs[r] # P!NoReq /\ mints' = mints \ {mint} /\ minted' = minted
          BY <1>8, <3>2 DEF PairingType
        <4> QED BY <1>2, <1>3, <1>7, <1>9, <4>1, <4>2, NoReqIs DEF PairingType, Approvals
      <3> QED BY <3>1, <3>2
    <2>6. (\A m, o \in mints : m.req = o.req => m = o)'
      <3> HIDE DEF P!Mint, P!Repaired, P!Fault
      <3>1. CASE reqs' = reqs
        BY <1>2, <1>3, <1>5, <1>8, <1>9, <3>1, NoReqIs DEF PairingType, Approvals
      <3>2. CASE reqs' # reqs
        <4>1. \A n \in P!Asks : n # r => reqs'[n] = reqs[n]
          BY <1>8, <3>2 DEF PairingType
        <4>2. reqs'[r] = free /\ reqs[r] # P!NoReq /\ mints' = mints \ {mint} /\ minted' = minted
          BY <1>8, <3>2 DEF PairingType
        <4> QED BY <1>2, <1>3, <1>7, <1>9, <4>1, <4>2, NoReqIs DEF PairingType, Approvals
      <3> QED BY <3>1, <3>2
    <2>7. (\A n \in P!Asks : minted[n] <= 1)'
      <3> HIDE DEF P!Mint, P!Repaired, P!Fault
      <3>1. minted' = [minted EXCEPT ![r] = 1] \/ minted' = minted
        BY <1>8
      <3> QED BY <3>1 DEF PairingType, Approvals
    <2>8. (\A n, o \in P!Asks :
              reqs[n].state = "pending" /\ reqs[o].state = "pending" /\ reqs[n].app = reqs[o].app => n = o)'
      <3> HIDE DEF P!Mint, P!Repaired, P!Fault
      <3>1. \A n \in P!Asks : reqs'[n].state = reqs[n].state /\ reqs'[n].app = reqs[n].app
        BY <1>7, <1>8 DEF PairingType
      <3> QED BY <3>1 DEF Approvals
    <2> QED BY <2>1, <2>2, <2>3, <2>4, <2>5, <2>6, <2>7, <2>8 DEF Approvals
  <1>14. Handed'
    BY DEF Handed, Known
  <1>15. Attempted'
    BY DEF Attempted
  <1>16. Once'
    BY DEF Once
  <1>17. Ends'
    BY DEF Ends, SameEnds
  <1> QED BY <1>11, <1>12, <1>13, <1>14, <1>15, <1>16, <1>17

LEMMA HandKeepsPairing ==
    ASSUME PairingInv, NEW mint, P!Hand(mint)
    PROVE  PairingInv'
  <1> USE PairingAssumption DEF PairingInv, P!Attempts, P!Asks, P!None, P!Monbooru, P!Nobody, P!NoReq, P!NoRemoval, Maybe, P!Hand, P!outbound
  <1>1. mint \in [slot : 1 .. MaxPolls, req : P!Asks, app : Apps, at : {"mint", "hand"}]
    BY DEF PairingType
  <1>2. PairingType'
    <2>1. (reqs \in [P!Asks -> ReqType])'
      BY DEF PairingType, ReqType
    <2>2. (mints \subseteq [slot : 1 .. MaxPolls, req : P!Asks, app : Apps, at : {"mint", "hand"}])'
      BY DEF PairingType
    <2> QED BY <2>1, <2>2 DEF PairingType
  <1>3. Whole'
    BY DEF Whole
  <1>4. Approvals'
    <2>1. (\A n \in P!Asks : reqs[n].state # "none" => reqs[n].app \in Apps)'
      BY DEF PairingType, Approvals, ReqType
    <2>2. (\A n \in P!Asks : reqs[n].state = "none" => reqs[n] = P!NoReq)'
      BY DEF PairingType, Approvals, ReqType
    <2>3. (\A n \in P!Asks : n > filed => reqs[n] = P!NoReq /\ minted[n] = 0)'
      BY DEF PairingType, Approvals, ReqType
    <2>4. (\A n \in P!Asks : reqs[n] # P!NoReq /\ ~reqs[n].claimed =>
              minted[n] = 0 /\ \A m \in mints : m.req # n)'
      BY ZenonT(40) DEF PairingType, Approvals, ReqType
    <2>5. (\A m \in mints : m.req <= filed /\ (m.at = "mint" => minted[m.req] = 0))'
      BY DEF PairingType, Approvals, ReqType
    <2>6. (\A m, o \in mints : m.req = o.req => m = o)'
      BY DEF PairingType, Approvals, ReqType
    <2>7. (\A n \in P!Asks : minted[n] <= 1)'
      BY DEF Approvals
    <2>8. (\A n, o \in P!Asks :
              reqs[n].state = "pending" /\ reqs[o].state = "pending" /\ reqs[n].app = reqs[o].app => n = o)'
      BY DEF PairingType, Approvals, ReqType
    <2> QED BY <2>1, <2>2, <2>3, <2>4, <2>5, <2>6, <2>7, <2>8 DEF Approvals
  <1>5. Handed'
    BY DEF Handed, Known
  <1>6. Attempted'
    BY DEF Attempted
  <1>7. Once'
    BY DEF Once
  <1>8. Ends'
    BY DEF Ends, SameEnds
  <1> QED BY <1>2, <1>3, <1>4, <1>5, <1>6, <1>7, <1>8

LEMMA TheirTeardownKeepsPairing ==
    ASSUME PairingInv, NEW app \in Apps, P!TheirTeardown(app)
    PROVE  PairingInv'
  <1> USE PairingAssumption DEF PairingInv, P!Attempts, P!Asks, P!None, P!Monbooru, P!Nobody, P!NoReq, P!NoRemoval, Maybe, P!TheirTeardown, P!outbound, P!inbound
  <1>1. PairingType'
    <2>1. (teardowns \subseteq Apps \cup {"monbooru"})'
      BY DEF PairingType
    <2> QED BY <2>1 DEF PairingType
  <1>2. Whole'
    BY DEF Whole
  <1>3. Approvals'
    BY DEF Approvals
  <1>4. Handed'
    BY DEF Handed, Known
  <1>5. Attempted'
    BY DEF Attempted
  <1>6. Once'
    BY DEF Once
  <1>7. Ends'
    <2>1. (removal.at = "none" => removal.tok = 0)'
      BY DEF Ends
    <2>2. (removal.at = "save" => parted \/ removal.tok = apiToken \/ apiToken = 0)'
      BY DEF Ends
    <2>3. (removal.at = "tell" => parted \/ removal.tok = 0 \/ apiToken # removal.tok)'
      BY DEF Ends
    <2>4. (SameEnds)'
      BY DEF PairingType, Handed, Once, Ends, SameEnds, Carries, Whole
    <2> QED BY <2>1, <2>2, <2>3, <2>4 DEF Ends
  <1> QED BY <1>1, <1>2, <1>3, <1>4, <1>5, <1>6, <1>7

LEMMA TeardownKeepsPairing ==
    ASSUME PairingInv, NEW peer, P!Teardown(peer)
    PROVE  PairingInv'
  <1> USE PairingAssumption DEF PairingInv, P!Attempts, P!Asks, P!None, P!Monbooru, P!Nobody, P!NoReq, P!NoRemoval, Maybe, P!Teardown, P!Unpaired, P!PairedWith, P!Fault, P!inbound
  <1>1. PairingType'
    <2>1. (tokens \subseteq [paired : Apps \cup {"nobody", "monbooru"}, of : Nat])'
      BY DEF PairingType
    <2>2. (apiToken \in Maybe)'
      BY DEF PairingType
    <2>3. (teardowns \subseteq Apps \cup {"monbooru"})'
      BY DEF PairingType
    <2>4. (parted \in BOOLEAN)'
      BY Zenon DEF PairingType
    <2>5. (lost \in Nat)'
      BY DEF PairingType
    <2> QED BY <2>1, <2>2, <2>3, <2>4, <2>5 DEF PairingType
  <1>2. Whole'
    <2>1. (\A t, u \in tokens : t.paired # "nobody" /\ t.paired = u.paired => t = u)'
      BY DEF PairingType, Whole
    <2>2. (\A t \in tokens : t.paired = "monbooru" => apiToken # 0 /\ t.of = apiToken)'
      BY DEF PairingType, Whole
    <2>3. (apiToken # 0 => [paired |-> "monbooru", of |-> apiToken] \in tokens)'
      BY DEF PairingType, Whole
    <2> QED BY <2>1, <2>2, <2>3 DEF Whole
  <1>3. Approvals'
    BY DEF Approvals
  <1>4. Handed'
    <2>1. (\E n \in Maybe : Known(n))'
      BY DEF Handed, Known
    <2>2. (\A k \in offered : theirs[k] # "none")'
      BY DEF Handed
    <2>3. (\A p \in polls : theirs[p.att] # "none" /\ (Carries(p) => theirs[p.att] = "gone"))'
      BY DEF Handed
    <2>4. (attempt # 0 => theirs[attempt] # "none")'
      BY DEF Handed
    <2>5. (\A k \in ended : theirs[k] # "none")'
      BY DEF Handed
    <2>6. (\A k \in dropped : theirs[k] = "gone")'
      BY DEF Handed
    <2>7. (\A k \in {link, apiToken, removal.tok} : k # 0 => theirs[k] = "gone")'
      BY DEF PairingType, Handed, Known, Carries
    <2> QED BY <2>1, <2>2, <2>3, <2>4, <2>5, <2>6, <2>7 DEF Handed
  <1>5. Attempted'
    BY DEF Attempted
  <1>6. Once'
    BY DEF PairingType, Handed, Once, Carries
  <1>7. Ends'
    <2>1. (removal.at = "none" => removal.tok = 0)'
      BY DEF Ends
    <2>2. (removal.at = "save" => parted \/ removal.tok = apiToken \/ apiToken = 0)'
      BY DEF PairingType, Handed, Once, Ends, SameEnds, Carries, Whole
    <2>3. (removal.at = "tell" => parted \/ removal.tok = 0 \/ apiToken # removal.tok)'
      BY DEF PairingType, Handed, Once, Ends, SameEnds, Carries, Whole
    <2>4. (SameEnds)'
      BY DEF PairingType, Handed, Once, Ends, SameEnds, Carries, Whole
    <2> QED BY <2>1, <2>2, <2>3, <2>4 DEF Ends
  <1> QED BY <1>1, <1>2, <1>3, <1>4, <1>5, <1>6, <1>7

LEMMA RemoveExtKeepsPairing ==
    ASSUME PairingInv, NEW app \in Apps, P!RemoveExt(app)
    PROVE  PairingInv'
  <1> USE PairingAssumption DEF PairingInv, P!Attempts, P!Asks, P!None, P!Monbooru, P!Nobody, P!NoReq, P!NoRemoval, Maybe, P!RemoveExt, P!PairedWith, P!outbound, P!inbound
  <1>1. PairingType'
    <2>1. (tokens \subseteq [paired : Apps \cup {"nobody", "monbooru"}, of : Nat])'
      BY DEF PairingType
    <2> QED BY <2>1 DEF PairingType
  <1>2. Whole'
    <2>1. (\A t, u \in tokens : t.paired # "nobody" /\ t.paired = u.paired => t = u)'
      BY DEF PairingType, Whole
    <2>2. (\A t \in tokens : t.paired = "monbooru" => apiToken # 0 /\ t.of = apiToken)'
      BY DEF PairingType, Whole
    <2>3. (apiToken # 0 => [paired |-> "monbooru", of |-> apiToken] \in tokens)'
      BY DEF PairingType, Whole
    <2> QED BY <2>1, <2>2, <2>3 DEF Whole
  <1>3. Approvals'
    BY DEF Approvals
  <1>4. Handed'
    BY DEF Handed, Known
  <1>5. Attempted'
    BY DEF Attempted
  <1>6. Once'
    BY DEF Once
  <1>7. Ends'
    BY DEF Ends, SameEnds
  <1> QED BY <1>1, <1>2, <1>3, <1>4, <1>5, <1>6, <1>7

LEMMA CreateKeepsPairing ==
    ASSUME PairingInv, P!Create
    PROVE  PairingInv'
  <1> USE PairingAssumption DEF PairingInv, P!Attempts, P!Asks, P!None, P!Monbooru, P!Nobody, P!NoReq, P!NoRemoval, Maybe, P!Create, P!Room, P!outbound, P!inbound
  <1>1. PairingType'
    <2>1. (tokens \subseteq [paired : Apps \cup {"nobody", "monbooru"}, of : Nat])'
      BY DEF PairingType
    <2>2. (own \in Nat)'
      BY DEF PairingType
    <2> QED BY <2>1, <2>2 DEF PairingType
  <1>2. Whole'
    <2>1. (\A t, u \in tokens : t.paired # "nobody" /\ t.paired = u.paired => t = u)'
      BY DEF PairingType, Whole
    <2>2. (\A t \in tokens : t.paired = "monbooru" => apiToken # 0 /\ t.of = apiToken)'
      BY DEF PairingType, Whole
    <2>3. (apiToken # 0 => [paired |-> "monbooru", of |-> apiToken] \in tokens)'
      BY DEF PairingType, Whole
    <2> QED BY <2>1, <2>2, <2>3 DEF Whole
  <1>3. Approvals'
    BY DEF Approvals
  <1>4. Handed'
    BY DEF Handed, Known
  <1>5. Attempted'
    BY DEF Attempted
  <1>6. Once'
    BY DEF Once
  <1>7. Ends'
    BY DEF Ends, SameEnds
  <1> QED BY <1>1, <1>2, <1>3, <1>4, <1>5, <1>6, <1>7

LEMMA RevokeKeepsPairing ==
    ASSUME PairingInv, NEW tok, P!Revoke(tok)
    PROVE  PairingInv'
  <1> USE PairingAssumption DEF PairingInv, P!Attempts, P!Asks, P!None, P!Monbooru, P!Nobody, P!NoReq, P!NoRemoval, Maybe, P!Revoke, P!Revocable, P!outbound, P!inbound
  <1>1. PairingType'
    <2>1. (tokens \subseteq [paired : Apps \cup {"nobody", "monbooru"}, of : Nat])'
      BY DEF PairingType
    <2> QED BY <2>1 DEF PairingType
  <1>2. Whole'
    <2>1. (\A t, u \in tokens : t.paired # "nobody" /\ t.paired = u.paired => t = u)'
      BY DEF PairingType, Whole
    <2>2. (\A t \in tokens : t.paired = "monbooru" => apiToken # 0 /\ t.of = apiToken)'
      BY DEF PairingType, Whole
    <2>3. (apiToken # 0 => [paired |-> "monbooru", of |-> apiToken] \in tokens)'
      BY DEF PairingType, Whole
    <2> QED BY <2>1, <2>2, <2>3 DEF Whole
  <1>3. Approvals'
    BY DEF Approvals
  <1>4. Handed'
    BY DEF Handed, Known
  <1>5. Attempted'
    BY DEF Attempted
  <1>6. Once'
    BY DEF Once
  <1>7. Ends'
    BY DEF Ends, SameEnds
  <1> QED BY <1>1, <1>2, <1>3, <1>4, <1>5, <1>6, <1>7

LEMMA RestartKeepsPairing ==
    ASSUME PairingInv, P!Restart
    PROVE  PairingInv'
  <1> USE PairingAssumption DEF PairingInv, P!Attempts, P!Asks, P!None, P!Monbooru, P!Nobody, P!NoReq, P!NoRemoval, Maybe, P!Restart, P!Fault
  <1>1. PairingType'
    <2>1. (attempt \in Maybe)'
      BY DEF PairingType
    <2>2. (offered \subseteq P!Attempts)'
      BY DEF PairingType
    <2>3. (dropped \subseteq P!Attempts)'
      <3>1. \A p \in polls : p.att \in P!Attempts
        BY DEF PairingType
      <3>2. \A x \in dropped' : x \in dropped \/ \E p \in polls : x = p.att
        OBVIOUS
      <3>3. dropped \subseteq P!Attempts
        BY DEF PairingType
      <3> HIDE DEF P!Restart, PairingInv
      <3> QED BY <3>1, <3>2, <3>3
    <2>4. (polls \subseteq [att : P!Attempts, at : {"ask", "token", "wait", "over", "save"}])'
      BY DEF PairingType
    <2>5. (removal \in [tok : Maybe, at : {"none", "save", "tell"}])'
      BY DEF PairingType
    <2>6. (reqs \in [P!Asks -> ReqType])'
      BY DEF PairingType, ReqType
    <2>7. (mints \subseteq [slot : 1 .. MaxPolls, req : P!Asks, app : Apps, at : {"mint", "hand"}])'
      BY DEF PairingType
    <2>8. (teardowns \subseteq Apps \cup {"monbooru"})'
      BY DEF PairingType
    <2>9. (parted \in BOOLEAN)'
      BY Zenon DEF PairingType
    <2>10. (lost \in Nat)'
      BY DEF PairingType
    <2> QED BY <2>1, <2>2, <2>3, <2>4, <2>5, <2>6, <2>7, <2>8, <2>9, <2>10 DEF PairingType
  <1>2. Whole'
    BY DEF Whole
  <1>3. Approvals'
    <2>1. (\A n \in P!Asks : reqs[n].state # "none" => reqs[n].app \in Apps)'
      BY DEF PairingType, Approvals, ReqType
    <2>2. (\A n \in P!Asks : reqs[n].state = "none" => reqs[n] = P!NoReq)'
      BY DEF PairingType, Approvals, ReqType
    <2>3. (\A n \in P!Asks : n > filed => reqs[n] = P!NoReq /\ minted[n] = 0)'
      BY DEF PairingType, Approvals, ReqType
    <2>4. (\A n \in P!Asks : reqs[n] # P!NoReq /\ ~reqs[n].claimed =>
              minted[n] = 0 /\ \A m \in mints : m.req # n)'
      BY DEF PairingType, Approvals, ReqType
    <2>5. (\A m \in mints : m.req <= filed /\ (m.at = "mint" => minted[m.req] = 0))'
      BY DEF PairingType, Approvals, ReqType
    <2>6. (\A m, o \in mints : m.req = o.req => m = o)'
      BY DEF PairingType, Approvals, ReqType
    <2>7. (\A n \in P!Asks : minted[n] <= 1)'
      BY DEF Approvals
    <2>8. (\A n, o \in P!Asks :
              reqs[n].state = "pending" /\ reqs[o].state = "pending" /\ reqs[n].app = reqs[o].app => n = o)'
      BY DEF PairingType, Approvals, ReqType
    <2> QED BY <2>1, <2>2, <2>3, <2>4, <2>5, <2>6, <2>7, <2>8 DEF Approvals
  <1>4. Handed'
    <2>1. (\E n \in Maybe : Known(n))'
      BY DEF Handed, Known
    <2>2. (\A k \in offered : theirs[k] # "none")'
      BY DEF PairingType, Handed, Known, Carries
    <2>3. (\A p \in polls : theirs[p.att] # "none" /\ (Carries(p) => theirs[p.att] = "gone"))'
      BY DEF PairingType, Handed, Known, Carries
    <2>4. (attempt # 0 => theirs[attempt] # "none")'
      BY DEF PairingType, Handed, Known, Carries
    <2>5. (\A k \in ended : theirs[k] # "none")'
      BY DEF Handed
    <2>6. (\A k \in dropped : theirs[k] = "gone")'
      BY DEF PairingType, Handed, Known, Carries
    <2>7. (\A k \in {link, apiToken, removal.tok} : k # 0 => theirs[k] = "gone")'
      BY DEF PairingType, Handed, Known, Carries
    <2> QED BY <2>1, <2>2, <2>3, <2>4, <2>5, <2>6, <2>7 DEF Handed
  <1>5. Attempted'
    BY DEF PairingType, Handed, Attempted
  <1>6. Once'
    BY DEF PairingType, Handed, Once, Carries
  <1>7. Ends'
    <2>1. (removal.at = "none" => removal.tok = 0)'
      BY DEF PairingType, Handed, Once, Ends, SameEnds, Carries, Whole
    <2>2. (removal.at = "save" => parted \/ removal.tok = apiToken \/ apiToken = 0)'
      BY DEF PairingType, Handed, Once, Ends, SameEnds, Carries, Whole
    <2>3. (removal.at = "tell" => parted \/ removal.tok = 0 \/ apiToken # removal.tok)'
      BY DEF PairingType, Handed, Once, Ends, SameEnds, Carries, Whole
    <2>4. (SameEnds)'
      <3>1. "monbooru" \in teardowns \/ removal.at = "tell" \/ parted => parted'
        BY Zenon
      <3>2. (\A p \in polls : Carries(p) => p.att \in dropped') /\ dropped \subseteq dropped'
        BY DEF Carries
      <3>3. UNCHANGED <<link, apiToken>>
        OBVIOUS
      <3> HIDE DEF P!Restart
      <3> QED BY <3>1, <3>2, <3>3 DEF Ends, SameEnds
    <2> QED BY <2>1, <2>2, <2>3, <2>4 DEF Ends
  <1> QED BY <1>1, <1>2, <1>3, <1>4, <1>5, <1>6, <1>7

LEMMA PairingStep == PairingInv /\ [P!Next]_P!vars => PairingInv'
  <1> SUFFICES ASSUME PairingInv, [P!Next]_P!vars PROVE PairingInv'
    OBVIOUS
  <1>1. CASE UNCHANGED P!vars
    <2> USE <1>1 DEF P!vars
    <2>1. PairingType' /\ Whole'
      BY Zenon DEF PairingInv, PairingType, Whole
    <2>2. Approvals'
      BY DEF PairingInv, Approvals
    <2>3. Handed' /\ Attempted'
      BY DEF PairingInv, Handed, Known, Carries, Attempted
    <2>4. Once' /\ Ends'
      BY DEF PairingInv, Once, Ends, SameEnds, Carries
    <2> QED BY <2>1, <2>2, <2>3, <2>4 DEF PairingInv
  <1>2. CASE P!PollStep
    BY <1>2, PollAnswerKeepsPairing, PollWaitsKeepsPairing, PollOverKeepsPairing,
       PollTakeKeepsPairing, PollSaveKeepsPairing DEF P!PollStep
  <1>3. CASE \E k \in P!Attempts : P!SetAttempt(k) \/ P!TheirDecision(k) \/ P!TheirExpiry(k)
    BY <1>3, SetAttemptKeepsPairing, TheirDecisionKeepsPairing, TheirExpiryKeepsPairing
  <1>4. CASE \/ P!Connect \/ P!PollStart \/ P!Cancel \/ P!Remove \/ P!RemoveSave \/ P!RemoveTell
             \/ P!TheirRemoval \/ P!Create \/ P!Restart
    BY <1>4, ConnectKeepsPairing, PollStartKeepsPairing, CancelKeepsPairing, RemoveKeepsPairing,
       RemoveSaveKeepsPairing, RemoveTellKeepsPairing, TheirRemovalKeepsPairing,
       CreateKeepsPairing, RestartKeepsPairing
  <1>5. CASE \E app \in Apps : P!Ask(app) \/ P!TheirTeardown(app) \/ P!RemoveExt(app)
    BY <1>5, AskKeepsPairing, TheirTeardownKeepsPairing, RemoveExtKeepsPairing
  <1>6. CASE \E n \in P!Asks : P!Decide(n) \/ P!Sweep(n) \/ P!Claim(n)
    BY <1>6, DecideKeepsPairing, SweepKeepsPairing, ClaimKeepsPairing
  <1>7. CASE \E m \in mints : P!Mint(m) \/ P!Hand(m)
    BY <1>7, MintKeepsPairing, HandKeepsPairing
  <1>8. CASE (\E peer \in teardowns : P!Teardown(peer)) \/ (\E t \in tokens : P!Revoke(t))
    BY <1>8, TeardownKeepsPairing, RevokeKeepsPairing
  <1> QED BY <1>1, <1>2, <1>3, <1>4, <1>5, <1>6, <1>7, <1>8 DEF P!Next

\* The invariant says what the run checks.
LEMMA PairingHolds == PairingInv => P!LinkIsWhole /\ P!OneTokenPerApproval /\ P!EndsAgree
  <1> SUFFICES ASSUME PairingInv PROVE P!LinkIsWhole /\ P!OneTokenPerApproval /\ P!EndsAgree
    OBVIOUS
  <1> USE PairingAssumption DEF P!Attempts, P!Asks, P!None, P!Monbooru, P!Nobody, P!NoReq, P!NoRemoval, Maybe
  <1>1. P!LinkIsWhole
    BY DEF PairingInv, Whole, P!LinkIsWhole, P!PairedWith
  <1>2. ASSUME NEW app \in Apps PROVE P!Cardinality(P!Pending(app)) <= 1
    <2>1. \A n, o \in P!Pending(app) : n = o
      BY DEF PairingInv, Approvals, P!Pending
    <2>2. P!Pending(app) = {} \/ \E n \in P!Asks : P!Pending(app) = {n}
      BY <2>1 DEF P!Pending
    <2>3. Cardinality(P!Pending(app)) \in {0, 1}
      BY <2>2, FS_EmptySet, FS_Singleton
    <2> QED BY <2>3, PairingCounts
  <1>3. \A n \in P!Asks : minted[n] <= 1
    BY DEF PairingInv, Approvals
  <1>4. P!EndsAgree
    BY DEF PairingInv, Ends, SameEnds, P!EndsAgree
  <1> QED BY <1>1, <1>2, <1>3, <1>4 DEF P!OneTokenPerApproval

LEMMA PairingChange == PairingInv /\ [P!Next]_P!vars => [apiToken' # apiToken => apiToken' \notin ended]_P!vars
  <1> SUFFICES ASSUME PairingInv, P!Next, apiToken' # apiToken PROVE apiToken' \notin ended
    BY DEF P!vars
  <1> USE DEF P!None, P!Attempts
  <1>1. 0 \notin ended
    BY DEF PairingInv, PairingType
  <1>2. (\E p \in polls : P!PollSave(p) /\ apiToken' = p.att /\ p.at = "save") \/ apiToken' = 0
    <2>1. CASE P!PollStep
      BY <2>1 DEF P!PollStep, P!PollAnswer, P!PollWaits, P!PollOver, P!PollTake, P!PollSave, P!Committed
    <2>2. CASE P!RemoveSave \/ \E peer \in teardowns : P!Teardown(peer)
      BY <2>2 DEF P!RemoveSave, P!Teardown, P!Unpaired
    <2>3. CASE ~P!PollStep /\ ~P!RemoveSave /\ ~(\E peer \in teardowns : P!Teardown(peer))
      BY <2>3 DEF P!Next, P!Connect, P!PollStart, P!Cancel, P!Remove, P!RemoveTell, P!SetAttempt,
         P!TheirDecision, P!TheirExpiry, P!TheirRemoval, P!Ask, P!TheirTeardown, P!RemoveExt,
         P!Decide, P!Sweep, P!Claim, P!Mint, P!Hand, P!Create, P!Revoke, P!Restart, P!outbound
    <2> QED BY <2>1, <2>2, <2>3
  <1> QED BY <1>1, <1>2 DEF PairingInv, Attempted

\* The invariant holds, and an attempt once over is never paired, in every
\* behaviour of the pairing (web/pairing.go).
LEMMA PairingsAlwaysAgree == P!Spec => []PairingInv /\ P!EndedStaysEnded
  BY PairingStart, PairingStep, PairingChange, PTL DEF P!Spec, P!EndedStaysEnded

-----------------------------------------------------------------------------
\* The install of gallery-dl (Install.tla).

SwitchType == [at : {"idle", "guard", "read", "pause", "count", "done", "tell", "install", "download",
                     "chmod", "clean", "venv", "pip", "check", "failed", "remove", "version", "replace"},
               kind : {"none", "install", "revert"}, v : Nat, waspaused : BOOLEAN,
               by : {"none", "one", "venv"}, ok : BOOLEAN, saw : Nat]

DiskType ==
    /\ one \in [v : Nat, runs : BOOLEAN]
    /\ venv \in [there : BOOLEAN, python : BOOLEAN, v : Nat, runs : BOOLEAN]
    /\ catalog \in [version : Nat, managed : BOOLEAN]
    /\ probe \in [at : {"idle", "out"}, saw : Nat]
RunType ==
    /\ custom \in BOOLEAN /\ switching \in BOOLEAN /\ running \in BOOLEAN /\ paused \in BOOLEAN
    /\ wanted \in BOOLEAN /\ meddled \in BOOLEAN /\ torn \in BOOLEAN /\ raced \in BOOLEAN /\ mixed \in BOOLEAN
    /\ job \in [at : {"none", "resolved"}, with : Nat, excused : BOOLEAN]
\* The types of the disk, the switch and the job.
InstallType == DiskType /\ RunType /\ sw \in [Requests -> SwitchType]

\* A request past the guard.
Under(r) == sw[r].at \notin {"idle", "guard"}

\* One request at a time, and whoever the guard let in is seen by the next.
Guarded ==
    /\ \A r, q \in Requests : Under(r) /\ Under(q) => r = q
    /\ \A r \in Requests : Under(r) => IF sw[r].at = "tell" THEN running ELSE switching
    /\ \A r \in Requests : sw[r].at \in {"download", "chmod"} => sw[r].by = "one"
    /\ \A r \in Requests : sw[r].at \in {"venv", "pip"} => sw[r].by = "venv"

\* A request that may change the disk.
Changes(r) == Under(r) /\ sw[r].at \notin {"read", "pause", "count", "done", "tell"}

\* No job that counts is under way then, and one that is has what it resolved.
Unmixed ==
    /\ ~mixed
    /\ \A r \in Requests : Changes(r) => job = I!NoJob \/ job.excused
    /\ job # I!NoJob => job.excused \/ job.with = I!Effective.v

\* The operator's last word is kept through the switch.
Held ==
    /\ (\A r \in Requests : Under(r) => sw[r].at = "tell") => paused = wanted
    /\ \A r \in Requests : sw[r].at = "read" => meddled \/ paused = wanted
    /\ \A r \in Requests : sw[r].at = "pause" => meddled \/ (sw[r].waspaused = wanted /\ paused = wanted)
    /\ \A r \in Requests : Changes(r) \/ sw[r].at \in {"count", "done"} =>
          meddled \/ (sw[r].waspaused = wanted /\ paused)

\* A file that does not run is removed before the switch is over.
Unshadowed ==
    /\ venv.v # 0 => venv.runs
    /\ \/ custom \/ torn
       \/ one.v # 0 => one.runs
       \/ \E r \in Requests : sw[r].at \in {"chmod", "clean"} \/ (sw[r].at = "check" /\ sw[r].by = "one")

\* The catalog is of the gallery-dl that answers, or says it is a managed one and none is.
Told ==
    \/ catalog = [version |-> I!Answers(I!Effective), managed |-> I!Active]
    \/ catalog.managed /\ ~I!Active

\* The catalog is told or a request under way will see to it, and what that
\* request or the probe saw still answers.
Cataloged ==
    \/ raced
    \/ /\ Told \/ \E r \in Requests : Changes(r) /\ sw[r].at \notin {"install", "remove"}
       /\ \A r \in Requests : sw[r].at = "replace" => sw[r].saw = I!Answers(I!Effective)
       /\ probe.at = "out" =>
             ~I!Active /\ probe.saw = I!Answers(I!Effective)
             /\ \A r \in Requests : Under(r) => sw[r].at = "tell"

\* The inductive invariant of the install.
InstallInv == InstallType /\ Guarded /\ Unmixed /\ Held /\ Unshadowed /\ Cataloged

LEMMA InstallStart == I!Init => InstallInv
  <1> SUFFICES ASSUME I!Init PROVE InstallInv
    OBVIOUS
  <1> USE InstallAssumption DEF I!Init, I!None, I!Bundled, I!Own, I!NoFile, I!NoVenv, I!NoJob, I!NoProbe, I!Idle
  <1>1. DiskType
    BY DEF DiskType, I!Effective, I!Active, I!VenvAnswers
  <1>2. RunType
    BY DEF RunType
  <1>3. sw \in [Requests -> SwitchType]
    BY DEF SwitchType
  <1>4. Guarded /\ Unmixed
    BY DEF Guarded, Unmixed, Changes, Under
  <1>5. Held
    BY DEF Held, Changes, Under
  <1>6. Unshadowed
    BY DEF Unshadowed
  <1>7. Cataloged
    BY DEF Cataloged, Told, Changes, Under, I!Effective, I!Active, I!VenvAnswers, I!Answers
  <1> QED BY <1>1, <1>2, <1>3, <1>4, <1>5, <1>6, <1>7 DEF InstallInv, InstallType

LEMMA EffectiveType ==
    ASSUME InstallType
    PROVE  /\ I!Effective \in [v : Nat, runs : BOOLEAN]
           /\ I!Active \in BOOLEAN
           /\ I!Answers(I!Effective) \in Nat
  <1> USE DEF InstallType, I!None, I!Bundled, I!Own
  <1>1. I!Active \in BOOLEAN
    BY Zenon DEF I!Active
  <1>2. I!Effective \in [v : Nat, runs : BOOLEAN]
    <2>1. CASE custom
      BY <2>1 DEF I!Effective
    <2>2. CASE ~custom /\ one.v # 0
      BY <2>2 DEF I!Effective, DiskType
    <2>3. CASE ~custom /\ one.v = 0 /\ I!VenvAnswers
      <3>1. venv.v \in Nat /\ venv.runs \in BOOLEAN
        BY DEF DiskType
      <3> QED BY <2>3, <3>1 DEF I!Effective
    <2>4. CASE ~custom /\ one.v = 0 /\ ~I!VenvAnswers
      BY <2>4 DEF I!Effective
    <2> QED BY <2>1, <2>2, <2>3, <2>4
  <1>3. I!Answers(I!Effective) \in Nat
    BY <1>2 DEF I!Answers
  <1> QED BY <1>1, <1>2, <1>3

LEMMA AskKeepsInstall ==
    ASSUME InstallInv, NEW r \in Requests, I!Ask(r)
    PROVE  InstallInv'
  <1> USE InstallAssumption DEF InstallInv, I!None, I!Bundled, I!Own, I!NoFile, I!NoVenv, I!NoJob, I!NoProbe, I!disk, I!queue, I!counts, I!ghosts, I!Ask, I!At, I!Idle
  <1>1. PICK new \in SwitchType : sw' = [sw EXCEPT ![r] = new] /\ new.at = "guard"
    <2>1. CASE \E v \in Versions : sw' = [sw EXCEPT ![r] = [I!Idle EXCEPT !.at = "guard", !.kind = "install", !.v = v]]
      <3>1. PICK v \in Versions : sw' = [sw EXCEPT ![r] = [I!Idle EXCEPT !.at = "guard", !.kind = "install", !.v = v]]
        BY <2>1
      <3>2. [I!Idle EXCEPT !.at = "guard", !.kind = "install", !.v = v] \in SwitchType
        BY DEF SwitchType
      <3>3. [I!Idle EXCEPT !.at = "guard", !.kind = "install", !.v = v].at = "guard"
        OBVIOUS
      <3> QED BY <3>1, <3>2, <3>3
    <2>2. CASE sw' = [sw EXCEPT ![r] = [I!Idle EXCEPT !.at = "guard", !.kind = "revert"]]
      <3>1. [I!Idle EXCEPT !.at = "guard", !.kind = "revert"] \in SwitchType
            /\ [I!Idle EXCEPT !.at = "guard", !.kind = "revert"].at = "guard"
        BY DEF SwitchType
      <3> QED BY <2>2, <3>1
    <2> QED BY <2>1, <2>2
  <1>2. sw[r].at = "idle"
    OBVIOUS
  <1>3. UNCHANGED <<custom, one, venv, catalog, switching, running, paused, job, mixed, probe, wanted, meddled, torn, raced>>
    OBVIOUS
  <1>4. (sw \in [Requests -> SwitchType]) /\ (sw \in [Requests -> SwitchType])'
    BY <1>1 DEF InstallType
  <1>5. sw'[r].at = "guard" /\ \A q \in Requests : q # r => sw'[q] = sw[q]
    BY <1>1, <1>4
  <1>6. DiskType'
    BY DEF InstallType, DiskType
  <1>7. RunType'
    <2> HIDE DEF I!Ask
    <2> QED BY <1>3, Zenon DEF InstallType, RunType
  <1>8. (sw \in [Requests -> SwitchType])'
    BY <1>4
  <1>9. Guarded'
    <2> HIDE DEF I!Ask
    <2> QED BY <1>2, <1>3, <1>4, <1>5 DEF Guarded, Under
  <1>10. Unmixed'
    <2> HIDE DEF I!Ask
    <2> QED BY <1>2, <1>3, <1>4, <1>5 DEF Unmixed, Changes, Under, I!Effective, I!VenvAnswers
  <1>11. Held'
    <2> HIDE DEF I!Ask
    <2> QED BY <1>2, <1>3, <1>4, <1>5 DEF Held, Changes, Under
  <1>12. Unshadowed'
    <2> HIDE DEF I!Ask
    <2> QED BY <1>2, <1>3, <1>4, <1>5 DEF Unshadowed
  <1>13. Cataloged'
    <2> HIDE DEF I!Ask
    <2> QED BY <1>2, <1>3, <1>4, <1>5 DEF Cataloged, Told, Changes, Under, I!Effective, I!Active, I!VenvAnswers, I!Answers
  <1> QED BY <1>6, <1>7, <1>8, <1>9, <1>10, <1>11, <1>12, <1>13 DEF InstallType

LEMMA GuardKeepsInstall ==
    ASSUME InstallInv, NEW r \in Requests, I!Guard(r)
    PROVE  InstallInv'
  <1> USE InstallAssumption DEF InstallInv, I!None, I!Bundled, I!Own, I!NoFile, I!NoVenv, I!NoJob, I!NoProbe, I!disk, I!queue, I!counts, I!ghosts, I!Guard, I!At, I!To, I!Busy, I!Idle
  <1>1. sw[r] \in SwitchType /\ I!Idle \in SwitchType
    BY DEF InstallType, SwitchType
  <1>2. [sw[r] EXCEPT !.at = "read"] \in SwitchType
    BY <1>1 DEF SwitchType
  <1>3. sw' = [sw EXCEPT ![r] = I!Idle] \/ sw' = [sw EXCEPT ![r] = [sw[r] EXCEPT !.at = "read"]]
    BY DEF InstallType
  <1>4. UNCHANGED <<custom, one, venv, catalog, probe>>
    OBVIOUS
  <1>5. \/ sw' = [sw EXCEPT ![r] = I!Idle] /\ raced' = raced
        \/ /\ sw' = [sw EXCEPT ![r].at = "read"] /\ ~switching /\ ~running
           /\ raced \/ probe.at # "idle" => raced'
    BY Zenon
  <1>6. sw[r].at = "guard"
    OBVIOUS
  <1>7. DiskType'
    BY DEF InstallType, DiskType
  <1>8. RunType'
    BY ZenonT(30) DEF InstallType, RunType
  <1>9. (sw \in [Requests -> SwitchType])'
    <2> HIDE DEF I!Guard, I!To, I!Idle
    <2> QED BY <1>1, <1>2, <1>3 DEF InstallType
  <1>10. Guarded'
    BY DEF InstallType, DiskType, RunType, SwitchType, Guarded, Under
  <1>11. Unmixed'
    BY DEF InstallType, DiskType, RunType, SwitchType, Unmixed, Changes, Under, Guarded, I!Effective, I!Active, I!VenvAnswers, I!Answers
  <1>12. Held'
    BY DEF InstallType, DiskType, RunType, SwitchType, Held, Changes, Under, Guarded
  <1>13. Unshadowed'
    BY DEF InstallType, DiskType, RunType, SwitchType, Unshadowed, Guarded, Under
  <1>14. Cataloged'
    <2> HIDE DEF I!Guard, I!To, I!Busy
    <2>1. CASE sw' = [sw EXCEPT ![r] = I!Idle] /\ raced' = raced
      <3>1. \A q \in Requests : sw'[q].at = sw[q].at \/ (q = r /\ sw'[q].at = "idle")
        BY <1>1, <2>1 DEF InstallType, SwitchType
      <3>2. \A q \in Requests : q # r => sw'[q] = sw[q]
        BY <2>1 DEF InstallType
      <3> QED BY <1>4, <1>6, <2>1, <3>1, <3>2 DEF Cataloged, Told, Changes, Under, I!Effective, I!Active, I!VenvAnswers, I!Answers
    <2>2. CASE /\ sw' = [sw EXCEPT ![r].at = "read"] /\ ~switching /\ ~running
               /\ raced \/ probe.at # "idle" => raced'
      <3>1. \A q \in Requests : ~Under(q)
        BY <2>2 DEF Guarded, Under
      <3>2. (\A q \in Requests : q # r => sw'[q] = sw[q]) /\ sw'[r].at = "read"
        BY <1>1, <2>2 DEF InstallType, SwitchType
      <3>3. raced' \/ (Told /\ probe.at = "idle")
        BY <2>2, <3>1 DEF Cataloged, Changes, InstallType, DiskType
      <3>4. Told => Told'
        BY <1>4 DEF Told, I!Effective, I!Active, I!VenvAnswers, I!Answers
      <3> QED BY <1>4, <3>1, <3>2, <3>3, <3>4 DEF Cataloged, Under
    <2> QED BY <1>5, <2>1, <2>2
  <1> QED BY <1>7, <1>8, <1>9, <1>10, <1>11, <1>12, <1>13, <1>14 DEF InstallType

LEMMA ReadPausedKeepsInstall ==
    ASSUME InstallInv, NEW r \in Requests, I!ReadPaused(r)
    PROVE  InstallInv'
  <1> USE InstallAssumption DEF InstallInv, I!None, I!Bundled, I!Own, I!NoFile, I!NoVenv, I!NoJob, I!NoProbe, I!disk, I!queue, I!counts, I!ghosts, I!ReadPaused, I!At
  <1>1. DiskType'
    BY DEF InstallType, DiskType
  <1>2. RunType'
    BY Zenon DEF InstallType, RunType
  <1>3. (sw \in [Requests -> SwitchType])'
    BY DEF InstallType, SwitchType
  <1>4. Guarded'
    BY DEF InstallType, DiskType, RunType, SwitchType, Guarded, Under
  <1>5. Unmixed'
    BY DEF InstallType, DiskType, RunType, SwitchType, Unmixed, Changes, Under, Guarded, I!Effective, I!Active, I!VenvAnswers, I!Answers
  <1>6. Held'
    BY DEF InstallType, DiskType, RunType, SwitchType, Held, Changes, Under, Guarded
  <1>7. Unshadowed'
    BY DEF InstallType, DiskType, RunType, SwitchType, Unshadowed, Guarded, Under
  <1>8. Cataloged'
    BY DEF InstallType, DiskType, RunType, SwitchType, Cataloged, Told, Changes, Under, Guarded, I!Effective, I!Active, I!VenvAnswers, I!Answers
  <1> QED BY <1>1, <1>2, <1>3, <1>4, <1>5, <1>6, <1>7, <1>8 DEF InstallType

LEMMA PauseKeepsInstall ==
    ASSUME InstallInv, NEW r \in Requests, I!Pause(r)
    PROVE  InstallInv'
  <1> USE InstallAssumption DEF InstallInv, I!None, I!Bundled, I!Own, I!NoFile, I!NoVenv, I!NoJob, I!NoProbe, I!disk, I!queue, I!counts, I!ghosts, I!Pause, I!At, I!To
  <1>1. sw[r] \in SwitchType
    BY DEF InstallType
  <1>2. \A q \in Requests : q # r => ~Under(q)
    BY DEF Guarded, Under
  <1>3. \A q \in Requests : q # r => sw'[q] = sw[q]
    BY DEF InstallType
  <1>4. sw'[r].at = "count" /\ sw'[r].waspaused = sw[r].waspaused
    BY <1>1 DEF InstallType, SwitchType
  <1>5. paused' /\ wanted' = wanted /\ meddled' = meddled
    OBVIOUS
  <1>6. meddled \/ sw[r].waspaused = wanted
    BY DEF Held
  <1>7. DiskType'
    BY DEF InstallType, DiskType
  <1>8. RunType'
    BY Zenon DEF InstallType, RunType
  <1>9. (sw \in [Requests -> SwitchType])'
    BY DEF InstallType, SwitchType
  <1>10. Guarded'
    BY DEF InstallType, DiskType, RunType, SwitchType, Guarded, Under
  <1>11. Unmixed'
    BY DEF InstallType, DiskType, RunType, SwitchType, Unmixed, Changes, Under, Guarded, I!Effective, I!Active, I!VenvAnswers, I!Answers
  <1>12. Held'
    <2> HIDE DEF I!Pause, I!To
    <2> QED BY <1>2, <1>3, <1>4, <1>5, <1>6 DEF Held, Changes, Under
  <1>13. Unshadowed'
    BY DEF InstallType, DiskType, RunType, SwitchType, Unshadowed, Guarded, Under
  <1>14. Cataloged'
    BY DEF InstallType, DiskType, RunType, SwitchType, Cataloged, Told, Changes, Under, Guarded, I!Effective, I!Active, I!VenvAnswers, I!Answers
  <1> QED BY <1>7, <1>8, <1>9, <1>10, <1>11, <1>12, <1>13, <1>14 DEF InstallType

LEMMA CountKeepsInstall ==
    ASSUME InstallInv, NEW r \in Requests, I!Count(r)
    PROVE  InstallInv'
  <1> USE InstallAssumption DEF InstallInv, I!None, I!Bundled, I!Own, I!NoFile, I!NoVenv, I!NoJob, I!NoProbe, I!disk, I!queue, I!counts, I!ghosts, I!Count, I!At, I!To, I!CountsIdle
  <1>1. DiskType'
    BY DEF InstallType, DiskType
  <1>2. RunType'
    BY Zenon DEF InstallType, RunType
  <1>3. (sw \in [Requests -> SwitchType])'
    BY DEF InstallType, SwitchType
  <1>4. Guarded'
    BY DEF InstallType, DiskType, RunType, SwitchType, Guarded, Under
  <1>5. Unmixed'
    BY DEF InstallType, DiskType, RunType, SwitchType, Unmixed, Changes, Under, Guarded, I!Effective, I!Active, I!VenvAnswers, I!Answers
  <1>6. Held'
    BY DEF InstallType, DiskType, RunType, SwitchType, Held, Changes, Under, Guarded
  <1>7. Unshadowed'
    BY DEF InstallType, DiskType, RunType, SwitchType, Unshadowed, Guarded, Under
  <1>8. Cataloged'
    BY SMTT(30) DEF InstallType, DiskType, RunType, SwitchType, Cataloged, Told, Changes, Under, Guarded, I!Effective, I!Active, I!VenvAnswers, I!Answers
  <1> QED BY <1>1, <1>2, <1>3, <1>4, <1>5, <1>6, <1>7, <1>8 DEF InstallType

LEMMA DoneKeepsInstall ==
    ASSUME InstallInv, NEW r \in Requests, I!Done(r)
    PROVE  InstallInv'
  <1> USE InstallAssumption DEF InstallInv, I!None, I!Bundled, I!Own, I!NoFile, I!NoVenv, I!NoJob, I!NoProbe, I!disk, I!queue, I!counts, I!ghosts, I!Done, I!At, I!To, I!Resumed, I!Idle
  <1>1. DiskType'
    BY DEF InstallType, DiskType
  <1>2. RunType'
    BY Zenon DEF InstallType, RunType
  <1>3. (sw \in [Requests -> SwitchType])'
    <2>1. sw[r] \in SwitchType /\ I!Idle \in SwitchType
      BY DEF InstallType, SwitchType
    <2>2. [sw[r] EXCEPT !.at = "tell"] \in SwitchType
      BY <2>1 DEF SwitchType
    <2>3. sw' = [sw EXCEPT ![r] = I!Idle] \/ sw' = [sw EXCEPT ![r] = [sw[r] EXCEPT !.at = "tell"]]
      BY DEF InstallType
    <2> HIDE DEF I!Done, I!To, I!Idle
    <2> QED BY <2>1, <2>2, <2>3 DEF InstallType
  <1>4. Guarded'
    BY SMTT(30) DEF InstallType, DiskType, RunType, SwitchType, Guarded, Under
  <1>5. Unmixed'
    BY DEF InstallType, DiskType, RunType, SwitchType, Unmixed, Changes, Under, Guarded, I!Effective, I!Active, I!VenvAnswers, I!Answers
  <1>6. Held'
    BY DEF InstallType, DiskType, RunType, SwitchType, Held, Changes, Under, Guarded
  <1>7. Unshadowed'
    BY DEF InstallType, DiskType, RunType, SwitchType, Unshadowed, Guarded, Under
  <1>8. Cataloged'
    BY DEF InstallType, DiskType, RunType, SwitchType, Cataloged, Told, Changes, Under, Guarded, I!Effective, I!Active, I!VenvAnswers, I!Answers
  <1> QED BY <1>1, <1>2, <1>3, <1>4, <1>5, <1>6, <1>7, <1>8 DEF InstallType

LEMMA TellKeepsInstall ==
    ASSUME InstallInv, NEW r \in Requests, I!Tell(r)
    PROVE  InstallInv'
  <1> USE InstallAssumption DEF InstallInv, I!None, I!Bundled, I!Own, I!NoFile, I!NoVenv, I!NoJob, I!NoProbe, I!disk, I!queue, I!counts, I!ghosts, I!Tell, I!At, I!Idle
  <1>1. sw[r] \in SwitchType
    BY DEF InstallType
  <1>2. \A q \in Requests : q # r => ~Under(q)
    BY DEF Guarded, Under
  <1>3. \A q \in Requests : q # r => sw'[q] = sw[q]
    BY DEF InstallType
  <1>4. sw[r].at = "tell" /\ sw'[r].at = "idle"
    BY <1>1 DEF InstallType, SwitchType
  <1>5. UNCHANGED <<paused, wanted, meddled>>
    OBVIOUS
  <1>6. DiskType'
    BY DEF InstallType, DiskType
  <1>7. RunType'
    BY Zenon DEF InstallType, RunType
  <1>8. (sw \in [Requests -> SwitchType])'
    BY DEF InstallType, SwitchType
  <1>9. Guarded'
    BY DEF InstallType, DiskType, RunType, SwitchType, Guarded, Under
  <1>10. Unmixed'
    BY DEF InstallType, DiskType, RunType, SwitchType, Unmixed, Changes, Under, Guarded, I!Effective, I!Active, I!VenvAnswers, I!Answers
  <1>11. Held'
    <2> HIDE DEF I!Tell
    <2> QED BY <1>2, <1>3, <1>4, <1>5 DEF Held, Changes, Under
  <1>12. Unshadowed'
    BY DEF InstallType, DiskType, RunType, SwitchType, Unshadowed, Guarded, Under
  <1>13. Cataloged'
    BY DEF InstallType, DiskType, RunType, SwitchType, Cataloged, Told, Changes, Under, Guarded, I!Effective, I!Active, I!VenvAnswers, I!Answers
  <1> QED BY <1>6, <1>7, <1>8, <1>9, <1>10, <1>11, <1>12, <1>13 DEF InstallType

LEMMA StartKeepsInstall ==
    ASSUME InstallInv, NEW r \in Requests, I!Start(r)
    PROVE  InstallInv'
  <1> USE InstallAssumption DEF InstallInv, I!None, I!Bundled, I!Own, I!NoFile, I!NoVenv, I!NoJob, I!NoProbe, I!disk, I!queue, I!counts, I!ghosts, I!Start, I!At, I!Fault
  <1>1. DiskType'
    BY DEF InstallType, DiskType
  <1>2. RunType'
    BY ZenonT(30) DEF InstallType, RunType
  <1>3. (sw \in [Requests -> SwitchType])'
    BY DEF InstallType, SwitchType
  <1>4. Guarded'
    BY SMTT(30) DEF InstallType, DiskType, RunType, SwitchType, Guarded, Under
  <1>5. Unmixed'
    BY DEF InstallType, DiskType, RunType, SwitchType, Unmixed, Changes, Under, Guarded, I!Effective, I!Active, I!VenvAnswers, I!Answers
  <1>6. Held'
    <2>1. \A q \in Requests : Under(q) <=> Under(q)'
      BY DEF InstallType, SwitchType, Under
    <2>2. \A q \in Requests : sw'[q] = sw[q] \/ (Changes(q) /\ sw'[q].at \notin {"read", "pause", "tell"})
      BY DEF InstallType, SwitchType, Changes, Under
    <2>3. \A q \in Requests : sw'[q].waspaused = sw[q].waspaused
      BY DEF InstallType, SwitchType
    <2>4. UNCHANGED <<paused, wanted, meddled>>
      OBVIOUS
    <2> HIDE DEF I!Start
    <2> QED BY <2>1, <2>2, <2>3, <2>4 DEF Held, Changes
  <1>7. Unshadowed'
    BY DEF InstallType, DiskType, RunType, SwitchType, Unshadowed, Guarded, Under
  <1>8. Cataloged'
    BY DEF InstallType, DiskType, RunType, SwitchType, Cataloged, Told, Changes, Under, Guarded, I!Effective, I!Active, I!VenvAnswers, I!Answers
  <1> QED BY <1>1, <1>2, <1>3, <1>4, <1>5, <1>6, <1>7, <1>8 DEF InstallType

LEMMA DownloadKeepsInstall ==
    ASSUME InstallInv, NEW r \in Requests, I!Download(r)
    PROVE  InstallInv'
  <1> USE InstallAssumption DEF InstallInv, I!None, I!Bundled, I!Own, I!NoFile, I!NoVenv, I!NoJob, I!NoProbe, I!disk, I!queue, I!counts, I!ghosts, I!Download, I!At, I!To, I!Fault
  <1>1. sw[r] \in SwitchType
    BY DEF InstallType
  <1>2. \A q \in Requests : q # r => ~Under(q)
    BY DEF Guarded, Under
  <1>3. \A q \in Requests : q # r => sw'[q] = sw[q]
    BY DEF InstallType
  <1>4. sw[r].at = "download"
    OBVIOUS
  <1>5. sw'[r].at \in {"chmod", "clean"}
    BY <1>1 DEF InstallType, SwitchType
  <1>6. UNCHANGED <<catalog, probe, raced, custom, torn>>
    OBVIOUS
  <1>7. DiskType'
    <2>1. [v |-> sw[r].v, runs |-> FALSE] \in [v : Nat, runs : BOOLEAN]
      BY <1>1 DEF SwitchType
    <2>2. one' = one \/ one' = [v |-> sw[r].v, runs |-> FALSE]
      OBVIOUS
    <2>3. UNCHANGED <<venv, catalog, probe>>
      OBVIOUS
    <2> HIDE DEF I!Download, I!Fault
    <2> QED BY <2>1, <2>2, <2>3 DEF InstallType, DiskType
  <1>8. RunType'
    BY ZenonT(30) DEF InstallType, RunType
  <1>9. (sw \in [Requests -> SwitchType])'
    BY DEF InstallType, SwitchType
  <1>10. Guarded'
    BY SMTT(30) DEF InstallType, DiskType, RunType, SwitchType, Guarded, Under
  <1>11. Unmixed'
    BY DEF InstallType, DiskType, RunType, SwitchType, Unmixed, Changes, Under, Guarded, I!Effective, I!Active, I!VenvAnswers, I!Answers
  <1>12. Held'
    BY DEF InstallType, DiskType, RunType, SwitchType, Held, Changes, Under, Guarded
  <1>13. Unshadowed'
    BY DEF InstallType, DiskType, RunType, SwitchType, Unshadowed, Guarded, Under
  <1>14. Cataloged'
    <2> HIDE DEF I!Download, I!To, I!Fault
    <2>1. raced \/ probe.at # "out"
      BY <1>4 DEF Cataloged, Under
    <2>2. Changes(r)' /\ sw'[r].at \notin {"install", "remove", "replace"}
      BY <1>5 DEF Changes, Under
    <2>3. \A q \in Requests : q # r => sw'[q].at # "replace"
      BY <1>2, <1>3 DEF Under
    <2> QED BY <1>6, <2>1, <2>2, <2>3 DEF Cataloged
  <1> QED BY <1>7, <1>8, <1>9, <1>10, <1>11, <1>12, <1>13, <1>14 DEF InstallType

LEMMA ChmodKeepsInstall ==
    ASSUME InstallInv, NEW r \in Requests, I!Chmod(r)
    PROVE  InstallInv'
  <1> USE InstallAssumption DEF InstallInv, I!None, I!Bundled, I!Own, I!NoFile, I!NoVenv, I!NoJob, I!NoProbe, I!disk, I!queue, I!counts, I!ghosts, I!Chmod, I!At, I!To, I!Fault
  <1>1. sw[r] \in SwitchType
    BY DEF InstallType
  <1>2. \A q \in Requests : q # r => ~Under(q)
    BY DEF Guarded, Under
  <1>3. \A q \in Requests : q # r => sw'[q] = sw[q]
    BY DEF InstallType
  <1>4. sw[r].at = "chmod"
    OBVIOUS
  <1>5. sw'[r].at \in {"clean", "check"}
    BY <1>1 DEF InstallType, SwitchType
  <1>6. UNCHANGED <<catalog, probe, raced, custom, torn>>
    OBVIOUS
  <1>7. DiskType'
    BY DEF InstallType, DiskType
  <1>8. RunType'
    BY ZenonT(30) DEF InstallType, RunType
  <1>9. (sw \in [Requests -> SwitchType])'
    BY DEF InstallType, SwitchType
  <1>10. Guarded'
    BY SMTT(30) DEF InstallType, DiskType, RunType, SwitchType, Guarded, Under
  <1>11. Unmixed'
    BY DEF InstallType, DiskType, RunType, SwitchType, Unmixed, Changes, Under, Guarded, I!Effective, I!Active, I!VenvAnswers, I!Answers
  <1>12. Held'
    BY SMTT(30) DEF InstallType, DiskType, RunType, SwitchType, Held, Changes, Under, Guarded
  <1>13. Unshadowed'
    BY DEF InstallType, DiskType, RunType, SwitchType, Unshadowed, Guarded, Under
  <1>14. Cataloged'
    <2> HIDE DEF I!Chmod, I!To, I!Fault
    <2>1. raced \/ probe.at # "out"
      BY <1>4 DEF Cataloged, Under
    <2>2. Changes(r)' /\ sw'[r].at \notin {"install", "remove", "replace"}
      BY <1>5 DEF Changes, Under
    <2>3. \A q \in Requests : q # r => sw'[q].at # "replace"
      BY <1>2, <1>3 DEF Under
    <2> QED BY <1>6, <2>1, <2>2, <2>3 DEF Cataloged
  <1> QED BY <1>7, <1>8, <1>9, <1>10, <1>11, <1>12, <1>13, <1>14 DEF InstallType

LEMMA CleanKeepsInstall ==
    ASSUME InstallInv, NEW r \in Requests, I!Clean(r)
    PROVE  InstallInv'
  <1> USE InstallAssumption DEF InstallInv, I!None, I!Bundled, I!Own, I!NoFile, I!NoVenv, I!NoJob, I!NoProbe, I!disk, I!queue, I!counts, I!ghosts, I!Clean, I!At, I!To, I!Cleaned, I!Removed, I!VenvAnswers, I!Answers
  <1>1. sw[r] \in SwitchType
    BY DEF InstallType
  <1>2. \A q \in Requests : q # r => ~Under(q)
    BY DEF Guarded, Under
  <1>3. \A q \in Requests : q # r => sw'[q] = sw[q]
    BY DEF InstallType
  <1>4. sw[r].at = "clean"
    OBVIOUS
  <1>5. sw'[r].at \in {"failed"}
    BY <1>1 DEF InstallType, SwitchType
  <1>6. UNCHANGED <<catalog, probe, raced, custom, torn>>
    OBVIOUS
  <1>7. DiskType'
    <2>1. I!NoFile \in [v : Nat, runs : BOOLEAN]
          /\ I!NoVenv \in [there : BOOLEAN, python : BOOLEAN, v : Nat, runs : BOOLEAN]
      OBVIOUS
    <2>2. UNCHANGED <<one, venv>> \/ (one' = I!NoFile /\ venv' = I!NoVenv)
      OBVIOUS
    <2>3. UNCHANGED <<catalog, probe>>
      OBVIOUS
    <2> HIDE DEF I!Clean, I!Cleaned, I!Removed, I!NoFile, I!NoVenv
    <2> QED BY <2>1, <2>2, <2>3 DEF InstallType, DiskType
  <1>8. RunType'
    BY Zenon DEF InstallType, RunType
  <1>9. (sw \in [Requests -> SwitchType])'
    BY DEF InstallType, SwitchType
  <1>10. Guarded'
    BY DEF InstallType, DiskType, RunType, SwitchType, Guarded, Under
  <1>11. Unmixed'
    BY DEF InstallType, DiskType, RunType, SwitchType, Unmixed, Changes, Under, Guarded, I!Effective, I!Active, I!VenvAnswers, I!Answers
  <1>12. Held'
    BY DEF InstallType, DiskType, RunType, SwitchType, Held, Changes, Under, Guarded
  <1>13. Unshadowed'
    <2>1. \/ one' = I!NoFile /\ venv' = I!NoVenv
          \/ one' = one /\ venv' = venv /\ (one.v # 0 => one.runs)
      BY DEF InstallType, DiskType
    <2> HIDE DEF I!Clean, I!To, I!Cleaned, I!Removed
    <2> QED BY <1>6, <2>1 DEF Unshadowed
  <1>14. Cataloged'
    <2> HIDE DEF I!Clean, I!To, I!Cleaned, I!Removed
    <2>1. raced \/ probe.at # "out"
      BY <1>4 DEF Cataloged, Under
    <2>2. Changes(r)' /\ sw'[r].at \notin {"install", "remove", "replace"}
      BY <1>5 DEF Changes, Under
    <2>3. \A q \in Requests : q # r => sw'[q].at # "replace"
      BY <1>2, <1>3 DEF Under
    <2> QED BY <1>6, <2>1, <2>2, <2>3 DEF Cataloged
  <1> QED BY <1>7, <1>8, <1>9, <1>10, <1>11, <1>12, <1>13, <1>14 DEF InstallType

LEMMA CreateVenvKeepsInstall ==
    ASSUME InstallInv, NEW r \in Requests, I!CreateVenv(r)
    PROVE  InstallInv'
  <1> USE InstallAssumption DEF InstallInv, I!None, I!Bundled, I!Own, I!NoFile, I!NoVenv, I!NoJob, I!NoProbe, I!disk, I!queue, I!counts, I!ghosts, I!CreateVenv, I!At, I!To, I!Fault, I!Removed
  <1>1. sw[r] \in SwitchType
    BY DEF InstallType
  <1>2. \A q \in Requests : q # r => ~Under(q)
    BY DEF Guarded, Under
  <1>3. \A q \in Requests : q # r => sw'[q] = sw[q]
    BY DEF InstallType
  <1>4. sw[r].at = "venv"
    OBVIOUS
  <1>5. sw'[r].at \in {"pip", "failed"}
    BY <1>1 DEF InstallType, SwitchType
  <1>6. UNCHANGED <<catalog, probe, raced, custom, torn>>
    OBVIOUS
  <1>7. DiskType'
    <2>1. I!NoFile \in [v : Nat, runs : BOOLEAN]
          /\ I!NoVenv \in [there : BOOLEAN, python : BOOLEAN, v : Nat, runs : BOOLEAN]
      OBVIOUS
    <2>2. [I!NoVenv EXCEPT !.there = TRUE, !.python = TRUE] \in [there : BOOLEAN, python : BOOLEAN, v : Nat, runs : BOOLEAN]
      OBVIOUS
    <2>3. \/ one' = one /\ (venv' = venv \/ venv' = [I!NoVenv EXCEPT !.there = TRUE, !.python = TRUE])
          \/ one' = I!NoFile /\ venv' = I!NoVenv
      OBVIOUS
    <2>4. UNCHANGED <<catalog, probe>>
      OBVIOUS
    <2> HIDE DEF I!CreateVenv, I!Fault, I!Removed, I!NoFile, I!NoVenv
    <2> QED BY <2>1, <2>2, <2>3, <2>4 DEF InstallType, DiskType
  <1>8. RunType'
    <2> HIDE DEF I!CreateVenv
    <2>1. UNCHANGED <<custom, switching, running, paused, wanted, meddled, torn, raced, mixed, job>>
      BY DEF I!CreateVenv
    <2> QED BY <2>1, Zenon DEF InstallType, RunType
  <1>9. (sw \in [Requests -> SwitchType])'
    BY DEF InstallType, SwitchType
  <1>10. Guarded'
    BY DEF InstallType, DiskType, RunType, SwitchType, Guarded, Under
  <1>11. Unmixed'
    BY DEF InstallType, DiskType, RunType, SwitchType, Unmixed, Changes, Under, Guarded, I!Effective, I!Active, I!VenvAnswers, I!Answers
  <1>12. Held'
    BY SMTT(30) DEF InstallType, DiskType, RunType, SwitchType, Held, Changes, Under, Guarded
  <1>13. Unshadowed'
    <2>1. one' = one \/ one' = I!NoFile
      OBVIOUS
    <2>2. venv' = venv \/ venv'.v = 0
      <3>1. \/ venv' = venv \/ venv' = I!NoVenv
            \/ venv' = [I!NoVenv EXCEPT !.there = TRUE, !.python = TRUE]
        OBVIOUS
      <3>2. I!NoVenv.v = 0 /\ [I!NoVenv EXCEPT !.there = TRUE, !.python = TRUE].v = 0
        OBVIOUS
      <3> HIDE DEF I!CreateVenv, I!Fault, I!Removed, I!NoVenv
      <3> QED BY <3>1, <3>2
    <2>3. custom \/ torn \/ (one.v # 0 => one.runs)
      BY <1>2, <1>4 DEF Unshadowed, Under
    <2> HIDE DEF I!CreateVenv, I!To, I!Fault, I!Removed
    <2> QED BY <1>6, <2>1, <2>2, <2>3 DEF Unshadowed
  <1>14. Cataloged'
    <2> HIDE DEF I!CreateVenv, I!To, I!Fault, I!Removed
    <2>1. raced \/ probe.at # "out"
      BY <1>4 DEF Cataloged, Under
    <2>2. Changes(r)' /\ sw'[r].at \notin {"install", "remove", "replace"}
      BY <1>5 DEF Changes, Under
    <2>3. \A q \in Requests : q # r => sw'[q].at # "replace"
      BY <1>2, <1>3 DEF Under
    <2> QED BY <1>6, <2>1, <2>2, <2>3 DEF Cataloged
  <1> QED BY <1>7, <1>8, <1>9, <1>10, <1>11, <1>12, <1>13, <1>14 DEF InstallType

LEMMA PipKeepsInstall ==
    ASSUME InstallInv, NEW r \in Requests, I!Pip(r)
    PROVE  InstallInv'
  <1> USE InstallAssumption DEF InstallInv, I!None, I!Bundled, I!Own, I!NoFile, I!NoVenv, I!NoJob, I!NoProbe, I!disk, I!queue, I!counts, I!ghosts, I!Pip, I!At, I!To, I!Fault, I!Removed
  <1>1. sw[r] \in SwitchType
    BY DEF InstallType
  <1>2. \A q \in Requests : q # r => ~Under(q)
    BY DEF Guarded, Under
  <1>3. \A q \in Requests : q # r => sw'[q] = sw[q]
    BY DEF InstallType
  <1>4. sw[r].at = "pip"
    OBVIOUS
  <1>5. sw'[r].at \in {"check", "failed"}
    BY <1>1 DEF InstallType, SwitchType
  <1>6. UNCHANGED <<catalog, probe, raced, custom, torn>>
    OBVIOUS
  <1>7. DiskType'
    <2>1. I!NoFile \in [v : Nat, runs : BOOLEAN]
          /\ I!NoVenv \in [there : BOOLEAN, python : BOOLEAN, v : Nat, runs : BOOLEAN]
      OBVIOUS
    <2>2. [venv EXCEPT !.v = sw[r].v, !.runs = TRUE] \in [there : BOOLEAN, python : BOOLEAN, v : Nat, runs : BOOLEAN]
      BY <1>1 DEF InstallType, DiskType, SwitchType
    <2>3. \/ one' = one /\ (venv' = venv \/ venv' = [venv EXCEPT !.v = sw[r].v, !.runs = TRUE])
          \/ one' = I!NoFile /\ venv' = I!NoVenv
      OBVIOUS
    <2>4. UNCHANGED <<catalog, probe>>
      OBVIOUS
    <2> HIDE DEF I!Pip, I!Fault, I!Removed, I!NoFile, I!NoVenv
    <2> QED BY <2>1, <2>2, <2>3, <2>4 DEF InstallType, DiskType
  <1>8. RunType'
    <2>1. UNCHANGED <<custom, switching, running, paused, wanted, meddled, torn, raced, mixed, job>>
      OBVIOUS
    <2> HIDE DEF I!Pip, I!Fault, I!Removed
    <2> QED BY <2>1, Zenon DEF InstallType, RunType
  <1>9. (sw \in [Requests -> SwitchType])'
    BY DEF InstallType, SwitchType
  <1>10. Guarded'
    <2>1. switching' = switching
      OBVIOUS
    <2> HIDE DEF I!Pip, I!To, I!Fault, I!Removed
    <2> QED BY <1>2, <1>3, <1>4, <1>5, <2>1 DEF Guarded, Under
  <1>11. Unmixed'
    BY DEF InstallType, DiskType, RunType, SwitchType, Unmixed, Changes, Under, Guarded, I!Effective, I!Active, I!VenvAnswers, I!Answers
  <1>12. Held'
    BY SMTT(30) DEF InstallType, DiskType, RunType, SwitchType, Held, Changes, Under, Guarded
  <1>13. Unshadowed'
    <2>1. venv'.v # 0 => venv'.runs
      <3>1. \/ venv' = venv \/ venv' = I!NoVenv
            \/ venv' = [venv EXCEPT !.v = sw[r].v, !.runs = TRUE]
        OBVIOUS
      <3>2. [venv EXCEPT !.v = sw[r].v, !.runs = TRUE].runs
        BY DEF InstallType, DiskType
      <3>3. I!NoVenv.v = 0
        OBVIOUS
      <3> HIDE DEF I!Pip, I!Fault, I!Removed, I!NoVenv
      <3> QED BY <3>1, <3>2, <3>3 DEF Unshadowed
    <2>2. one' = one \/ one' = I!NoFile
      OBVIOUS
    <2>3. custom \/ torn \/ (one.v # 0 => one.runs)
      BY <1>2, <1>4 DEF Unshadowed, Under
    <2> HIDE DEF I!Pip, I!To, I!Fault, I!Removed
    <2> QED BY <1>6, <2>1, <2>2, <2>3 DEF Unshadowed
  <1>14. Cataloged'
    <2> HIDE DEF I!Pip, I!To, I!Fault, I!Removed
    <2>1. raced \/ probe.at # "out"
      BY <1>4 DEF Cataloged, Under
    <2>2. Changes(r)' /\ sw'[r].at \notin {"install", "remove", "replace"}
      BY <1>5 DEF Changes, Under
    <2>3. \A q \in Requests : q # r => sw'[q].at # "replace"
      BY <1>2, <1>3 DEF Under
    <2> QED BY <1>6, <2>1, <2>2, <2>3 DEF Cataloged
  <1> QED BY <1>7, <1>8, <1>9, <1>10, <1>11, <1>12, <1>13, <1>14 DEF InstallType

LEMMA CheckKeepsInstall ==
    ASSUME InstallInv, NEW r \in Requests, I!Check(r)
    PROVE  InstallInv'
  <1> USE InstallAssumption DEF InstallInv, I!None, I!Bundled, I!Own, I!NoFile, I!NoVenv, I!NoJob, I!NoProbe, I!disk, I!queue, I!counts, I!ghosts, I!Check, I!At, I!To, I!Fault, I!Removed
  <1>1. sw[r] \in SwitchType
    BY DEF InstallType
  <1>2. \A q \in Requests : q # r => ~Under(q)
    BY DEF Guarded, Under
  <1>3. \A q \in Requests : q # r => sw'[q] = sw[q]
    BY DEF InstallType
  <1>4. sw[r].at = "check"
    OBVIOUS
  <1>5. sw'[r].at \in {"version", "failed"}
    BY <1>1 DEF InstallType, SwitchType
  <1>6. UNCHANGED <<catalog, probe, raced, custom, torn>>
    OBVIOUS
  <1>7. DiskType'
    <2>1. I!NoFile \in [v : Nat, runs : BOOLEAN]
          /\ I!NoVenv \in [there : BOOLEAN, python : BOOLEAN, v : Nat, runs : BOOLEAN]
      OBVIOUS
    <2>2. UNCHANGED <<one, venv>> \/ (one' = I!NoFile /\ venv' = I!NoVenv)
      OBVIOUS
    <2>3. UNCHANGED <<catalog, probe>>
      OBVIOUS
    <2> HIDE DEF I!Check, I!Fault, I!Removed, I!NoFile, I!NoVenv
    <2> QED BY <2>1, <2>2, <2>3 DEF InstallType, DiskType
  <1>8. RunType'
    <2>1. UNCHANGED <<custom, switching, running, paused, wanted, meddled, torn, raced, mixed, job>>
      OBVIOUS
    <2> HIDE DEF I!Check, I!Fault, I!Removed
    <2> QED BY <2>1, Zenon DEF InstallType, RunType
  <1>9. (sw \in [Requests -> SwitchType])'
    BY DEF InstallType, SwitchType
  <1>10. Guarded'
    BY SMTT(30) DEF InstallType, DiskType, RunType, SwitchType, Guarded, Under
  <1>11. Unmixed'
    BY DEF InstallType, DiskType, RunType, SwitchType, Unmixed, Changes, Under, Guarded, I!Effective, I!Active, I!VenvAnswers, I!Answers
  <1>12. Held'
    BY SMTT(30) DEF InstallType, DiskType, RunType, SwitchType, Held, Changes, Under, Guarded
  <1>13. Unshadowed'
    BY DEF InstallType, DiskType, RunType, SwitchType, Unshadowed, Guarded, Under
  <1>14. Cataloged'
    <2> HIDE DEF I!Check, I!To, I!Fault, I!Removed
    <2>1. raced \/ probe.at # "out"
      BY <1>4 DEF Cataloged, Under
    <2>2. Changes(r)' /\ sw'[r].at \notin {"install", "remove", "replace"}
      BY <1>5 DEF Changes, Under
    <2>3. \A q \in Requests : q # r => sw'[q].at # "replace"
      BY <1>2, <1>3 DEF Under
    <2> QED BY <1>6, <2>1, <2>2, <2>3 DEF Cataloged
  <1> QED BY <1>7, <1>8, <1>9, <1>10, <1>11, <1>12, <1>13, <1>14 DEF InstallType

LEMMA FailedKeepsInstall ==
    ASSUME InstallInv, NEW r \in Requests, I!Failed(r)
    PROVE  InstallInv'
  <1> USE InstallAssumption DEF InstallInv, I!None, I!Bundled, I!Own, I!NoFile, I!NoVenv, I!NoJob, I!NoProbe, I!disk, I!queue, I!counts, I!ghosts, I!Failed, I!At, I!To
  <1>1. DiskType'
    BY DEF InstallType, DiskType
  <1>2. RunType'
    BY Zenon DEF InstallType, RunType
  <1>3. (sw \in [Requests -> SwitchType])'
    BY DEF InstallType, SwitchType
  <1>4. Guarded'
    BY DEF InstallType, DiskType, RunType, SwitchType, Guarded, Under
  <1>5. Unmixed'
    BY DEF InstallType, DiskType, RunType, SwitchType, Unmixed, Changes, Under, Guarded, I!Effective, I!Active, I!VenvAnswers, I!Answers
  <1>6. Held'
    BY DEF InstallType, DiskType, RunType, SwitchType, Held, Changes, Under, Guarded
  <1>7. Unshadowed'
    BY DEF InstallType, DiskType, RunType, SwitchType, Unshadowed, Guarded, Under
  <1>8. Cataloged'
    BY DEF InstallType, DiskType, RunType, SwitchType, Cataloged, Told, Changes, Under, Guarded, I!Effective, I!Active, I!VenvAnswers, I!Answers
  <1> QED BY <1>1, <1>2, <1>3, <1>4, <1>5, <1>6, <1>7, <1>8 DEF InstallType

LEMMA RemoveKeepsInstall ==
    ASSUME InstallInv, NEW r \in Requests, I!Remove(r)
    PROVE  InstallInv'
  <1> USE InstallAssumption DEF InstallInv, I!None, I!Bundled, I!Own, I!NoFile, I!NoVenv, I!NoJob, I!NoProbe, I!disk, I!queue, I!counts, I!ghosts, I!Remove, I!At, I!To, I!Fault, I!Removed
  <1>1. sw[r] \in SwitchType
    BY DEF InstallType
  <1>2. \A q \in Requests : q # r => ~Under(q)
    BY DEF Guarded, Under
  <1>3. \A q \in Requests : q # r => sw'[q] = sw[q]
    BY DEF InstallType
  <1>4. sw[r].at = "remove"
    OBVIOUS
  <1>5. sw'[r].at \in {"version", "done"} /\ sw'[r].waspaused = sw[r].waspaused
    BY <1>1 DEF InstallType, SwitchType
  <1>6. UNCHANGED <<paused, wanted, meddled>>
    OBVIOUS
  <1>7. DiskType'
    <2>1. I!NoFile \in [v : Nat, runs : BOOLEAN]
          /\ I!NoVenv \in [there : BOOLEAN, python : BOOLEAN, v : Nat, runs : BOOLEAN]
      OBVIOUS
    <2>2. UNCHANGED <<one, venv>> \/ (one' = I!NoFile /\ venv' = I!NoVenv)
      OBVIOUS
    <2>3. UNCHANGED <<catalog, probe>>
      OBVIOUS
    <2> HIDE DEF I!Remove, I!Fault, I!Removed, I!NoFile, I!NoVenv
    <2> QED BY <2>1, <2>2, <2>3 DEF InstallType, DiskType
  <1>8. RunType'
    BY ZenonT(30) DEF InstallType, RunType
  <1>9. (sw \in [Requests -> SwitchType])'
    BY DEF InstallType, SwitchType
  <1>10. Guarded'
    BY DEF InstallType, DiskType, RunType, SwitchType, Guarded, Under
  <1>11. Unmixed'
    BY DEF InstallType, DiskType, RunType, SwitchType, Unmixed, Changes, Under, Guarded, I!Effective, I!Active, I!VenvAnswers, I!Answers
  <1>12. Held'
    <2> HIDE DEF I!Remove, I!To, I!Fault, I!Removed
    <2> QED BY <1>2, <1>3, <1>4, <1>5, <1>6 DEF Held, Changes, Under
  <1>13. Unshadowed'
    BY SMTT(30) DEF InstallType, DiskType, RunType, SwitchType, Unshadowed, Guarded, Under
  <1>14. Cataloged'
    BY DEF InstallType, DiskType, RunType, SwitchType, Cataloged, Told, Changes, Under, Guarded, I!Effective, I!Active, I!VenvAnswers, I!Answers
  <1> QED BY <1>7, <1>8, <1>9, <1>10, <1>11, <1>12, <1>13, <1>14 DEF InstallType

LEMMA VersionKeepsInstall ==
    ASSUME InstallInv, NEW r \in Requests, I!Version(r)
    PROVE  InstallInv'
  <1> USE InstallAssumption DEF InstallInv, I!None, I!Bundled, I!Own, I!NoFile, I!NoVenv, I!NoJob, I!NoProbe, I!disk, I!queue, I!counts, I!ghosts, I!Version, I!At
  <1>1. sw[r] \in SwitchType
    BY DEF InstallType
  <1>2. \A q \in Requests : q # r => ~Under(q)
    BY DEF Guarded, Under
  <1>3. \A q \in Requests : q # r => sw'[q] = sw[q]
    BY DEF InstallType
  <1>4. sw[r].at = "version"
    OBVIOUS
  <1>5. sw'[r].at = "replace" /\ sw'[r].saw = I!Answers(I!Effective)
    BY <1>1, EffectiveType DEF InstallType, SwitchType
  <1>6. UNCHANGED <<catalog, probe, raced, custom, one, venv>>
    OBVIOUS
  <1>7. DiskType'
    BY DEF InstallType, DiskType
  <1>8. RunType'
    BY Zenon DEF InstallType, RunType
  <1>9. (sw \in [Requests -> SwitchType])'
    BY EffectiveType DEF InstallType, SwitchType
  <1>10. Guarded'
    BY DEF InstallType, DiskType, RunType, SwitchType, Guarded, Under
  <1>11. Unmixed'
    BY DEF InstallType, DiskType, RunType, SwitchType, Unmixed, Changes, Under, Guarded, I!Effective, I!Active, I!VenvAnswers, I!Answers
  <1>12. Held'
    BY DEF InstallType, DiskType, RunType, SwitchType, Held, Changes, Under, Guarded
  <1>13. Unshadowed'
    BY DEF InstallType, DiskType, RunType, SwitchType, Unshadowed, Guarded, Under
  <1>14. Cataloged'
    <2> HIDE DEF I!Version
    <2>1. raced \/ probe.at # "out"
      BY <1>4 DEF Cataloged, Under
    <2>2. Changes(r)' /\ sw'[r].at \notin {"install", "remove"}
      BY <1>5 DEF Changes, Under
    <2>3. \A q \in Requests : sw'[q].at = "replace" => q = r
      BY <1>2, <1>3 DEF Under
    <2>4. I!Answers(I!Effective)' = I!Answers(I!Effective)
      BY <1>6 DEF I!Answers, I!Effective, I!VenvAnswers
    <2> QED BY <1>5, <1>6, <2>1, <2>2, <2>3, <2>4 DEF Cataloged
  <1> QED BY <1>7, <1>8, <1>9, <1>10, <1>11, <1>12, <1>13, <1>14 DEF InstallType

LEMMA ReplaceKeepsInstall ==
    ASSUME InstallInv, NEW r \in Requests, I!Replace(r)
    PROVE  InstallInv'
  <1> USE InstallAssumption DEF InstallInv, I!None, I!Bundled, I!Own, I!NoFile, I!NoVenv, I!NoJob, I!NoProbe, I!disk, I!queue, I!counts, I!ghosts, I!Replace, I!At, I!To, I!Catalog
  <1>1. DiskType'
    <2>1. catalog' = [version |-> sw[r].saw, managed |-> I!Active]
      OBVIOUS
    <2>2. sw[r].saw \in Nat /\ I!Active \in BOOLEAN
      BY EffectiveType DEF InstallType, SwitchType
    <2>3. one' = one /\ venv' = venv /\ (probe' = probe \/ probe' = I!NoProbe)
      OBVIOUS
    <2> HIDE DEF I!Replace
    <2> QED BY <2>1, <2>2, <2>3 DEF InstallType, DiskType
  <1>2. RunType'
    BY Zenon DEF InstallType, RunType
  <1>3. (sw \in [Requests -> SwitchType])'
    BY DEF InstallType, SwitchType
  <1>4. Guarded'
    BY DEF InstallType, DiskType, RunType, SwitchType, Guarded, Under
  <1>5. Unmixed'
    BY DEF InstallType, DiskType, RunType, SwitchType, Unmixed, Changes, Under, Guarded, I!Effective, I!Active, I!VenvAnswers, I!Answers
  <1>6. Held'
    BY DEF InstallType, DiskType, RunType, SwitchType, Held, Changes, Under, Guarded
  <1>7. Unshadowed'
    BY DEF InstallType, DiskType, RunType, SwitchType, Unshadowed, Guarded, Under
  <1>8. Cataloged'
    BY DEF InstallType, DiskType, RunType, SwitchType, Cataloged, Told, Changes, Under, Guarded, I!Effective, I!Active, I!VenvAnswers, I!Answers
  <1> QED BY <1>1, <1>2, <1>3, <1>4, <1>5, <1>6, <1>7, <1>8 DEF InstallType

LEMMA ReconcileKeepsInstall ==
    ASSUME InstallInv, I!Reconcile
    PROVE  InstallInv'
  <1> USE InstallAssumption DEF InstallInv, I!None, I!Bundled, I!Own, I!NoFile, I!NoVenv, I!NoJob, I!NoProbe, I!disk, I!queue, I!counts, I!ghosts, I!Reconcile, I!Outlived, I!Busy
  <1>1. DiskType'
    <2>1. probe' = [at |-> "out", saw |-> I!Answers(I!Effective)]
      OBVIOUS
    <2>2. I!Answers(I!Effective) \in Nat
      BY EffectiveType
    <2>3. UNCHANGED <<one, venv, catalog>>
      OBVIOUS
    <2> HIDE DEF I!Reconcile
    <2> QED BY <2>1, <2>2, <2>3 DEF InstallType, DiskType
  <1>2. RunType'
    BY Zenon DEF InstallType, RunType
  <1>3. (sw \in [Requests -> SwitchType])'
    BY DEF InstallType, SwitchType
  <1>4. Guarded'
    BY DEF InstallType, DiskType, RunType, SwitchType, Guarded, Under
  <1>5. Unmixed'
    BY DEF InstallType, DiskType, RunType, SwitchType, Unmixed, Changes, Under, Guarded, I!Effective, I!Active, I!VenvAnswers, I!Answers
  <1>6. Held'
    BY DEF InstallType, DiskType, RunType, SwitchType, Held, Changes, Under, Guarded
  <1>7. Unshadowed'
    BY DEF InstallType, DiskType, RunType, SwitchType, Unshadowed, Guarded, Under
  <1>8. Cataloged'
    BY DEF InstallType, DiskType, RunType, SwitchType, Cataloged, Told, Changes, Under, Guarded, I!Effective, I!Active, I!VenvAnswers, I!Answers
  <1> QED BY <1>1, <1>2, <1>3, <1>4, <1>5, <1>6, <1>7, <1>8 DEF InstallType

LEMMA ReconciledKeepsInstall ==
    ASSUME InstallInv, I!Reconciled
    PROVE  InstallInv'
  <1> USE InstallAssumption DEF InstallInv, I!None, I!Bundled, I!Own, I!NoFile, I!NoVenv, I!NoJob, I!NoProbe, I!disk, I!queue, I!counts, I!ghosts, I!Reconciled, I!Catalog
  <1>1. DiskType'
    <2>1. catalog' = [version |-> probe.saw, managed |-> I!Active]
      OBVIOUS
    <2>2. probe.saw \in Nat /\ I!Active \in BOOLEAN
      BY EffectiveType DEF InstallType, DiskType
    <2>3. one' = one /\ venv' = venv /\ (probe' = probe \/ probe' = I!NoProbe)
      OBVIOUS
    <2> HIDE DEF I!Reconciled
    <2> QED BY <2>1, <2>2, <2>3 DEF InstallType, DiskType
  <1>2. RunType'
    BY Zenon DEF InstallType, RunType
  <1>3. (sw \in [Requests -> SwitchType])'
    BY DEF InstallType, SwitchType
  <1>4. Guarded'
    BY DEF InstallType, DiskType, RunType, SwitchType, Guarded, Under
  <1>5. Unmixed'
    BY DEF InstallType, DiskType, RunType, SwitchType, Unmixed, Changes, Under, Guarded, I!Effective, I!Active, I!VenvAnswers, I!Answers
  <1>6. Held'
    BY DEF InstallType, DiskType, RunType, SwitchType, Held, Changes, Under, Guarded
  <1>7. Unshadowed'
    BY DEF InstallType, DiskType, RunType, SwitchType, Unshadowed, Guarded, Under
  <1>8. Cataloged'
    BY DEF InstallType, DiskType, RunType, SwitchType, Cataloged, Told, Changes, Under, Guarded, I!Effective, I!Active, I!VenvAnswers, I!Answers
  <1> QED BY <1>1, <1>2, <1>3, <1>4, <1>5, <1>6, <1>7, <1>8 DEF InstallType

LEMMA StartJobKeepsInstall ==
    ASSUME InstallInv, I!StartJob
    PROVE  InstallInv'
  <1> USE InstallAssumption DEF InstallInv, I!None, I!Bundled, I!Own, I!NoFile, I!NoVenv, I!NoJob, I!NoProbe, I!disk, I!queue, I!counts, I!ghosts, I!StartJob
  <1>1. I!Effective.v \in Nat
    BY EffectiveType
  <1>2. meddled \in BOOLEAN
    BY Zenon DEF InstallType, RunType
  <1>3. job' = [at |-> "resolved", with |-> I!Effective.v, excused |-> meddled] /\ ~paused
    OBVIOUS
  <1>4. UNCHANGED <<custom, switching, running, paused, wanted, meddled, torn, raced, mixed>>
    OBVIOUS
  <1>5. job' \in [at : {"none", "resolved"}, with : Nat, excused : BOOLEAN]
    <2> HIDE DEF I!StartJob
    <2> QED BY <1>1, <1>2, <1>3
  <1>6. DiskType'
    BY DEF InstallType, DiskType
  <1>7. RunType'
    <2> HIDE DEF I!StartJob
    <2> QED BY <1>4, <1>5, Zenon DEF InstallType, RunType
  <1>8. (sw \in [Requests -> SwitchType])'
    BY DEF InstallType, SwitchType
  <1>9. Guarded'
    BY DEF InstallType, DiskType, RunType, SwitchType, Guarded, Under
  <1>10. Unmixed'
    <2>1. UNCHANGED <<sw, one, venv, custom>>
      OBVIOUS
    <2>2. (I!Effective.v)' = I!Effective.v
      BY <2>1 DEF I!Effective, I!VenvAnswers
    <2>3. \A q \in Requests : Changes(q) => meddled
      BY <1>3 DEF Held
    <2>4. job'.with = I!Effective.v /\ (meddled => job'.excused)
      BY <1>3
    <2> HIDE DEF I!StartJob
    <2> QED BY <1>4, <2>1, <2>2, <2>3, <2>4 DEF Unmixed, Changes, Under
  <1>11. Held'
    BY DEF InstallType, DiskType, RunType, SwitchType, Held, Changes, Under, Guarded
  <1>12. Unshadowed'
    BY DEF InstallType, DiskType, RunType, SwitchType, Unshadowed, Guarded, Under
  <1>13. Cataloged'
    BY DEF InstallType, DiskType, RunType, SwitchType, Cataloged, Told, Changes, Under, Guarded, I!Effective, I!Active, I!VenvAnswers, I!Answers
  <1> QED BY <1>6, <1>7, <1>8, <1>9, <1>10, <1>11, <1>12, <1>13 DEF InstallType

LEMMA EndJobKeepsInstall ==
    ASSUME InstallInv, I!EndJob
    PROVE  InstallInv'
  <1> USE InstallAssumption DEF InstallInv, I!None, I!Bundled, I!Own, I!NoFile, I!NoVenv, I!NoJob, I!NoProbe, I!disk, I!queue, I!counts, I!ghosts, I!EndJob
  <1>1. DiskType'
    BY DEF InstallType, DiskType
  <1>2. RunType'
    BY Zenon DEF InstallType, RunType
  <1>3. (sw \in [Requests -> SwitchType])'
    BY DEF InstallType, SwitchType
  <1>4. Guarded'
    BY DEF InstallType, DiskType, RunType, SwitchType, Guarded, Under
  <1>5. Unmixed'
    BY DEF InstallType, DiskType, RunType, SwitchType, Unmixed, Changes, Under, Guarded, I!Effective, I!Active, I!VenvAnswers, I!Answers
  <1>6. Held'
    BY DEF InstallType, DiskType, RunType, SwitchType, Held, Changes, Under, Guarded
  <1>7. Unshadowed'
    BY DEF InstallType, DiskType, RunType, SwitchType, Unshadowed, Guarded, Under
  <1>8. Cataloged'
    BY DEF InstallType, DiskType, RunType, SwitchType, Cataloged, Told, Changes, Under, Guarded, I!Effective, I!Active, I!VenvAnswers, I!Answers
  <1> QED BY <1>1, <1>2, <1>3, <1>4, <1>5, <1>6, <1>7, <1>8 DEF InstallType

LEMMA ToggleKeepsInstall ==
    ASSUME InstallInv, I!Toggle
    PROVE  InstallInv'
  <1> USE InstallAssumption DEF InstallInv, I!None, I!Bundled, I!Own, I!NoFile, I!NoVenv, I!NoJob, I!NoProbe, I!disk, I!queue, I!counts, I!ghosts, I!Toggle
  <1>1. DiskType'
    BY DEF InstallType, DiskType
  <1>2. RunType'
    BY Zenon DEF InstallType, RunType
  <1>3. (sw \in [Requests -> SwitchType])'
    BY DEF InstallType, SwitchType
  <1>4. Guarded'
    BY DEF InstallType, DiskType, RunType, SwitchType, Guarded, Under
  <1>5. Unmixed'
    BY DEF InstallType, DiskType, RunType, SwitchType, Unmixed, Changes, Under, Guarded, I!Effective, I!Active, I!VenvAnswers, I!Answers
  <1>6. Held'
    BY DEF InstallType, DiskType, RunType, SwitchType, Held, Changes, Under, Guarded
  <1>7. Unshadowed'
    BY DEF InstallType, DiskType, RunType, SwitchType, Unshadowed, Guarded, Under
  <1>8. Cataloged'
    BY DEF InstallType, DiskType, RunType, SwitchType, Cataloged, Told, Changes, Under, Guarded, I!Effective, I!Active, I!VenvAnswers, I!Answers
  <1> QED BY <1>1, <1>2, <1>3, <1>4, <1>5, <1>6, <1>7, <1>8 DEF InstallType

LEMMA RotKeepsInstall ==
    ASSUME InstallInv, I!Rot
    PROVE  InstallInv'
  <1> USE InstallAssumption DEF InstallInv, I!None, I!Bundled, I!Own, I!NoFile, I!NoVenv, I!NoJob, I!NoProbe, I!disk, I!queue, I!counts, I!ghosts, I!Rot, I!Busy
  <1>1. DiskType'
    BY DEF InstallType, DiskType
  <1>2. RunType'
    BY Zenon DEF InstallType, RunType
  <1>3. (sw \in [Requests -> SwitchType])'
    BY DEF InstallType, SwitchType
  <1>4. Guarded'
    BY DEF InstallType, DiskType, RunType, SwitchType, Guarded, Under
  <1>5. Unmixed'
    BY DEF InstallType, DiskType, RunType, SwitchType, Unmixed, Changes, Under, Guarded, I!Effective, I!Active, I!VenvAnswers, I!Answers
  <1>6. Held'
    BY DEF InstallType, DiskType, RunType, SwitchType, Held, Changes, Under, Guarded
  <1>7. Unshadowed'
    BY DEF InstallType, DiskType, RunType, SwitchType, Unshadowed, Guarded, Under
  <1>8. Cataloged'
    BY DEF InstallType, DiskType, RunType, SwitchType, Cataloged, Told, Changes, Under, Guarded, I!Effective, I!Active, I!VenvAnswers, I!Answers
  <1> QED BY <1>1, <1>2, <1>3, <1>4, <1>5, <1>6, <1>7, <1>8 DEF InstallType

LEMMA RestartKeepsInstall ==
    ASSUME InstallInv, I!Restart
    PROVE  InstallInv'
  <1> USE InstallAssumption DEF InstallInv, I!None, I!Bundled, I!Own, I!NoFile, I!NoVenv, I!NoJob, I!NoProbe, I!disk, I!queue, I!counts, I!ghosts, I!Restart, I!Catalog, I!Idle
  <1>1. DiskType'
    <2>1. catalog' = [version |-> I!Answers(I!Effective), managed |-> I!Active]
      OBVIOUS
    <2>2. I!Answers(I!Effective) \in Nat /\ I!Active \in BOOLEAN
      BY EffectiveType DEF InstallType, DiskType
    <2>3. one' = one /\ venv' = venv /\ (probe' = probe \/ probe' = I!NoProbe)
      OBVIOUS
    <2> HIDE DEF I!Restart
    <2> QED BY <2>1, <2>2, <2>3 DEF InstallType, DiskType
  <1>2. RunType'
    BY Zenon DEF InstallType, RunType
  <1>3. (sw \in [Requests -> SwitchType])'
    BY DEF InstallType, SwitchType
  <1>4. Guarded'
    BY DEF InstallType, DiskType, RunType, SwitchType, Guarded, Under
  <1>5. Unmixed'
    BY DEF InstallType, DiskType, RunType, SwitchType, Unmixed, Changes, Under, Guarded, I!Effective, I!Active, I!VenvAnswers, I!Answers
  <1>6. Held'
    BY DEF InstallType, DiskType, RunType, SwitchType, Held, Changes, Under, Guarded
  <1>7. Unshadowed'
    <2>1. torn \/ ~I!Effective.runs => torn'
      BY Zenon
    <2>2. UNCHANGED <<custom, one, venv>>
      OBVIOUS
    <2>3. ~custom /\ one.v # 0 => I!Effective = one
      BY DEF I!Effective
    <2> HIDE DEF I!Restart
    <2> QED BY <2>1, <2>2, <2>3 DEF Unshadowed
  <1>8. Cataloged'
    BY DEF InstallType, DiskType, RunType, SwitchType, Cataloged, Told, Changes, Under, Guarded, I!Effective, I!Active, I!VenvAnswers, I!Answers
  <1> QED BY <1>1, <1>2, <1>3, <1>4, <1>5, <1>6, <1>7, <1>8 DEF InstallType

LEMMA InstallStep == InstallInv /\ [I!Next]_(I!vars) => InstallInv'
  <1> SUFFICES ASSUME InstallInv, [I!Next]_(I!vars) PROVE InstallInv'
    OBVIOUS
  <1>1. CASE UNCHANGED I!vars
    <2> USE <1>1 DEF I!vars
    <2>1. InstallType'
      <3>1. DiskType'
        BY DEF InstallInv, InstallType, DiskType
      <3>2. RunType'
        BY Zenon DEF InstallInv, InstallType, RunType
      <3>3. (sw \in [Requests -> SwitchType])'
        BY DEF InstallInv, InstallType
      <3> QED BY <3>1, <3>2, <3>3 DEF InstallType
    <2>2. Guarded' /\ Held'
      BY DEF InstallInv, Guarded, Held, Under, Changes
    <2>3. I!Effective' = I!Effective /\ I!Active' = I!Active /\ I!Answers(I!Effective)' = I!Answers(I!Effective)
      BY DEF I!Effective, I!Active, I!VenvAnswers, I!Answers
    <2>4. Unmixed' /\ Unshadowed'
      BY <2>3 DEF InstallInv, Unmixed, Unshadowed, Under, Changes
    <2>5. Cataloged'
      BY <2>3 DEF InstallInv, Cataloged, Told, Under, Changes
    <2> QED BY <2>1, <2>2, <2>4, <2>5 DEF InstallInv
  <1>2. CASE \E r \in Requests : \/ I!Ask(r) \/ I!Guard(r) \/ I!ReadPaused(r) \/ I!Pause(r)
                                 \/ I!Count(r) \/ I!Done(r) \/ I!Tell(r) \/ I!Start(r) \/ I!Download(r)
    BY <1>2, AskKeepsInstall, GuardKeepsInstall, ReadPausedKeepsInstall, PauseKeepsInstall,
       CountKeepsInstall, DoneKeepsInstall, TellKeepsInstall, StartKeepsInstall, DownloadKeepsInstall
  <1>3. CASE \E r \in Requests : \/ I!Chmod(r) \/ I!Clean(r) \/ I!CreateVenv(r) \/ I!Pip(r) \/ I!Check(r)
                                 \/ I!Failed(r) \/ I!Remove(r) \/ I!Version(r) \/ I!Replace(r)
    BY <1>3, ChmodKeepsInstall, CleanKeepsInstall, CreateVenvKeepsInstall, PipKeepsInstall,
       CheckKeepsInstall, FailedKeepsInstall, RemoveKeepsInstall, VersionKeepsInstall, ReplaceKeepsInstall
  <1>4. CASE I!Reconcile \/ I!Reconciled \/ I!StartJob \/ I!EndJob \/ I!Toggle \/ I!Rot \/ I!Restart
    BY <1>4, ReconcileKeepsInstall, ReconciledKeepsInstall, StartJobKeepsInstall, EndJobKeepsInstall,
       ToggleKeepsInstall, RotKeepsInstall, RestartKeepsInstall
  <1> QED BY <1>1, <1>2, <1>3, <1>4 DEF I!Next

\* The invariant says what the run checks.
LEMMA InstallHolds ==
    InstallInv => I!NoMixedRun /\ I!NeverShadowed /\ I!CatalogTells /\ I!PauseRestored
  <1> SUFFICES ASSUME InstallInv
               PROVE  I!NoMixedRun /\ I!NeverShadowed /\ I!CatalogTells /\ I!PauseRestored
    OBVIOUS
  <1>1. I!NoMixedRun
    BY DEF InstallInv, Unmixed, I!NoMixedRun
  <1>2. I!Switched => \A r \in Requests : sw[r].at = "idle"
    BY DEF I!Switched, I!Idle
  <1>3. I!NeverShadowed
    <2> USE DEF InstallInv, Unshadowed, I!None
    <2>1. CASE custom
      BY <2>1 DEF I!NeverShadowed, I!Effective
    <2>2. CASE ~custom /\ I!Switched /\ ~torn
      <3>1. one.v # 0 => one.runs
        BY <1>2, <2>2
      <3> QED BY <2>2, <3>1 DEF I!NeverShadowed, I!Effective, I!VenvAnswers
    <2> QED BY <2>1, <2>2 DEF I!NeverShadowed
  <1>4. I!CatalogTells
    BY <1>2 DEF InstallInv, Cataloged, Told, Changes, Under, I!CatalogTells
  <1>5. I!PauseRestored
    BY <1>2 DEF InstallInv, Held, Under, I!PauseRestored
  <1> QED BY <1>1, <1>3, <1>4, <1>5

\* The invariant holds in every behaviour of the install (web/gallerydl.go).
LEMMA InstallAlwaysHolds == I!Spec => []InstallInv
  BY InstallStart, InstallStep, PTL DEF I!Spec

-----------------------------------------------------------------------------
\* The settings (Settings.tla).

Values == {0, 1, 2, 9}

\* What a request has left to do, by what it is and its next step.
SiteNeeded    == <<"needed", "write", "scan", "view", "save", "look", "lists", "gather", "look", "put">>
SiteWrite     == <<"write", "scan", "view", "save", "look", "lists", "gather", "look", "put">>
SiteScan      == <<"scan", "view", "save", "look", "lists", "gather", "look", "put">>
SiteView      == <<"view", "save", "look", "lists", "gather", "look", "put">>
SiteSave      == <<"save", "look", "lists", "gather", "look", "put">>
ResetNeeded   == <<"needed", "write", "scan", "view", "look", "lists", "gather", "look", "put">>
ResetWrite    == <<"write", "scan", "view", "look", "lists", "gather", "look", "put">>
ResetScan     == <<"scan", "view", "look", "lists", "gather", "look", "put">>
ResetView     == <<"view", "look", "lists", "gather", "look", "put">>
Relook        == <<"look", "lists", "gather", "look", "put">>
Relist        == <<"lists", "gather", "look", "put">>
RawSave       == <<"save", "gather", "look", "put">>
Regather      == <<"gather", "look", "put">>
WriteLook     == <<"look", "put">>
WritePut      == <<"put">>
FormSave      == <<"save", "gather", "look", "put", "readLimits", "pushLimits">>
FormGather    == <<"gather", "look", "put", "readLimits", "pushLimits">>
FormLook      == <<"look", "put", "readLimits", "pushLimits">>
FormPut       == <<"put", "readLimits", "pushLimits">>
LookupSave    == <<"save", "readLimits", "pushLimits">>
LimitsRead    == <<"readLimits", "pushLimits">>
LimitsPush    == <<"pushLimits">>
ChainTemplate == <<"template", "save">>
JustSave      == <<"save">>
KeySave       == <<"save", "readKey", "pushKey">>
KeyRead       == <<"readKey", "pushKey">>
KeyClear      == <<"save", "pushKey">>
KeyPush       == <<"pushKey">>

Walks == {<< >>, SiteNeeded, SiteWrite, SiteScan, SiteView, SiteSave,
          ResetNeeded, ResetWrite, ResetScan, ResetView, Relook, Relist,
          RawSave, Regather, WriteLook, WritePut, FormSave, FormGather, FormLook, FormPut,
          LookupSave, LimitsRead, LimitsPush, ChainTemplate, JustSave, KeySave, KeyRead, KeyClear, KeyPush}

HeldType == [site : Values, profile : S!Profiles, value : Values]
SetsType == UNION {[K -> Values] : K \in SUBSET S!Keys}
AskType  == [steps : Walks, sets : SetsType, profile : S!Profiles, held : HeldType,
             touches : SUBSET S!Derived, alone : BOOLEAN]

LayersType ==
    /\ file \in [S!Keys -> Values] /\ served \in [S!Keys -> Values] /\ over \subseteq EnvKeys
    /\ disk \in S!Profiles /\ view \in S!Profiles /\ lists \in S!Profiles
    /\ managed \in [site : Values, profile : S!Profiles]
    /\ pushed \in [limits : Values, key : Values]

\* What a request touches and posts goes with what it has left to do.
Way(q) ==
    \/ q.steps = << >> /\ q.touches = {}
    \/ q.touches = {} /\ q.steps = JustSave /\ DOMAIN q.sets = {"url"}
    \/ /\ q.touches = {"managed"}
       /\ \/ q.steps = RawSave /\ DOMAIN q.sets = {"site"}
          \/ q.steps \in {Regather, WriteLook, WritePut}
    \/ /\ q.touches = {"managed", "limits"}
       /\ \/ q.steps = FormSave /\ DOMAIN q.sets = {"site", "limits"}
          \/ q.steps \in {FormGather, FormLook, FormPut, LimitsRead, LimitsPush}
    \/ /\ q.touches = {"limits"}
       /\ \/ q.steps = LookupSave /\ DOMAIN q.sets = {"limits"}
          \/ q.steps \in {LimitsRead, LimitsPush}
    \/ q.touches = {"chain"} /\ q.steps \in {ChainTemplate, JustSave} /\ DOMAIN q.sets = {"chain"}
    \/ /\ q.touches = S!OfProfile
       /\ \/ q.steps \in {SiteNeeded, SiteWrite, SiteScan, SiteView, SiteSave} /\ DOMAIN q.sets = {"site"}
          \/ q.steps \in {ResetNeeded, ResetWrite, ResetScan, ResetView}
          \/ q.steps \in {Relook, Relist, Regather, WriteLook, WritePut}
    \/ /\ q.touches = {"lists", "managed"}
       /\ \/ q.steps = SiteSave /\ DOMAIN q.sets = {"site"}
          \/ q.steps \in {Relook, Relist, Regather, WriteLook, WritePut}
    \/ /\ q.touches = {"key"}
       /\ \/ q.steps = KeySave /\ DOMAIN q.sets = {"key"}
          \/ q.steps = KeyClear /\ DOMAIN q.sets = {"key"} /\ q.sets["key"] = S!Cleared /\ q.held.value = S!Cleared
          \/ q.steps \in {KeyRead, KeyPush}

\* The next step of a request is one of these.
Turn(q, heads) == q.steps # << >> /\ Head(q.steps) \in heads

\* Two requests that touch the same: neither is alone, and what they share is tainted.
Apart ==
    /\ "view" \in tainted => "chain" \in tainted
    /\ \A r, q \in Requests : r # q =>
          \A d \in req[r].touches \cap req[q].touches : d \in tainted /\ ~req[r].alone /\ ~req[q].alone

\* A request that has what it touches to itself, or is the first to.
Clear(q, d) == d \in q.touches /\ (d \notin tainted \/ q.alone)

\* What such a request has read still stands.
InHand(q) ==
    /\ Clear(q, "limits") /\ Turn(q, {"pushLimits"}) => q.held.value = served["limits"]
    /\ Clear(q, "key") /\ Turn(q, {"pushKey"}) => q.held.value = served["key"]
    /\ Clear(q, "view") /\ Turn(q, {"view"}) => q.held.profile = disk
    /\ Clear(q, "lists") /\ Turn(q, {"lists"}) => q.held.profile = view
    /\ Clear(q, "managed") /\ q.steps \in {WriteLook, FormLook, WritePut, FormPut} => q.held.site = served["site"]
    /\ Clear(q, "managed") /\ q.steps \in {WritePut, FormPut} => q.held.profile = view

\* Requests that have yet to bring each derived thing up to date, having changed what it follows.
ViewDue(q)    == Turn(q, {"scan", "view"})
ListsDue(q)   == "view" \in q.touches /\ (Turn(q, {"save", "lists"}) \/ q.steps = Relook)
ManagedDue(q) == /\ "managed" \in q.touches
                 /\ \/ Turn(q, {"look", "lists", "gather", "put"})
                    \/ "view" \in q.touches /\ Turn(q, {"save"})
PushDue(q, d) == d \in q.touches /\ ~Turn(q, {"save"})

\* What is derived is current, tainted or due.
ViewCurrent    == "view" \in tainted \/ view = disk \/ \E q \in Requests : ViewDue(req[q])
ListsCurrent   == "lists" \in tainted \/ lists = view \/ \E q \in Requests : ListsDue(req[q])
ManagedCurrent == \/ "managed" \in tainted \/ managed = [site |-> served["site"], profile |-> view]
                  \/ \E q \in Requests : ManagedDue(req[q])
PushedAt(d)    == d \in tainted \/ pushed[d] = served[d] \/ \E q \in Requests : PushDue(req[q], d)
PushedCurrent  == \A d \in {"limits", "key"} : PushedAt(d)

\* What a request is about to write keeps the search of a site in the chain.
Keeping(q) ==
    /\ Turn(q, {"write"}) => ~S!Needed(q.profile)
    /\ Turn(q, {"save"}) /\ q.touches = {"chain"} => q.sets["chain"] = 0 \/ S!Template(view)

\* A site of the chain keeps its search: on disk, in the view, and in what is
\* about to be written.
ChainKept ==
    "chain" \notin tainted =>
      /\ served["chain"] = 0 \/ (S!Template(view) /\ S!Template(disk))
      /\ \A q \in Requests : Keeping(req[q])

AsksType == req \in [Requests -> AskType] /\ \A q \in Requests : Way(req[q])

\* The inductive invariant of the settings.
SettingsInv ==
    /\ LayersType /\ AsksType /\ Apart /\ (\A q \in Requests : InHand(req[q]))
    /\ ViewCurrent /\ ListsCurrent /\ ManagedCurrent /\ PushedCurrent /\ ChainKept /\ S!TwoLayers

\* Each step and what is left after it.
LEMMA Walked ==
    /\ SiteNeeded # << >> /\ Head(SiteNeeded) = "needed" /\ Tail(SiteNeeded) = SiteWrite
    /\ SiteWrite # << >> /\ Head(SiteWrite) = "write" /\ Tail(SiteWrite) = SiteScan
    /\ SiteScan # << >> /\ Head(SiteScan) = "scan" /\ Tail(SiteScan) = SiteView
    /\ SiteView # << >> /\ Head(SiteView) = "view" /\ Tail(SiteView) = SiteSave
    /\ SiteSave # << >> /\ Head(SiteSave) = "save" /\ Tail(SiteSave) = Relook
    /\ ResetNeeded # << >> /\ Head(ResetNeeded) = "needed" /\ Tail(ResetNeeded) = ResetWrite
    /\ ResetWrite # << >> /\ Head(ResetWrite) = "write" /\ Tail(ResetWrite) = ResetScan
    /\ ResetScan # << >> /\ Head(ResetScan) = "scan" /\ Tail(ResetScan) = ResetView
    /\ ResetView # << >> /\ Head(ResetView) = "view" /\ Tail(ResetView) = Relook
    /\ Relook # << >> /\ Head(Relook) = "look" /\ Tail(Relook) = Relist
    /\ Relist # << >> /\ Head(Relist) = "lists" /\ Tail(Relist) = Regather
    /\ RawSave # << >> /\ Head(RawSave) = "save" /\ Tail(RawSave) = Regather
    /\ Regather # << >> /\ Head(Regather) = "gather" /\ Tail(Regather) = WriteLook
    /\ WriteLook # << >> /\ Head(WriteLook) = "look" /\ Tail(WriteLook) = WritePut
    /\ WritePut # << >> /\ Head(WritePut) = "put" /\ Tail(WritePut) = << >>
    /\ FormSave # << >> /\ Head(FormSave) = "save" /\ Tail(FormSave) = FormGather
    /\ FormGather # << >> /\ Head(FormGather) = "gather" /\ Tail(FormGather) = FormLook
    /\ FormLook # << >> /\ Head(FormLook) = "look" /\ Tail(FormLook) = FormPut
    /\ FormPut # << >> /\ Head(FormPut) = "put" /\ Tail(FormPut) = LimitsRead
    /\ LookupSave # << >> /\ Head(LookupSave) = "save" /\ Tail(LookupSave) = LimitsRead
    /\ LimitsRead # << >> /\ Head(LimitsRead) = "readLimits" /\ Tail(LimitsRead) = LimitsPush
    /\ LimitsPush # << >> /\ Head(LimitsPush) = "pushLimits" /\ Tail(LimitsPush) = << >>
    /\ ChainTemplate # << >> /\ Head(ChainTemplate) = "template" /\ Tail(ChainTemplate) = JustSave
    /\ JustSave # << >> /\ Head(JustSave) = "save" /\ Tail(JustSave) = << >>
    /\ KeySave # << >> /\ Head(KeySave) = "save" /\ Tail(KeySave) = KeyRead
    /\ KeyRead # << >> /\ Head(KeyRead) = "readKey" /\ Tail(KeyRead) = KeyPush
    /\ KeyClear # << >> /\ Head(KeyClear) = "save" /\ Tail(KeyClear) = KeyPush
    /\ KeyPush # << >> /\ Head(KeyPush) = "pushKey" /\ Tail(KeyPush) = << >>
  <1>1. SiteNeeded # << >> /\ Head(SiteNeeded) = "needed" /\ Tail(SiteNeeded) = SiteWrite
    BY SMT DEF SiteNeeded, SiteWrite
  <1>2. SiteWrite # << >> /\ Head(SiteWrite) = "write" /\ Tail(SiteWrite) = SiteScan
    BY SMT DEF SiteWrite, SiteScan
  <1>3. SiteScan # << >> /\ Head(SiteScan) = "scan" /\ Tail(SiteScan) = SiteView
    BY SMT DEF SiteScan, SiteView
  <1>4. SiteView # << >> /\ Head(SiteView) = "view" /\ Tail(SiteView) = SiteSave
    BY SMT DEF SiteView, SiteSave
  <1>5. SiteSave # << >> /\ Head(SiteSave) = "save" /\ Tail(SiteSave) = Relook
    BY SMT DEF SiteSave, Relook
  <1>6. ResetNeeded # << >> /\ Head(ResetNeeded) = "needed" /\ Tail(ResetNeeded) = ResetWrite
    BY SMT DEF ResetNeeded, ResetWrite
  <1>7. ResetWrite # << >> /\ Head(ResetWrite) = "write" /\ Tail(ResetWrite) = ResetScan
    BY SMT DEF ResetWrite, ResetScan
  <1>8. ResetScan # << >> /\ Head(ResetScan) = "scan" /\ Tail(ResetScan) = ResetView
    BY SMT DEF ResetScan, ResetView
  <1>9. ResetView # << >> /\ Head(ResetView) = "view" /\ Tail(ResetView) = Relook
    BY SMT DEF ResetView, Relook
  <1>10. Relook # << >> /\ Head(Relook) = "look" /\ Tail(Relook) = Relist
    BY SMT DEF Relook, Relist
  <1>11. Relist # << >> /\ Head(Relist) = "lists" /\ Tail(Relist) = Regather
    BY SMT DEF Relist, Regather
  <1>12. RawSave # << >> /\ Head(RawSave) = "save" /\ Tail(RawSave) = Regather
    BY SMT DEF RawSave, Regather
  <1>13. Regather # << >> /\ Head(Regather) = "gather" /\ Tail(Regather) = WriteLook
    BY SMT DEF Regather, WriteLook
  <1>14. WriteLook # << >> /\ Head(WriteLook) = "look" /\ Tail(WriteLook) = WritePut
    BY SMT DEF WriteLook, WritePut
  <1>15. WritePut # << >> /\ Head(WritePut) = "put" /\ Tail(WritePut) = << >>
    BY DEF WritePut
  <1>16. FormSave # << >> /\ Head(FormSave) = "save" /\ Tail(FormSave) = FormGather
    BY SMT DEF FormSave, FormGather
  <1>17. FormGather # << >> /\ Head(FormGather) = "gather" /\ Tail(FormGather) = FormLook
    BY SMT DEF FormGather, FormLook
  <1>18. FormLook # << >> /\ Head(FormLook) = "look" /\ Tail(FormLook) = FormPut
    BY SMT DEF FormLook, FormPut
  <1>19. FormPut # << >> /\ Head(FormPut) = "put" /\ Tail(FormPut) = LimitsRead
    BY SMT DEF FormPut, LimitsRead
  <1>20. LookupSave # << >> /\ Head(LookupSave) = "save" /\ Tail(LookupSave) = LimitsRead
    BY SMT DEF LookupSave, LimitsRead
  <1>21. LimitsRead # << >> /\ Head(LimitsRead) = "readLimits" /\ Tail(LimitsRead) = LimitsPush
    BY SMT DEF LimitsRead, LimitsPush
  <1>22. LimitsPush # << >> /\ Head(LimitsPush) = "pushLimits" /\ Tail(LimitsPush) = << >>
    BY DEF LimitsPush
  <1>23. ChainTemplate # << >> /\ Head(ChainTemplate) = "template" /\ Tail(ChainTemplate) = JustSave
    BY SMT DEF ChainTemplate, JustSave
  <1>24. JustSave # << >> /\ Head(JustSave) = "save" /\ Tail(JustSave) = << >>
    BY DEF JustSave
  <1>25. KeySave # << >> /\ Head(KeySave) = "save" /\ Tail(KeySave) = KeyRead
    BY SMT DEF KeySave, KeyRead
  <1>26. KeyRead # << >> /\ Head(KeyRead) = "readKey" /\ Tail(KeyRead) = KeyPush
    BY SMT DEF KeyRead, KeyPush
  <1>27. KeyClear # << >> /\ Head(KeyClear) = "save" /\ Tail(KeyClear) = KeyPush
    BY SMT DEF KeyClear, KeyPush
  <1>28. KeyPush # << >> /\ Head(KeyPush) = "pushKey" /\ Tail(KeyPush) = << >>
    BY DEF KeyPush
  <1> QED BY <1>1, <1>2, <1>3, <1>4, <1>5, <1>6, <1>7, <1>8, <1>9, <1>10, <1>11, <1>12, <1>13, <1>14, <1>15, <1>16, <1>17, <1>18, <1>19, <1>20, <1>21, <1>22, <1>23, <1>24, <1>25, <1>26, <1>27, <1>28

\* The step each begins with.
LEMMA Headed ==
    /\ Head(SiteNeeded) = "needed"
    /\ Head(SiteWrite) = "write"
    /\ Head(SiteScan) = "scan"
    /\ Head(SiteView) = "view"
    /\ Head(SiteSave) = "save"
    /\ Head(ResetNeeded) = "needed"
    /\ Head(ResetWrite) = "write"
    /\ Head(ResetScan) = "scan"
    /\ Head(ResetView) = "view"
    /\ Head(Relook) = "look"
    /\ Head(Relist) = "lists"
    /\ Head(RawSave) = "save"
    /\ Head(Regather) = "gather"
    /\ Head(WriteLook) = "look"
    /\ Head(WritePut) = "put"
    /\ Head(FormSave) = "save"
    /\ Head(FormGather) = "gather"
    /\ Head(FormLook) = "look"
    /\ Head(FormPut) = "put"
    /\ Head(LookupSave) = "save"
    /\ Head(LimitsRead) = "readLimits"
    /\ Head(LimitsPush) = "pushLimits"
    /\ Head(ChainTemplate) = "template"
    /\ Head(JustSave) = "save"
    /\ Head(KeySave) = "save"
    /\ Head(KeyRead) = "readKey"
    /\ Head(KeyClear) = "save"
    /\ Head(KeyPush) = "pushKey"
  BY Walked, Zenon

\* And what it leaves.
LEMMA Tailed ==
    /\ Tail(SiteNeeded) = SiteWrite
    /\ Tail(SiteWrite) = SiteScan
    /\ Tail(SiteScan) = SiteView
    /\ Tail(SiteView) = SiteSave
    /\ Tail(SiteSave) = Relook
    /\ Tail(ResetNeeded) = ResetWrite
    /\ Tail(ResetWrite) = ResetScan
    /\ Tail(ResetScan) = ResetView
    /\ Tail(ResetView) = Relook
    /\ Tail(Relook) = Relist
    /\ Tail(Relist) = Regather
    /\ Tail(RawSave) = Regather
    /\ Tail(Regather) = WriteLook
    /\ Tail(WriteLook) = WritePut
    /\ Tail(WritePut) = << >>
    /\ Tail(FormSave) = FormGather
    /\ Tail(FormGather) = FormLook
    /\ Tail(FormLook) = FormPut
    /\ Tail(FormPut) = LimitsRead
    /\ Tail(LookupSave) = LimitsRead
    /\ Tail(LimitsRead) = LimitsPush
    /\ Tail(LimitsPush) = << >>
    /\ Tail(ChainTemplate) = JustSave
    /\ Tail(JustSave) = << >>
    /\ Tail(KeySave) = KeyRead
    /\ Tail(KeyRead) = KeyPush
    /\ Tail(KeyClear) = KeyPush
    /\ Tail(KeyPush) = << >>
  BY Walked, Zenon

\* Where a request stands when its next step is the one named.
LEMMA WayAt ==
    ASSUME NEW q, Way(q), q.steps # << >>
    PROVE  /\ Head(q.steps) = "needed" => q.touches = S!OfProfile /\ q.steps \in {SiteNeeded, ResetNeeded}
           /\ Head(q.steps) = "write" => q.touches = S!OfProfile /\ q.steps \in {SiteWrite, ResetWrite}
           /\ Head(q.steps) = "scan" => q.touches = S!OfProfile /\ q.steps \in {SiteScan, ResetScan}
           /\ Head(q.steps) = "view" => q.touches = S!OfProfile /\ q.steps \in {SiteView, ResetView}
           /\ Head(q.steps) = "template" => q.touches = {"chain"} /\ q.steps = ChainTemplate
           /\ Head(q.steps) = "look" => "managed" \in q.touches /\ q.steps \in {Relook, WriteLook, FormLook}
           /\ Head(q.steps) = "lists" => {"lists", "managed"} \subseteq q.touches /\ q.steps = Relist
           /\ Head(q.steps) = "gather" => "managed" \in q.touches /\ q.steps \in {Regather, FormGather}
           /\ Head(q.steps) = "put" => "managed" \in q.touches /\ q.steps \in {WritePut, FormPut}
           /\ Head(q.steps) = "readLimits" => "limits" \in q.touches /\ q.steps = LimitsRead
           /\ Head(q.steps) = "pushLimits" => "limits" \in q.touches /\ q.steps = LimitsPush
           /\ Head(q.steps) = "readKey" => "key" \in q.touches /\ q.steps = KeyRead
           /\ Head(q.steps) = "pushKey" => "key" \in q.touches /\ q.steps = KeyPush
           /\ Head(q.steps) = "save" =>
                \/ q.steps = JustSave /\ q.touches = {} /\ DOMAIN q.sets = {"url"}
                \/ q.steps = JustSave /\ q.touches = {"chain"} /\ DOMAIN q.sets = {"chain"}
                \/ q.steps = RawSave /\ q.touches = {"managed"} /\ DOMAIN q.sets = {"site"}
                \/ q.steps = FormSave /\ q.touches = {"managed", "limits"} /\ DOMAIN q.sets = {"site", "limits"}
                \/ q.steps = LookupSave /\ q.touches = {"limits"} /\ DOMAIN q.sets = {"limits"}
                \/ q.steps = SiteSave /\ q.touches = S!OfProfile /\ DOMAIN q.sets = {"site"}
                \/ q.steps = SiteSave /\ q.touches = {"lists", "managed"} /\ DOMAIN q.sets = {"site"}
                \/ q.steps = KeySave /\ q.touches = {"key"} /\ DOMAIN q.sets = {"key"}
                \/ /\ q.steps = KeyClear /\ q.touches = {"key"} /\ DOMAIN q.sets = {"key"}
                   /\ q.sets["key"] = S!Cleared /\ q.held.value = S!Cleared
           /\ Head(q.steps) \in {"needed", "write", "scan", "view", "template", "look", "lists", "gather", "put",
                                 "readLimits", "pushLimits", "readKey", "pushKey", "save"}
  <1>1. CASE q.touches = {} /\ q.steps = JustSave /\ DOMAIN q.sets = {"url"}
    BY <1>1, Headed
  <1>2. CASE q.touches = {"managed"} /\ q.steps = RawSave /\ DOMAIN q.sets = {"site"}
    BY <1>2, Headed
  <1>3. CASE q.touches = {"managed"} /\ q.steps \in {Regather, WriteLook, WritePut}
    <2>1. CASE q.steps = Regather
      BY <1>3, <2>1, Headed
    <2>2. CASE q.steps = WriteLook
      BY <1>3, <2>2, Headed
    <2>3. CASE q.steps = WritePut
      BY <1>3, <2>3, Headed
    <2> QED BY <1>3, <2>1, <2>2, <2>3
  <1>4. CASE q.touches = {"managed", "limits"} /\ q.steps = FormSave /\ DOMAIN q.sets = {"site", "limits"}
    BY <1>4, Headed
  <1>5. CASE q.touches = {"managed", "limits"} /\ q.steps \in {FormGather, FormLook, FormPut, LimitsRead, LimitsPush}
    <2>1. CASE q.steps = FormGather
      BY <1>5, <2>1, Headed
    <2>2. CASE q.steps = FormLook
      BY <1>5, <2>2, Headed
    <2>3. CASE q.steps = FormPut
      BY <1>5, <2>3, Headed
    <2>4. CASE q.steps = LimitsRead
      BY <1>5, <2>4, Headed
    <2>5. CASE q.steps = LimitsPush
      BY <1>5, <2>5, Headed
    <2> QED BY <1>5, <2>1, <2>2, <2>3, <2>4, <2>5
  <1>6. CASE q.touches = {"limits"} /\ q.steps = LookupSave /\ DOMAIN q.sets = {"limits"}
    BY <1>6, Headed
  <1>7. CASE q.touches = {"limits"} /\ q.steps \in {LimitsRead, LimitsPush}
    <2>1. CASE q.steps = LimitsRead
      BY <1>7, <2>1, Headed
    <2>2. CASE q.steps = LimitsPush
      BY <1>7, <2>2, Headed
    <2> QED BY <1>7, <2>1, <2>2
  <1>8. CASE q.touches = {"chain"} /\ q.steps \in {ChainTemplate, JustSave} /\ DOMAIN q.sets = {"chain"}
    <2>1. CASE q.steps = ChainTemplate
      BY <1>8, <2>1, Headed
    <2>2. CASE q.steps = JustSave
      BY <1>8, <2>2, Headed
    <2> QED BY <1>8, <2>1, <2>2
  <1>9. CASE q.touches = S!OfProfile /\ q.steps \in {SiteNeeded, SiteWrite, SiteScan, SiteView, SiteSave} /\ DOMAIN q.sets = {"site"}
    <2>1. CASE q.steps = SiteNeeded
      BY <1>9, <2>1, Headed DEF S!OfProfile
    <2>2. CASE q.steps = SiteWrite
      BY <1>9, <2>2, Headed DEF S!OfProfile
    <2>3. CASE q.steps = SiteScan
      BY <1>9, <2>3, Headed DEF S!OfProfile
    <2>4. CASE q.steps = SiteView
      BY <1>9, <2>4, Headed DEF S!OfProfile
    <2>5. CASE q.steps = SiteSave
      BY <1>9, <2>5, Headed DEF S!OfProfile
    <2> QED BY <1>9, <2>1, <2>2, <2>3, <2>4, <2>5
  <1>10. CASE q.touches = S!OfProfile /\ q.steps \in {ResetNeeded, ResetWrite, ResetScan, ResetView}
    <2>1. CASE q.steps = ResetNeeded
      BY <1>10, <2>1, Headed DEF S!OfProfile
    <2>2. CASE q.steps = ResetWrite
      BY <1>10, <2>2, Headed DEF S!OfProfile
    <2>3. CASE q.steps = ResetScan
      BY <1>10, <2>3, Headed DEF S!OfProfile
    <2>4. CASE q.steps = ResetView
      BY <1>10, <2>4, Headed DEF S!OfProfile
    <2> QED BY <1>10, <2>1, <2>2, <2>3, <2>4
  <1>11. CASE q.touches = S!OfProfile /\ q.steps \in {Relook, Relist, Regather, WriteLook, WritePut}
    <2>1. CASE q.steps = Relook
      BY <1>11, <2>1, Headed DEF S!OfProfile
    <2>2. CASE q.steps = Relist
      BY <1>11, <2>2, Headed DEF S!OfProfile
    <2>3. CASE q.steps = Regather
      BY <1>11, <2>3, Headed DEF S!OfProfile
    <2>4. CASE q.steps = WriteLook
      BY <1>11, <2>4, Headed DEF S!OfProfile
    <2>5. CASE q.steps = WritePut
      BY <1>11, <2>5, Headed DEF S!OfProfile
    <2> QED BY <1>11, <2>1, <2>2, <2>3, <2>4, <2>5
  <1>12. CASE q.touches = {"lists", "managed"} /\ q.steps = SiteSave /\ DOMAIN q.sets = {"site"}
    BY <1>12, Headed
  <1>13. CASE q.touches = {"lists", "managed"} /\ q.steps \in {Relook, Relist, Regather, WriteLook, WritePut}
    <2>1. CASE q.steps = Relook
      BY <1>13, <2>1, Headed
    <2>2. CASE q.steps = Relist
      BY <1>13, <2>2, Headed
    <2>3. CASE q.steps = Regather
      BY <1>13, <2>3, Headed
    <2>4. CASE q.steps = WriteLook
      BY <1>13, <2>4, Headed
    <2>5. CASE q.steps = WritePut
      BY <1>13, <2>5, Headed
    <2> QED BY <1>13, <2>1, <2>2, <2>3, <2>4, <2>5
  <1>14. CASE q.touches = {"key"} /\ q.steps = KeySave /\ DOMAIN q.sets = {"key"}
    BY <1>14, Headed
  <1>15. CASE q.touches = {"key"} /\ q.steps = KeyClear /\ DOMAIN q.sets = {"key"} /\ q.sets["key"] = S!Cleared /\ q.held.value = S!Cleared
    BY <1>15, Headed
  <1>16. CASE q.touches = {"key"} /\ q.steps \in {KeyRead, KeyPush}
    <2>1. CASE q.steps = KeyRead
      BY <1>16, <2>1, Headed
    <2>2. CASE q.steps = KeyPush
      BY <1>16, <2>2, Headed
    <2> QED BY <1>16, <2>1, <2>2
  <1> QED BY <1>1, <1>2, <1>3, <1>4, <1>5, <1>6, <1>7, <1>8, <1>9, <1>10, <1>11, <1>12, <1>13, <1>14, <1>15, <1>16, Zenon DEF Way

\* And what a step of it leaves is a way to go on.
LEMMA WayOn ==
    ASSUME NEW q, Way(q), q.steps # << >>, NEW w, w.steps = Tail(q.steps), w.touches = q.touches, w.sets = q.sets
    PROVE  w.steps \in Walks /\ (w.steps # << >> => Way(w))
  <1> USE DEF Way, Walks
  <1>1. CASE q.touches = {} /\ q.steps = JustSave /\ DOMAIN q.sets = {"url"}
    BY <1>1, Tailed
  <1>2. CASE q.touches = {"managed"} /\ q.steps = RawSave /\ DOMAIN q.sets = {"site"}
    BY <1>2, Tailed
  <1>3. CASE q.touches = {"managed"} /\ q.steps \in {Regather, WriteLook, WritePut}
    <2>1. CASE q.steps = Regather
      BY <1>3, <2>1, Tailed
    <2>2. CASE q.steps = WriteLook
      BY <1>3, <2>2, Tailed
    <2>3. CASE q.steps = WritePut
      BY <1>3, <2>3, Tailed
    <2> QED BY <1>3, <2>1, <2>2, <2>3, Zenon
  <1>4. CASE q.touches = {"managed", "limits"} /\ q.steps = FormSave /\ DOMAIN q.sets = {"site", "limits"}
    BY <1>4, Tailed
  <1>5. CASE q.touches = {"managed", "limits"} /\ q.steps \in {FormGather, FormLook, FormPut, LimitsRead, LimitsPush}
    <2>1. CASE q.steps = FormGather
      BY <1>5, <2>1, Tailed
    <2>2. CASE q.steps = FormLook
      BY <1>5, <2>2, Tailed
    <2>3. CASE q.steps = FormPut
      BY <1>5, <2>3, Tailed
    <2>4. CASE q.steps = LimitsRead
      BY <1>5, <2>4, Tailed
    <2>5. CASE q.steps = LimitsPush
      BY <1>5, <2>5, Tailed
    <2> QED BY <1>5, <2>1, <2>2, <2>3, <2>4, <2>5, Zenon
  <1>6. CASE q.touches = {"limits"} /\ q.steps = LookupSave /\ DOMAIN q.sets = {"limits"}
    BY <1>6, Tailed
  <1>7. CASE q.touches = {"limits"} /\ q.steps \in {LimitsRead, LimitsPush}
    <2>1. CASE q.steps = LimitsRead
      BY <1>7, <2>1, Tailed
    <2>2. CASE q.steps = LimitsPush
      BY <1>7, <2>2, Tailed
    <2> QED BY <1>7, <2>1, <2>2, Zenon
  <1>8. CASE q.touches = {"chain"} /\ q.steps \in {ChainTemplate, JustSave} /\ DOMAIN q.sets = {"chain"}
    <2>1. CASE q.steps = ChainTemplate
      BY <1>8, <2>1, Tailed
    <2>2. CASE q.steps = JustSave
      BY <1>8, <2>2, Tailed
    <2> QED BY <1>8, <2>1, <2>2, Zenon
  <1>9. CASE q.touches = S!OfProfile /\ q.steps \in {SiteNeeded, SiteWrite, SiteScan, SiteView, SiteSave} /\ DOMAIN q.sets = {"site"}
    <2>1. CASE q.steps = SiteNeeded
      BY <1>9, <2>1, Tailed
    <2>2. CASE q.steps = SiteWrite
      BY <1>9, <2>2, Tailed
    <2>3. CASE q.steps = SiteScan
      BY <1>9, <2>3, Tailed
    <2>4. CASE q.steps = SiteView
      BY <1>9, <2>4, Tailed
    <2>5. CASE q.steps = SiteSave
      BY <1>9, <2>5, Tailed
    <2> QED BY <1>9, <2>1, <2>2, <2>3, <2>4, <2>5, Zenon
  <1>10. CASE q.touches = S!OfProfile /\ q.steps \in {ResetNeeded, ResetWrite, ResetScan, ResetView}
    <2>1. CASE q.steps = ResetNeeded
      BY <1>10, <2>1, Tailed
    <2>2. CASE q.steps = ResetWrite
      BY <1>10, <2>2, Tailed
    <2>3. CASE q.steps = ResetScan
      BY <1>10, <2>3, Tailed
    <2>4. CASE q.steps = ResetView
      BY <1>10, <2>4, Tailed
    <2> QED BY <1>10, <2>1, <2>2, <2>3, <2>4, Zenon
  <1>11. CASE q.touches = S!OfProfile /\ q.steps \in {Relook, Relist, Regather, WriteLook, WritePut}
    <2>1. CASE q.steps = Relook
      BY <1>11, <2>1, Tailed
    <2>2. CASE q.steps = Relist
      BY <1>11, <2>2, Tailed
    <2>3. CASE q.steps = Regather
      BY <1>11, <2>3, Tailed
    <2>4. CASE q.steps = WriteLook
      BY <1>11, <2>4, Tailed
    <2>5. CASE q.steps = WritePut
      BY <1>11, <2>5, Tailed
    <2> QED BY <1>11, <2>1, <2>2, <2>3, <2>4, <2>5, Zenon
  <1>12. CASE q.touches = {"lists", "managed"} /\ q.steps = SiteSave /\ DOMAIN q.sets = {"site"}
    BY <1>12, Tailed
  <1>13. CASE q.touches = {"lists", "managed"} /\ q.steps \in {Relook, Relist, Regather, WriteLook, WritePut}
    <2>1. CASE q.steps = Relook
      BY <1>13, <2>1, Tailed
    <2>2. CASE q.steps = Relist
      BY <1>13, <2>2, Tailed
    <2>3. CASE q.steps = Regather
      BY <1>13, <2>3, Tailed
    <2>4. CASE q.steps = WriteLook
      BY <1>13, <2>4, Tailed
    <2>5. CASE q.steps = WritePut
      BY <1>13, <2>5, Tailed
    <2> QED BY <1>13, <2>1, <2>2, <2>3, <2>4, <2>5, Zenon
  <1>14. CASE q.touches = {"key"} /\ q.steps = KeySave /\ DOMAIN q.sets = {"key"}
    BY <1>14, Tailed
  <1>15. CASE q.touches = {"key"} /\ q.steps = KeyClear /\ DOMAIN q.sets = {"key"} /\ q.sets["key"] = S!Cleared /\ q.held.value = S!Cleared
    BY <1>15, Tailed
  <1>16. CASE q.touches = {"key"} /\ q.steps \in {KeyRead, KeyPush}
    <2>1. CASE q.steps = KeyRead
      BY <1>16, <2>1, Tailed
    <2>2. CASE q.steps = KeyPush
      BY <1>16, <2>2, Tailed
    <2> QED BY <1>16, <2>1, <2>2, Zenon
  <1> QED BY <1>1, <1>2, <1>3, <1>4, <1>5, <1>6, <1>7, <1>8, <1>9, <1>10, <1>11, <1>12, <1>13, <1>14, <1>15, <1>16, Zenon

\* A step of r: the other requests stay as they are, and r goes on or is over.
Moves(r) ==
    /\ req' = [req EXCEPT ![r] = req'[r]]
    /\ req'[r] \in AskType /\ Way(req'[r])
    /\ \/ req'[r].touches = {}
       \/ req'[r].touches = req[r].touches /\ req'[r].alone = req[r].alone

\* And changes no more than r touches.
Within(r) ==
    /\ \A d \in {"limits", "key"} : served'[d] # served[d] => d \in req[r].touches
    /\ served'["site"] # served["site"] => "managed" \in req[r].touches
    /\ disk' # disk => "view" \in req[r].touches
    /\ view' # view => {"lists", "managed"} \subseteq req[r].touches
    /\ \A d \in tainted \ tainted' : d \in req[r].touches /\ req[r].alone
    /\ "view" \in tainted' => "chain" \in tainted'

LEMMA IdleIs == S!Idle \in AskType /\ Way(S!Idle) /\ S!Idle.touches = {} /\ S!Idle.steps = << >>
  <1>1. << >> \in [{} -> Values]
    OBVIOUS
  <1>2. << >> \in SetsType
    BY <1>1 DEF SetsType
  <1> QED BY <1>2 DEF S!Idle, AskType, HeldType, S!Held, Walks, Way, Values, S!Profiles, S!Cleared

LEMMA MovesOn ==
    ASSUME AsksType, NEW r \in Requests, req[r].steps # << >>, NEW w \in AskType, S!Moved(r, w),
           w.touches = req[r].touches, w.alone = req[r].alone, w.sets = req[r].sets
    PROVE  /\ Moves(r)
           /\ Tail(req[r].steps) = << >> => req'[r] = S!Idle
           /\ Tail(req[r].steps) # << >> =>
                /\ req'[r].steps = Tail(req[r].steps) /\ req'[r].touches = req[r].touches
                /\ req'[r].alone = req[r].alone /\ req'[r].sets = req[r].sets
                /\ req'[r].held = w.held /\ req'[r].profile = w.profile
  <1> DEFINE t == Tail(req[r].steps)
             n == [w EXCEPT !.steps = t]
  <1>1. /\ n.steps = t /\ n.touches = w.touches /\ n.alone = w.alone /\ n.sets = w.sets
        /\ n.held = w.held /\ n.profile = w.profile
    BY DEF AskType
  <1>2. t \in Walks /\ (t # << >> => Way(n))
    BY <1>1, WayOn DEF AsksType
  <1>3. n \in AskType
    BY <1>2 DEF AskType
  <1>4. req' = [req EXCEPT ![r] = IF t = << >> THEN S!Idle ELSE n]
    BY Zenon DEF S!Moved
  <1>5. req'[r] = IF t = << >> THEN S!Idle ELSE n
    BY <1>4 DEF AsksType
  <1> HIDE DEF n, t
  <1>6. Moves(r)
    BY <1>1, <1>2, <1>3, <1>4, <1>5, IdleIs DEF Moves
  <1> QED BY <1>1, <1>5, <1>6 DEF t

LEMMA EndsOff ==
    ASSUME AsksType, NEW r \in Requests, S!Ends(r)
    PROVE  Moves(r) /\ req'[r] = S!Idle
  BY IdleIs DEF S!Ends, Moves, AsksType

LEMMA StepLeaves ==
    ASSUME AsksType, Apart, \A q \in Requests : InHand(req[q]), NEW r \in Requests, Moves(r), Within(r)
    PROVE  AsksType' /\ Apart' /\ \A p \in Requests : p # r => InHand(req[p])'
  <1>1. req' \in [Requests -> AskType] /\ \A p \in Requests : p # r => req'[p] = req[p]
    BY DEF Moves, AsksType
  <1>2. AsksType'
    BY <1>1 DEF AsksType, Moves
  <1>3. Apart'
    <2>1. ASSUME NEW p \in Requests, NEW q \in Requests, p # q, NEW d \in req'[p].touches \cap req'[q].touches
          PROVE  d \in tainted' /\ ~req'[p].alone /\ ~req'[q].alone
      <3>1. d \in req[p].touches \cap req[q].touches /\ req'[p].alone = req[p].alone /\ req'[q].alone = req[q].alone
        BY <1>1, <2>1 DEF Moves
      <3>2. d \in tainted /\ ~req[p].alone /\ ~req[q].alone
        BY <2>1, <3>1 DEF Apart
      <3>3. d \in req[r].touches => ~req[r].alone
        BY <2>1, <3>1, <3>2 DEF Apart
      <3> QED BY <3>1, <3>2, <3>3 DEF Within
    <2> QED BY <2>1 DEF Apart, Within
  <1>4. ASSUME NEW p \in Requests, p # r PROVE InHand(req[p])'
    <2>1. req'[p] = req[p]
      BY <1>1, <1>4
    <2>2. ASSUME NEW d, Clear(req[p], d)' PROVE Clear(req[p], d) /\ d \notin req[r].touches
      <3>1. d \in req[p].touches /\ (d \notin tainted' \/ req[p].alone)
        BY <2>1, <2>2 DEF Clear
      <3>2. d \in req[r].touches => d \in tainted /\ ~req[r].alone /\ ~req[p].alone
        BY <1>4, <3>1 DEF Apart
      <3> QED BY <3>1, <3>2 DEF Clear, Within
    <2>3. InHand(req[p])
      OBVIOUS
    <2> QED BY <2>1, <2>2, <2>3 DEF InHand, Within, Turn
  <1> QED BY <1>2, <1>3, <1>4

\* What is derived stays current when a step of r touches neither it nor what
\* it follows, and what r had due is still due.
LEMMA ViewStays ==
    ASSUME AsksType, ViewCurrent, NEW r \in Requests, Moves(r), view' = view, disk' = disk,
           "view" \in tainted => "view" \in tainted', ViewDue(req[r]) => ViewDue(req'[r])
    PROVE  ViewCurrent'
  <1>1. \A p \in Requests : p # r => req'[p] = req[p]
    BY DEF Moves, AsksType
  <1> QED BY <1>1 DEF ViewCurrent, ViewDue, Turn

LEMMA ListsStay ==
    ASSUME AsksType, ListsCurrent, NEW r \in Requests, Moves(r), view' = view, lists' = lists,
           "lists" \in tainted => "lists" \in tainted', ListsDue(req[r]) => ListsDue(req'[r])
    PROVE  ListsCurrent'
  <1>1. \A p \in Requests : p # r => req'[p] = req[p]
    BY DEF Moves, AsksType
  <1> QED BY <1>1 DEF ListsCurrent, ListsDue, Turn

LEMMA ManagedStays ==
    ASSUME AsksType, ManagedCurrent, NEW r \in Requests, Moves(r), view' = view, managed' = managed,
           served'["site"] = served["site"],
           "managed" \in tainted => "managed" \in tainted', ManagedDue(req[r]) => ManagedDue(req'[r])
    PROVE  ManagedCurrent'
  <1>1. \A p \in Requests : p # r => req'[p] = req[p]
    BY DEF Moves, AsksType
  <1> QED BY <1>1 DEF ManagedCurrent, ManagedDue, Turn

LEMMA PushedStays ==
    ASSUME AsksType, NEW d \in {"limits", "key"}, PushedAt(d), NEW r \in Requests, Moves(r),
           pushed'[d] = pushed[d], served'[d] = served[d],
           d \in tainted => d \in tainted', PushDue(req[r], d) => PushDue(req'[r], d)
    PROVE  PushedAt(d)'
  <1>1. \A p \in Requests : p # r => req'[p] = req[p]
    BY DEF Moves, AsksType
  <1> QED BY <1>1 DEF PushedAt, PushDue, Turn

LEMMA ChainStays ==
    ASSUME AsksType, ChainKept, NEW r \in Requests, Moves(r), view' = view, disk' = disk,
           served'["chain"] = served["chain"], "chain" \in tainted => "chain" \in tainted',
           Keeping(req'[r])
    PROVE  ChainKept'
  <1>1. \A p \in Requests : p # r => req'[p] = req[p]
    BY DEF Moves, AsksType
  <1>2. \A p \in Requests : Keeping(req[p]) => Keeping(req[p])' \/ p = r
    BY <1>1 DEF Keeping, S!Needed, Turn
  <1>3. Keeping(req[r])'
    BY DEF Keeping, S!Needed, Turn
  <1> QED BY <1>2, <1>3 DEF ChainKept

\* What a request has due is still due after a step of it.
StillDue(r) ==
    /\ ViewDue(req[r]) => ViewDue(req'[r])
    /\ ListsDue(req[r]) => ListsDue(req'[r])
    /\ ManagedDue(req[r]) => ManagedDue(req'[r])
    /\ \A d \in {"limits", "key"} : PushDue(req[r], d) => PushDue(req'[r], d)

\* A step that only reads.
LEMMA QuietKeepsSettings ==
    ASSUME SettingsInv, NEW r \in Requests, Moves(r), UNCHANGED <<S!config, S!derived, tainted>>,
           StillDue(r), InHand(req'[r]), Keeping(req'[r])
    PROVE  SettingsInv'
  <1> USE DEF SettingsInv, S!config, S!derived
  <1>1. Within(r)
    BY DEF Within, Apart
  <1>2. AsksType' /\ Apart' /\ \A p \in Requests : p # r => InHand(req[p])'
    BY <1>1, StepLeaves
  <1>3. InHand(req[r])'
    BY DEF InHand, Clear, Turn
  <1>4. ViewCurrent'
    BY ViewStays DEF StillDue
  <1>5. ListsCurrent'
    BY ListsStay DEF StillDue
  <1>6. ManagedCurrent'
    BY ManagedStays DEF StillDue
  <1>7. PushedCurrent'
    <2> SUFFICES ASSUME NEW d \in {"limits", "key"} PROVE PushedAt(d)'
      BY DEF PushedCurrent
    <2> QED BY PushedStays DEF StillDue, PushedCurrent
  <1>8. ChainKept'
    BY ChainStays
  <1>9. LayersType' /\ S!TwoLayers'
    BY DEF LayersType, S!TwoLayers
  <1> QED BY <1>2, <1>3, <1>4, <1>5, <1>6, <1>7, <1>8, <1>9

\* A request that is over has nothing in hand.
LEMMA OverIs ==
    ASSUME NEW q, q.steps = << >>, q.touches = {}
    PROVE  InHand(q) /\ Keeping(q) /\ ~ViewDue(q) /\ ~ListsDue(q) /\ ~ManagedDue(q)
           /\ \A d \in {"limits", "key"} : ~PushDue(q, d)
  BY DEF InHand, Keeping, ViewDue, ListsDue, ManagedDue, PushDue, Clear, Turn

LEMMA CheckNeededKeepsSettings ==
    ASSUME SettingsInv, NEW r \in Requests, S!CheckNeeded(r) PROVE SettingsInv'
  <1>1. AsksType /\ req[r] \in AskType /\ Way(req[r]) /\ req[r].steps # << >> /\ Head(req[r].steps) = "needed"
    BY DEF SettingsInv, AsksType, S!CheckNeeded, S!At
  <1>2. req[r].touches = S!OfProfile /\ req[r].steps \in {SiteNeeded, ResetNeeded}
    BY <1>1, WayAt, Zenon
  <1>3. Tail(req[r].steps) \in {SiteWrite, ResetWrite} /\ Tail(req[r].steps) # << >>
    BY <1>2, Walked
  <1>4. UNCHANGED <<S!config, S!derived, tainted>>
    BY DEF S!CheckNeeded
  <1>5. CASE S!Needed(req[r].profile)
    <2>1. Moves(r) /\ req'[r] = S!Idle
      BY <1>1, <1>5, EndsOff DEF S!CheckNeeded
    <2>2. StillDue(r)
      BY <1>1, <1>2, Headed DEF StillDue, ViewDue, ListsDue, ManagedDue, PushDue, Turn, S!OfProfile
    <2> QED BY <1>4, <2>1, <2>2, IdleIs, OverIs, QuietKeepsSettings
  <1>6. CASE ~S!Needed(req[r].profile)
    <2>1. S!Moved(r, req[r])
      BY <1>6 DEF S!CheckNeeded
    <2>2. /\ Moves(r) /\ req'[r].touches = S!OfProfile /\ req'[r].profile = req[r].profile
          /\ req'[r].steps = Tail(req[r].steps)
      BY <1>1, <1>2, <1>3, <2>1, MovesOn, Zenon
    <2>3. req'[r].steps \in {SiteWrite, ResetWrite} /\ req'[r].steps # << >> /\ Head(req'[r].steps) = "write"
      BY <1>3, <2>2, Headed
    <2>4. StillDue(r)
      BY <1>1, <1>2, Headed DEF StillDue, ViewDue, ListsDue, ManagedDue, PushDue, Turn, S!OfProfile
    <2>5. InHand(req'[r])
      BY <2>2, <2>3, Headed DEF InHand, Turn, Clear, S!OfProfile
    <2>6. Keeping(req'[r])
      BY <1>6, <2>2, <2>3 DEF Keeping, Turn
    <2> QED BY <1>4, <2>2, <2>4, <2>5, <2>6, QuietKeepsSettings
  <1> QED BY <1>5, <1>6

LEMMA ScanKeepsSettings ==
    ASSUME SettingsInv, NEW r \in Requests, S!Scan(r) PROVE SettingsInv'
  <1> DEFINE w == [req[r] EXCEPT !.held.profile = disk]
  <1>1. AsksType /\ req[r] \in AskType /\ Way(req[r]) /\ req[r].steps # << >> /\ Head(req[r].steps) = "scan"
    BY DEF SettingsInv, AsksType, S!Scan, S!At
  <1>2. req[r].touches = S!OfProfile /\ req[r].steps \in {SiteScan, ResetScan}
    BY <1>1, WayAt, Zenon
  <1>3. Tail(req[r].steps) \in {SiteView, ResetView} /\ Tail(req[r].steps) # << >>
    BY <1>2, Walked
  <1>4. w \in AskType /\ w.touches = req[r].touches /\ w.alone = req[r].alone /\ w.sets = req[r].sets
        /\ w.held.profile = disk
    BY <1>1 DEF SettingsInv, LayersType, AskType, HeldType
  <1>5. S!Moved(r, w) /\ UNCHANGED <<S!config, S!derived, tainted>>
    BY DEF S!Scan
  <1> HIDE DEF w
  <1>6. Moves(r) /\ req'[r].touches = S!OfProfile /\ req'[r].held = w.held /\ req'[r].steps = Tail(req[r].steps)
    BY <1>1, <1>2, <1>3, <1>4, <1>5, MovesOn, Zenon
  <1>7. req'[r].steps \in {SiteView, ResetView} /\ req'[r].steps # << >> /\ Head(req'[r].steps) = "view"
    BY <1>3, <1>6, Headed
  <1>8. StillDue(r)
    BY <1>1, <1>2, <1>7, Headed DEF StillDue, ViewDue, ListsDue, ManagedDue, PushDue, Turn, S!OfProfile
  <1>9. InHand(req'[r])
    BY <1>4, <1>6, <1>7, Headed DEF InHand, Turn, Clear, S!OfProfile
  <1>10. Keeping(req'[r])
    BY <1>7 DEF Keeping, Turn
  <1> QED BY <1>5, <1>6, <1>8, <1>9, <1>10, QuietKeepsSettings

LEMMA CheckTemplateKeepsSettings ==
    ASSUME SettingsInv, NEW r \in Requests, S!CheckTemplate(r) PROVE SettingsInv'
  <1>1. AsksType /\ req[r] \in AskType /\ Way(req[r]) /\ req[r].steps # << >> /\ Head(req[r].steps) = "template"
    BY DEF SettingsInv, AsksType, S!CheckTemplate, S!At
  <1>2. req[r].touches = {"chain"} /\ req[r].steps = ChainTemplate
    BY <1>1, WayAt, Zenon
  <1>3. Tail(req[r].steps) = JustSave /\ Tail(req[r].steps) # << >>
    BY <1>2, Walked
  <1>4. UNCHANGED <<S!config, S!derived, tainted>>
    BY DEF S!CheckTemplate
  <1>5. StillDue(r)
    BY <1>1, <1>2, Headed DEF StillDue, ViewDue, ListsDue, ManagedDue, PushDue, Turn
  <1>6. CASE req[r].sets["chain"] > 0 /\ ~S!Template(view)
    <2>1. Moves(r) /\ req'[r] = S!Idle
      BY <1>1, <1>6, EndsOff DEF S!CheckTemplate
    <2> QED BY <1>4, <1>5, <2>1, IdleIs, OverIs, QuietKeepsSettings
  <1>7. CASE ~(req[r].sets["chain"] > 0 /\ ~S!Template(view))
    <2>1. S!Moved(r, req[r])
      BY <1>7 DEF S!CheckTemplate
    <2>2. /\ Moves(r) /\ req'[r].touches = {"chain"} /\ req'[r].sets = req[r].sets
          /\ req'[r].steps = Tail(req[r].steps)
      BY <1>1, <1>2, <1>3, <2>1, MovesOn, Zenon
    <2>3. req'[r].steps = JustSave /\ req'[r].steps # << >> /\ Head(req'[r].steps) = "save"
      BY <1>3, <2>2, Headed
    <2>4. InHand(req'[r])
      BY <2>2, <2>3, Headed DEF InHand, Turn, Clear
    <2>5. req[r].sets["chain"] \in Values
      <3>1. DOMAIN req[r].sets = {"chain"}
        BY <1>1, <1>2, Walked, Zenon DEF Way
      <3> QED BY <1>1, <3>1 DEF AskType, SetsType
    <2>6. Keeping(req'[r])
      BY <1>7, <2>2, <2>3, <2>5 DEF Keeping, Turn, Values
    <2> QED BY <1>4, <1>5, <2>2, <2>4, <2>6, QuietKeepsSettings
  <1> QED BY <1>6, <1>7

LEMMA LookKeepsSettings ==
    ASSUME SettingsInv, NEW r \in Requests, S!Look(r) PROVE SettingsInv'
  <1> DEFINE w == [req[r] EXCEPT !.held.profile = view]
  <1>1. AsksType /\ req[r] \in AskType /\ Way(req[r]) /\ req[r].steps # << >> /\ Head(req[r].steps) = "look"
    BY DEF SettingsInv, AsksType, S!Look, S!At
  <1>2. "managed" \in req[r].touches /\ req[r].steps \in {Relook, WriteLook, FormLook}
    BY <1>1, WayAt, Zenon
  <1>3. \/ req[r].steps = Relook /\ Tail(req[r].steps) = Relist
        \/ req[r].steps = WriteLook /\ Tail(req[r].steps) = WritePut
        \/ req[r].steps = FormLook /\ Tail(req[r].steps) = FormPut
    BY <1>2, Tailed
  <1>4. Relist # << >> /\ WritePut # << >> /\ FormPut # << >>
    BY Walked, Zenon
  <1>5. Tail(req[r].steps) # << >>
    BY <1>3, <1>4, Zenon
  <1>6. w \in AskType /\ w.touches = req[r].touches /\ w.alone = req[r].alone /\ w.sets = req[r].sets
        /\ w.held.profile = view /\ w.held.site = req[r].held.site
    BY <1>1 DEF SettingsInv, LayersType, AskType, HeldType
  <1>7. S!Moved(r, w) /\ UNCHANGED <<S!config, S!derived, tainted>>
    BY DEF S!Look
  <1> HIDE DEF w
  <1>8. /\ Moves(r) /\ req'[r].touches = req[r].touches /\ req'[r].held = w.held /\ req'[r].alone = req[r].alone
        /\ req'[r].steps = Tail(req[r].steps)
    BY <1>1, <1>2, <1>5, <1>6, <1>7, MovesOn, Zenon
  <1>9. /\ req'[r].steps # << >>
        /\ \/ req[r].steps = Relook /\ req'[r].steps = Relist /\ Head(req'[r].steps) = "lists"
           \/ req[r].steps = WriteLook /\ req'[r].steps = WritePut /\ Head(req'[r].steps) = "put"
           \/ req[r].steps = FormLook /\ req'[r].steps = FormPut /\ Head(req'[r].steps) = "put"
    BY <1>3, <1>5, <1>8, Headed
  <1>10. req[r].steps = Relook => Head(req'[r].steps) = "lists"
    BY <1>8, Headed, Tailed
  <1>11. StillDue(r)
    BY <1>1, <1>8, <1>9, <1>10 DEF StillDue, ViewDue, ListsDue, ManagedDue, PushDue, Turn
  <1>12. InHand(req'[r])
    <2>1. Clear(req'[r], "managed") => Clear(req[r], "managed")
      BY <1>8 DEF Clear
    <2>2. InHand(req[r])
      BY DEF SettingsInv
    <2> QED BY <1>6, <1>8, <1>9, <2>1, <2>2, Headed DEF InHand, Turn
  <1>13. Keeping(req'[r])
    BY <1>9 DEF Keeping, Turn
  <1> QED BY <1>7, <1>8, <1>11, <1>12, <1>13, QuietKeepsSettings

LEMMA GatherKeepsSettings ==
    ASSUME SettingsInv, NEW r \in Requests, S!Gather(r) PROVE SettingsInv'
  <1> DEFINE w == [req[r] EXCEPT !.held.site = served["site"]]
  <1>1. AsksType /\ req[r] \in AskType /\ Way(req[r]) /\ req[r].steps # << >> /\ Head(req[r].steps) = "gather"
    BY DEF SettingsInv, AsksType, S!Gather, S!At
  <1>2. "managed" \in req[r].touches /\ req[r].steps \in {Regather, FormGather}
    BY <1>1, WayAt, Zenon
  <1>3. Tail(req[r].steps) \in {WriteLook, FormLook} /\ Tail(req[r].steps) # << >>
    BY <1>2, Walked
  <1>4. w \in AskType /\ w.touches = req[r].touches /\ w.alone = req[r].alone /\ w.sets = req[r].sets
        /\ w.held.site = served["site"]
    BY <1>1 DEF SettingsInv, LayersType, AskType, HeldType, S!Keys
  <1>5. S!Moved(r, w) /\ UNCHANGED <<S!config, S!derived, tainted>>
    BY DEF S!Gather
  <1> HIDE DEF w
  <1>6. Moves(r) /\ req'[r].touches = req[r].touches /\ req'[r].held = w.held /\ req'[r].steps = Tail(req[r].steps)
    BY <1>1, <1>2, <1>3, <1>4, <1>5, MovesOn, Zenon
  <1>7. req'[r].steps # << >> /\ Head(req'[r].steps) = "look" /\ req'[r].steps \notin {WritePut, FormPut}
    BY <1>3, <1>6, Headed
  <1>8. StillDue(r)
    BY <1>1, <1>2, <1>6, <1>7, Headed DEF StillDue, ViewDue, ListsDue, ManagedDue, PushDue, Turn
  <1>9. InHand(req'[r])
    BY <1>4, <1>6, <1>7 DEF InHand, Turn
  <1>10. Keeping(req'[r])
    BY <1>7 DEF Keeping, Turn
  <1> QED BY <1>5, <1>6, <1>8, <1>9, <1>10, QuietKeepsSettings

LEMMA ReadKeepsSettings ==
    ASSUME SettingsInv, NEW r \in Requests, NEW d \in {"limits", "key"}, S!Read(r, d) PROVE SettingsInv'
  <1> DEFINE w == [req[r] EXCEPT !.held.value = served[d]]
  <1>1. /\ AsksType /\ req[r] \in AskType /\ Way(req[r]) /\ req[r].steps # << >>
        /\ Head(req[r].steps) = IF d = "limits" THEN "readLimits" ELSE "readKey"
    BY DEF SettingsInv, AsksType, S!Read, S!At, S!Reads
  <1>2. d \in req[r].touches /\ req[r].steps = IF d = "limits" THEN LimitsRead ELSE KeyRead
    BY <1>1, WayAt
  <1>3. Tail(req[r].steps) = (IF d = "limits" THEN LimitsPush ELSE KeyPush) /\ Tail(req[r].steps) # << >>
    BY <1>2, Walked
  <1>4. w \in AskType /\ w.touches = req[r].touches /\ w.alone = req[r].alone /\ w.sets = req[r].sets
        /\ w.held.value = served[d]
    BY <1>1 DEF SettingsInv, LayersType, AskType, HeldType, S!Keys
  <1>5. S!Moved(r, w) /\ UNCHANGED <<S!config, S!derived, tainted>>
    BY DEF S!Read
  <1> HIDE DEF w
  <1>6. Moves(r) /\ req'[r].touches = req[r].touches /\ req'[r].held = w.held /\ req'[r].steps = Tail(req[r].steps)
    BY <1>1, <1>2, <1>3, <1>4, <1>5, MovesOn, Zenon
  <1>7. /\ req'[r].steps # << >> /\ Head(req'[r].steps) = (IF d = "limits" THEN "pushLimits" ELSE "pushKey")
        /\ req'[r].steps \notin {WriteLook, FormLook, WritePut, FormPut}
    BY <1>3, <1>6, Headed
  <1>8. StillDue(r)
    BY <1>1, <1>2, <1>6, <1>7, Headed DEF StillDue, ViewDue, ListsDue, ManagedDue, PushDue, Turn
  <1>9. InHand(req'[r])
    BY <1>4, <1>6, <1>7 DEF InHand, Turn
  <1>10. Keeping(req'[r])
    BY <1>7 DEF Keeping, Turn
  <1> QED BY <1>5, <1>6, <1>8, <1>9, <1>10, QuietKeepsSettings

\* A request that acts on nothing it has read yet.
Bare(q) ==
    ~Turn(q, {"pushLimits", "pushKey", "view", "lists"}) /\ q.steps \notin {WriteLook, FormLook, WritePut, FormPut}

LEMMA BareIs ==
    ASSUME NEW q, q.steps \in {<< >>, SiteScan, ResetScan, SiteSave, Relook, Regather, FormGather, LimitsRead, KeyRead}
    PROVE  Bare(q)
  <1>1. WriteLook # << >> /\ FormLook # << >> /\ WritePut # << >> /\ FormPut # << >>
    BY Walked, Zenon
  <1>2. Relook # WriteLook /\ Relook # FormLook
    BY Tailed, Headed
  <1> QED BY <1>1, <1>2, Headed DEF Bare, Turn

LEMMA BareHand ==
    ASSUME NEW r \in Requests, Bare(req'[r])
    PROVE  InHand(req[r])'
  BY DEF Bare, InHand, Turn

LEMMA WriteProfileKeepsSettings ==
    ASSUME SettingsInv, NEW r \in Requests, S!WriteProfile(r) PROVE SettingsInv'
  <1>1. AsksType /\ req[r] \in AskType /\ Way(req[r]) /\ req[r].steps # << >> /\ Head(req[r].steps) = "write"
    BY DEF SettingsInv, AsksType, S!WriteProfile, S!At
  <1>2. req[r].touches = S!OfProfile /\ req[r].steps \in {SiteWrite, ResetWrite}
    BY <1>1, WayAt, Zenon
  <1>3. Tail(req[r].steps) \in {SiteScan, ResetScan} /\ Tail(req[r].steps) # << >>
    BY <1>2, Walked
  <1>4. StillDue(r)
    BY <1>1, <1>2, Headed DEF StillDue, ViewDue, ListsDue, ManagedDue, PushDue, Turn, S!OfProfile
  <1>5. CASE disk' = req[r].profile /\ S!Moved(r, req[r])
    <2>1. /\ Moves(r) /\ req'[r].touches = S!OfProfile
          /\ req'[r].steps = Tail(req[r].steps)
      BY <1>1, <1>2, <1>3, <1>5, MovesOn, Zenon
    <2>2. req'[r].steps \in {SiteScan, ResetScan} /\ req'[r].steps # << >> /\ Head(req'[r].steps) = "scan"
      BY <1>3, <2>1, Headed
    <2>3. UNCHANGED <<S!config, view, lists, managed, pushed, tainted>>
      BY DEF S!WriteProfile
    <2> USE DEF S!config
    <2>4. Within(r)
      BY <1>2, <2>3 DEF Within, SettingsInv, Apart, S!OfProfile
    <2>5. AsksType' /\ Apart' /\ \A p \in Requests : p # r => InHand(req[p])'
      BY <2>1, <2>4, StepLeaves DEF SettingsInv
    <2>6. InHand(req[r])'
      BY <2>2, BareIs, BareHand
    <2>7. ViewCurrent'
      BY <2>2 DEF ViewCurrent, ViewDue, Turn
    <2>8. ListsCurrent'
      BY <1>4, <2>1, <2>3, ListsStay DEF SettingsInv, StillDue
    <2>9. ManagedCurrent'
      BY <1>4, <2>1, <2>3, ManagedStays DEF SettingsInv, StillDue
    <2>10. PushedCurrent'
      <3> SUFFICES ASSUME NEW d \in {"limits", "key"} PROVE PushedAt(d)'
        BY DEF PushedCurrent
      <3> QED BY <1>4, <2>1, <2>3, PushedStays DEF SettingsInv, StillDue, PushedCurrent
    <2>11. ChainKept'
      <3>1. \A p \in Requests : p # r => req'[p] = req[p]
        BY <2>1 DEF Moves, SettingsInv, AsksType
      <3>2. \A p \in Requests : p # r /\ Keeping(req[p]) => Keeping(req[p])'
        BY <2>3, <3>1 DEF Keeping, S!Needed, Turn
      <3>3. Keeping(req[r])'
        BY <2>2 DEF Keeping, Turn
      <3>4. "chain" \notin tainted => served["chain"] = 0 \/ S!Template(disk')
        <4>1. served["chain"] \in Values
          BY DEF SettingsInv, LayersType, S!Keys
        <4>2. "chain" \notin tainted => ~S!Needed(req[r].profile)
          BY <1>1 DEF SettingsInv, ChainKept, Keeping, Turn
        <4> QED BY <1>5, <4>1, <4>2 DEF S!Needed, Values
      <3> QED BY <2>3, <3>2, <3>3, <3>4 DEF SettingsInv, ChainKept, S!Template
    <2>12. LayersType' /\ S!TwoLayers'
      BY <1>1, <1>5, <2>3 DEF SettingsInv, LayersType, S!TwoLayers, AskType
    <2> QED BY <2>5, <2>6, <2>7, <2>8, <2>9, <2>10, <2>11, <2>12 DEF SettingsInv
  <1>6. CASE S!Ends(r) /\ UNCHANGED disk
    <2>1. Moves(r) /\ req'[r] = S!Idle
      BY <1>1, <1>6, EndsOff
    <2>2. UNCHANGED <<S!config, S!derived, tainted>>
      BY <1>6 DEF S!WriteProfile, S!derived
    <2> QED BY <1>4, <2>1, <2>2, IdleIs, OverIs, QuietKeepsSettings
  <1> QED BY <1>5, <1>6 DEF S!WriteProfile

LEMMA SwapViewKeepsSettings ==
    ASSUME SettingsInv, NEW r \in Requests, S!SwapView(r) PROVE SettingsInv'
  <1>1. AsksType /\ req[r] \in AskType /\ Way(req[r]) /\ req[r].steps # << >> /\ Head(req[r].steps) = "view"
    BY DEF SettingsInv, AsksType, S!SwapView, S!At
  <1>2. req[r].touches = S!OfProfile /\ req[r].steps \in {SiteView, ResetView}
    BY <1>1, WayAt, Zenon
  <1>3. Tail(req[r].steps) \in {SiteSave, Relook} /\ Tail(req[r].steps) # << >>
    BY <1>2, Walked
  <1>4. /\ view' = req[r].held.profile /\ S!Settled(r, "view") /\ S!Moved(r, req[r])
        /\ UNCHANGED <<S!config, disk, lists, managed, pushed>>
    BY DEF S!SwapView
  <1>5. /\ Moves(r) /\ req'[r].touches = S!OfProfile /\ req'[r].steps = Tail(req[r].steps)
    BY <1>1, <1>2, <1>3, <1>4, MovesOn, Zenon
  <1>6. req'[r].steps \in {SiteSave, Relook} /\ req'[r].steps # << >> /\ Head(req'[r].steps) \in {"save", "look"}
        /\ (req'[r].steps = SiteSave => Head(req'[r].steps) = "save")
    BY <1>3, <1>5, Headed
  <1>7. \A d : d # "view" => (d \in tainted' <=> d \in tainted)
    BY <1>4 DEF S!Settled
  <1>8. "view" \in tainted' => "view" \in tainted
    BY <1>4 DEF S!Settled
  <1>9. \A d \in tainted \ tainted' : d = "view" /\ req[r].alone
    BY <1>4 DEF S!Settled
  <1> USE DEF S!config
  <1>10. Within(r)
    <2>1. {"view", "lists", "managed"} \subseteq req[r].touches
      BY <1>2 DEF S!OfProfile
    <2> QED BY <1>4, <1>7, <1>8, <1>9, <2>1 DEF Within, SettingsInv, Apart
  <1>11. AsksType' /\ Apart' /\ \A p \in Requests : p # r => InHand(req[p])'
    BY <1>5, <1>10, StepLeaves DEF SettingsInv
  <1>12. InHand(req[r])'
    BY <1>6, BareIs, BareHand
  <1>13. "view" \in tainted' \/ view' = disk
    <2>1. Clear(req[r], "view") => view' = disk
      BY <1>1, <1>4 DEF SettingsInv, InHand, Turn
    <2>2. ~Clear(req[r], "view") => "view" \in tainted'
      BY <1>2, <1>4 DEF Clear, S!OfProfile, S!Settled
    <2> QED BY <2>1, <2>2
  <1>14. ViewCurrent'
    BY <1>4, <1>13 DEF ViewCurrent
  <1>15. ListsDue(req'[r]) /\ ManagedDue(req'[r])
    BY <1>5, <1>6 DEF ListsDue, ManagedDue, Turn, S!OfProfile
  <1>16. ListsCurrent' /\ ManagedCurrent'
    BY <1>15 DEF ListsCurrent, ManagedCurrent, ListsDue, ManagedDue, Turn
  <1>17. PushedCurrent'
    <2> SUFFICES ASSUME NEW d \in {"limits", "key"} PROVE PushedAt(d)'
      BY DEF PushedCurrent
    <2>1. ~PushDue(req[r], d)
      BY <1>2 DEF PushDue, S!OfProfile
    <2> QED BY <1>4, <1>5, <1>7, <2>1, PushedStays DEF SettingsInv, PushedCurrent
  <1>18. ChainKept'
    <2> SUFFICES ASSUME "chain" \notin tainted' PROVE ChainKept'
      BY DEF ChainKept
    <2>1. "chain" \notin tainted /\ "view" \notin tainted'
      BY <1>7, <1>8 DEF SettingsInv, Apart
    <2>2. view' = disk
      BY <1>13, <2>1
    <2>3. served["chain"] = 0 \/ (S!Template(view') /\ S!Template(disk))
      BY <2>1, <2>2 DEF SettingsInv, ChainKept, S!Template
    <2>4. Keeping(req[r])'
      <3>1. "view" \in req'[r].touches
        BY <1>5 DEF S!OfProfile
      <3>2. req'[r].touches # {"chain"}
        BY <3>1
      <3> QED BY <1>6, <3>2 DEF Keeping, Turn
    <2>5. ASSUME NEW p \in Requests, p # r PROVE Keeping(req[p])'
      <3>1. req'[p] = req[p]
        BY <1>5, <2>5 DEF Moves, SettingsInv, AsksType
      <3>2. req[p].touches # {"chain"}
        BY <1>2, <2>1, <2>5 DEF SettingsInv, Apart, S!OfProfile
      <3>3. Keeping(req[p])
        BY <2>1 DEF SettingsInv, ChainKept
      <3> QED BY <1>4, <3>1, <3>2, <3>3 DEF Keeping, S!Needed, Turn
    <2> QED BY <1>4, <2>3, <2>4, <2>5 DEF ChainKept, S!Template
  <1>19. LayersType' /\ S!TwoLayers'
    BY <1>1, <1>4 DEF SettingsInv, LayersType, S!TwoLayers, AskType, HeldType
  <1> QED BY <1>11, <1>12, <1>14, <1>16, <1>17, <1>18, <1>19 DEF SettingsInv

LEMMA SetSiteListsKeepsSettings ==
    ASSUME SettingsInv, NEW r \in Requests, S!SetSiteLists(r) PROVE SettingsInv'
  <1>1. AsksType /\ req[r] \in AskType /\ Way(req[r]) /\ req[r].steps # << >> /\ Head(req[r].steps) = "lists"
    BY DEF SettingsInv, AsksType, S!SetSiteLists, S!At
  <1>2. {"lists", "managed"} \subseteq req[r].touches /\ req[r].steps = Relist
    BY <1>1, WayAt, Zenon
  <1>3. Tail(req[r].steps) = Regather /\ Tail(req[r].steps) # << >>
    BY <1>2, Walked, Zenon
  <1>4. /\ lists' = req[r].held.profile /\ S!Settled(r, "lists") /\ S!Moved(r, req[r])
        /\ UNCHANGED <<S!config, disk, view, managed, pushed>>
    BY DEF S!SetSiteLists
  <1>5. /\ Moves(r) /\ req'[r].touches = req[r].touches /\ req'[r].steps = Tail(req[r].steps)
    BY <1>1, <1>3, <1>4, MovesOn, Zenon
  <1>6. req'[r].steps = Regather /\ req'[r].steps # << >> /\ Head(req'[r].steps) = "gather"
    BY <1>3, <1>5, Headed
  <1>7. \A d : d # "lists" => (d \in tainted' <=> d \in tainted)
    BY <1>4 DEF S!Settled
  <1>8. \A d \in tainted \ tainted' : d = "lists" /\ req[r].alone
    BY <1>4 DEF S!Settled
  <1> USE DEF S!config
  <1>9. Within(r)
    BY <1>2, <1>4, <1>7, <1>8 DEF Within, SettingsInv, Apart
  <1>10. AsksType' /\ Apart' /\ \A p \in Requests : p # r => InHand(req[p])'
    BY <1>5, <1>9, StepLeaves DEF SettingsInv
  <1>11. InHand(req[r])'
    BY <1>6, BareIs, BareHand
  <1>12. ViewCurrent'
    <2>1. ~ViewDue(req[r])
      BY <1>1 DEF ViewDue, Turn
    <2> QED BY <1>4, <1>5, <1>7, <2>1, ViewStays DEF SettingsInv
  <1>13. ListsCurrent'
    <2>1. Clear(req[r], "lists") => lists' = view'
      BY <1>1, <1>4 DEF SettingsInv, InHand, Turn
    <2>2. ~Clear(req[r], "lists") => "lists" \in tainted'
      BY <1>2, <1>4 DEF Clear, S!Settled
    <2> QED BY <2>1, <2>2 DEF ListsCurrent
  <1>14. ManagedCurrent'
    <2>1. ManagedDue(req'[r])
      BY <1>2, <1>5, <1>6 DEF ManagedDue, Turn
    <2> QED BY <2>1 DEF ManagedCurrent, ManagedDue, Turn
  <1>15. PushedCurrent'
    <2> SUFFICES ASSUME NEW d \in {"limits", "key"} PROVE PushedAt(d)'
      BY DEF PushedCurrent
    <2>1. PushDue(req[r], d) => PushDue(req'[r], d)
      BY <1>5, <1>6 DEF PushDue, Turn
    <2> QED BY <1>4, <1>5, <1>7, <2>1, PushedStays DEF SettingsInv, PushedCurrent
  <1>16. ChainKept'
    <2>1. Keeping(req'[r])
      BY <1>6 DEF Keeping, Turn
    <2> QED BY <1>4, <1>5, <1>7, <2>1, ChainStays DEF SettingsInv
  <1>17. LayersType' /\ S!TwoLayers'
    BY <1>1, <1>4 DEF SettingsInv, LayersType, S!TwoLayers, AskType, HeldType
  <1> QED BY <1>10, <1>11, <1>12, <1>13, <1>14, <1>15, <1>16, <1>17 DEF SettingsInv

\* The last step of a request that has no limits and no key to push.
LEMMA WritePutIs ==
    ASSUME NEW q, Way(q), q.steps = WritePut
    PROVE  "limits" \notin q.touches /\ "key" \notin q.touches
  <1>1. /\ WritePut # << >> /\ WritePut # FormPut /\ WritePut # JustSave /\ WritePut # ChainTemplate
        /\ WritePut \notin {FormSave, FormGather, FormLook, LimitsRead, LimitsPush, LookupSave,
                            KeySave, KeyClear, KeyRead, KeyPush}
    <2>1. WritePut # << >> /\ WritePut # FormPut
      BY Walked, Zenon
    <2> QED BY <2>1, Headed
  <1>2. q.touches = {"managed"} \/ q.touches = S!OfProfile \/ q.touches = {"lists", "managed"}
    BY <1>1, Zenon DEF Way
  <1> QED BY <1>2 DEF S!OfProfile

LEMMA WriteManagedConfigKeepsSettings ==
    ASSUME SettingsInv, NEW r \in Requests, S!WriteManagedConfig(r) PROVE SettingsInv'
  <1>1. AsksType /\ req[r] \in AskType /\ Way(req[r]) /\ req[r].steps # << >> /\ Head(req[r].steps) = "put"
    BY DEF SettingsInv, AsksType, S!WriteManagedConfig, S!At
  <1>2. "managed" \in req[r].touches /\ req[r].steps \in {WritePut, FormPut}
    BY <1>1, WayAt, Zenon
  <1>3. Tail(req[r].steps) \in {<< >>, LimitsRead} /\ (Tail(req[r].steps) = << >> => req[r].steps = WritePut)
    BY <1>2, Walked
  <1>4. S!Moved(r, req[r]) /\ UNCHANGED <<S!config, disk, view, lists, pushed>>
    BY DEF S!WriteManagedConfig
  <1>5. /\ Moves(r) /\ (Tail(req[r].steps) = << >> => req'[r] = S!Idle)
        /\ (Tail(req[r].steps) # << >> =>
              req'[r].steps = Tail(req[r].steps) /\ req'[r].touches = req[r].touches)
    BY <1>1, <1>4, MovesOn, Zenon
  <1>6. /\ req'[r].steps \in {<< >>, LimitsRead}
        /\ req'[r].steps = << >> \/ (req'[r].touches = req[r].touches /\ Head(req'[r].steps) = "readLimits")
    BY <1>3, <1>5, IdleIs, Headed
  <1>7. /\ managed' \in [site : Values, profile : S!Profiles]
        /\ \A d : d # "managed" => (d \in tainted' <=> d \in tainted)
        /\ \A d \in tainted \ tainted' : d = "managed" /\ req[r].alone
        /\ "managed" \in tainted' \/ managed' = [site |-> served["site"], profile |-> view]
    <2>1. CASE managed' = [site |-> req[r].held.site, profile |-> req[r].held.profile] /\ S!Settled(r, "managed")
      <3>1. Clear(req[r], "managed") => req[r].held.site = served["site"] /\ req[r].held.profile = view
        BY <1>2 DEF SettingsInv, InHand
      <3>2. ~Clear(req[r], "managed") => "managed" \in tainted'
        BY <1>2, <2>1 DEF Clear, S!Settled
      <3>3. managed' \in [site : Values, profile : S!Profiles]
        BY <1>1, <2>1 DEF AskType, HeldType
      <3> QED BY <2>1, <3>1, <3>2, <3>3 DEF S!Settled
    <2>2. CASE UNCHANGED managed /\ tainted' = tainted \cup {"managed"}
      BY <2>2 DEF SettingsInv, LayersType
    <2> QED BY <2>1, <2>2 DEF S!WriteManagedConfig
  <1> USE DEF S!config
  <1>8. Within(r)
    BY <1>2, <1>4, <1>7 DEF Within, SettingsInv, Apart
  <1>9. AsksType' /\ Apart' /\ \A p \in Requests : p # r => InHand(req[p])'
    BY <1>5, <1>8, StepLeaves DEF SettingsInv
  <1>10. InHand(req[r])'
    BY <1>6, BareIs, BareHand
  <1>11. ViewCurrent'
    <2>1. ~ViewDue(req[r])
      BY <1>1 DEF ViewDue, Turn
    <2> QED BY <1>4, <1>5, <1>7, <2>1, ViewStays DEF SettingsInv
  <1>12. ListsCurrent'
    <2>1. ~ListsDue(req[r])
      BY <1>1, Headed DEF ListsDue, Turn
    <2> QED BY <1>4, <1>5, <1>7, <2>1, ListsStay DEF SettingsInv
  <1>13. ManagedCurrent'
    BY <1>4, <1>7 DEF ManagedCurrent
  <1>14. PushedCurrent'
    <2> SUFFICES ASSUME NEW d \in {"limits", "key"} PROVE PushedAt(d)'
      BY DEF PushedCurrent
    <2>1. PushDue(req[r], d) => PushDue(req'[r], d)
      <3>1. CASE req'[r].steps = << >>
        <4>1. req[r].steps = WritePut
          BY <1>3, <1>5, <3>1
        <4>2. d \notin req[r].touches
          BY <1>1, <4>1, WritePutIs
        <4> QED BY <4>2 DEF PushDue
      <3>2. CASE req'[r].steps # << >>
        BY <1>6, <3>2 DEF PushDue, Turn
      <3> QED BY <3>1, <3>2
    <2> QED BY <1>4, <1>5, <1>7, <2>1, PushedStays DEF SettingsInv, PushedCurrent
  <1>15. ChainKept'
    <2>1. Keeping(req'[r])
      BY <1>6 DEF Keeping, Turn
    <2> QED BY <1>4, <1>5, <1>7, <2>1, ChainStays DEF SettingsInv
  <1>16. LayersType' /\ S!TwoLayers'
    BY <1>4, <1>7 DEF SettingsInv, LayersType, S!TwoLayers
  <1> QED BY <1>9, <1>10, <1>11, <1>12, <1>13, <1>14, <1>15, <1>16 DEF SettingsInv

LEMMA PushKeepsSettings ==
    ASSUME SettingsInv, NEW r \in Requests, NEW e \in {"limits", "key"}, S!Push(r, e) PROVE SettingsInv'
  <1>1. /\ AsksType /\ req[r] \in AskType /\ Way(req[r]) /\ req[r].steps # << >>
        /\ Head(req[r].steps) = IF e = "limits" THEN "pushLimits" ELSE "pushKey"
    BY DEF SettingsInv, AsksType, S!Push, S!At, S!Pushes
  <1>2. e \in req[r].touches /\ req[r].steps = IF e = "limits" THEN LimitsPush ELSE KeyPush
    BY <1>1, WayAt
  <1>3. Tail(req[r].steps) = << >>
    BY <1>2, Walked
  <1>4. /\ pushed' = [pushed EXCEPT ![e] = req[r].held.value] /\ S!Settled(r, e) /\ S!Moved(r, req[r])
        /\ UNCHANGED <<S!config, disk, view, lists, managed>>
    BY DEF S!Push
  <1>5. Moves(r) /\ req'[r] = S!Idle
    BY <1>1, <1>3, <1>4, MovesOn, Zenon
  <1>6. req'[r].steps = << >>
    BY <1>5, IdleIs
  <1>7. \A d : d # e => (d \in tainted' <=> d \in tainted)
    BY <1>4 DEF S!Settled
  <1>8. \A d \in tainted \ tainted' : d = e /\ req[r].alone
    BY <1>4 DEF S!Settled
  <1> USE DEF S!config
  <1>9. Within(r)
    BY <1>2, <1>4, <1>7, <1>8 DEF Within, SettingsInv, Apart
  <1>10. AsksType' /\ Apart' /\ \A p \in Requests : p # r => InHand(req[p])'
    BY <1>5, <1>9, StepLeaves DEF SettingsInv
  <1>11. InHand(req[r])'
    BY <1>6, BareIs, BareHand
  <1>12. ViewCurrent'
    <2>1. ~ViewDue(req[r])
      BY <1>1 DEF ViewDue, Turn
    <2> QED BY <1>4, <1>5, <1>7, <2>1, ViewStays DEF SettingsInv
  <1>13. ListsCurrent'
    <2>1. ~ListsDue(req[r])
      BY <1>1, Headed DEF ListsDue, Turn
    <2> QED BY <1>4, <1>5, <1>7, <2>1, ListsStay DEF SettingsInv
  <1>14. ManagedCurrent'
    <2>1. ~ManagedDue(req[r])
      BY <1>1 DEF ManagedDue, Turn
    <2> QED BY <1>4, <1>5, <1>7, <2>1, ManagedStays DEF SettingsInv
  <1>15. PushedCurrent'
    <2>1. PushedAt(e)'
      <3>1. Clear(req[r], e) => req[r].held.value = served[e]
        BY <1>1 DEF SettingsInv, InHand, Turn
      <3>2. ~Clear(req[r], e) => e \in tainted'
        BY <1>2, <1>4 DEF Clear, S!Settled
      <3>3. pushed'[e] = req[r].held.value
        BY <1>4 DEF SettingsInv, LayersType
      <3> QED BY <1>4, <3>1, <3>2, <3>3 DEF PushedAt
    <2>2. ASSUME NEW d \in {"limits", "key"}, d # e PROVE PushedAt(d)'
      <3>1. ~PushDue(req[r], d)
        BY <1>1, <1>2, <2>2, Headed DEF PushDue, Way, Turn
      <3>2. pushed'[d] = pushed[d]
        BY <1>4, <2>2 DEF SettingsInv, LayersType
      <3> QED BY <1>4, <1>5, <1>7, <2>2, <3>1, <3>2, PushedStays DEF SettingsInv, PushedCurrent
    <2> QED BY <2>1, <2>2 DEF PushedCurrent
  <1>16. ChainKept'
    <2>1. Keeping(req'[r])
      BY <1>6 DEF Keeping, Turn
    <2> QED BY <1>4, <1>5, <1>7, <2>1, ChainStays DEF SettingsInv
  <1>17. LayersType' /\ S!TwoLayers'
    BY <1>1, <1>4 DEF SettingsInv, LayersType, S!TwoLayers, AskType, HeldType
  <1> QED BY <1>10, <1>11, <1>12, <1>13, <1>14, <1>15, <1>16, <1>17 DEF SettingsInv

\* The steps of a request are put together from parts.
SavedProfile == <<"needed", "write", "scan", "view", "save">>
Named == {"needed", "write", "scan", "view", "save", "look", "lists", "gather", "put", "readLimits", "pushLimits"}

LEMMA JoinIs ==
    ASSUME NEW Z, NEW s \in Seq(Z), NEW t \in Seq(Z), NEW u \in Seq(Z), Len(u) = Len(s) + Len(t),
           \A i \in 1 .. Len(s) : u[i] = s[i], \A i \in 1 .. Len(t) : u[Len(s) + i] = t[i]
    PROVE  s \o t = u
  <1>1. s \o t \in Seq(Z) /\ Len(s \o t) = Len(u)
    BY ConcatProperties
  <1>2. ASSUME NEW i \in 1 .. Len(u) PROVE (s \o t)[i] = u[i]
    <2>1. CASE i <= Len(s)
      BY <2>1, ConcatProperties
    <2>2. CASE i > Len(s)
      <3>1. i - Len(s) \in 1 .. Len(t) /\ i = Len(s) + (i - Len(s))
        BY <2>2
      <3>2. (s \o t)[i] = t[i - Len(s)]
        BY <2>2, ConcatProperties
      <3> QED BY <3>1, <3>2
    <2> QED BY <2>1, <2>2
  <1> QED BY <1>1, <1>2, SeqEqual

LEMMA Joined ==
    /\ JustSave \o S!Rewrite = RawSave
    /\ RawSave \o LimitsRead = FormSave
    /\ S!SaveProfile \o JustSave = SavedProfile
    /\ SavedProfile \o S!Refresh = SiteNeeded
    /\ JustSave \o S!Refresh = SiteSave
    /\ S!SaveProfile \o S!Refresh = ResetNeeded
  <1>1. JustSave \in Seq(Named) /\ Len(JustSave) = 1
    BY DEF JustSave, Named
  <1>2. S!Rewrite \in Seq(Named) /\ Len(S!Rewrite) = 3
    BY DEF S!Rewrite, Named
  <1>3. RawSave \in Seq(Named) /\ Len(RawSave) = 4
    BY DEF RawSave, Named
  <1>4. LimitsRead \in Seq(Named) /\ Len(LimitsRead) = 2
    BY DEF LimitsRead, Named
  <1>5. FormSave \in Seq(Named) /\ Len(FormSave) = 6
    BY DEF FormSave, Named
  <1>6. S!SaveProfile \in Seq(Named) /\ Len(S!SaveProfile) = 4
    BY DEF S!SaveProfile, Named
  <1>7. SavedProfile \in Seq(Named) /\ Len(SavedProfile) = 5
    BY DEF SavedProfile, Named
  <1>8. S!Refresh \in Seq(Named) /\ Len(S!Refresh) = 5
    BY DEF S!Refresh, Named
  <1>9. SiteNeeded \in Seq(Named) /\ Len(SiteNeeded) = 10
    BY DEF SiteNeeded, Named
  <1>10. SiteSave \in Seq(Named) /\ Len(SiteSave) = 6
    BY DEF SiteSave, Named
  <1>11. ResetNeeded \in Seq(Named) /\ Len(ResetNeeded) = 9
    BY DEF ResetNeeded, Named
  <1>12. JustSave \o S!Rewrite = RawSave
    <2>1. \A i \in 1 .. 1 : RawSave[i] = JustSave[i]
      BY DEF JustSave, RawSave
    <2>2. \A i \in 1 .. 3 : RawSave[1 + i] = S!Rewrite[i]
      BY DEF S!Rewrite, RawSave
    <2>3. /\ Len(RawSave) = Len(JustSave) + Len(S!Rewrite) /\ \A i \in 1 .. Len(JustSave) : RawSave[i] = JustSave[i]
          /\ \A i \in 1 .. Len(S!Rewrite) : RawSave[Len(JustSave) + i] = S!Rewrite[i]
      BY <1>1, <1>2, <1>3, <2>1, <2>2
    <2> QED BY <1>1, <1>2, <1>3, <2>3, JoinIs, Zenon
  <1>13. RawSave \o LimitsRead = FormSave
    <2>1. \A i \in 1 .. 4 : FormSave[i] = RawSave[i]
      BY DEF RawSave, FormSave
    <2>2. \A i \in 1 .. 2 : FormSave[4 + i] = LimitsRead[i]
      BY DEF LimitsRead, FormSave
    <2>3. /\ Len(FormSave) = Len(RawSave) + Len(LimitsRead) /\ \A i \in 1 .. Len(RawSave) : FormSave[i] = RawSave[i]
          /\ \A i \in 1 .. Len(LimitsRead) : FormSave[Len(RawSave) + i] = LimitsRead[i]
      BY <1>3, <1>4, <1>5, <2>1, <2>2
    <2> QED BY <1>3, <1>4, <1>5, <2>3, JoinIs, Zenon
  <1>14. S!SaveProfile \o JustSave = SavedProfile
    <2>1. \A i \in 1 .. 4 : SavedProfile[i] = S!SaveProfile[i]
      BY DEF S!SaveProfile, SavedProfile
    <2>2. \A i \in 1 .. 1 : SavedProfile[4 + i] = JustSave[i]
      BY DEF JustSave, SavedProfile
    <2>3. /\ Len(SavedProfile) = Len(S!SaveProfile) + Len(JustSave) /\ \A i \in 1 .. Len(S!SaveProfile) : SavedProfile[i] = S!SaveProfile[i]
          /\ \A i \in 1 .. Len(JustSave) : SavedProfile[Len(S!SaveProfile) + i] = JustSave[i]
      BY <1>6, <1>1, <1>7, <2>1, <2>2
    <2> QED BY <1>6, <1>1, <1>7, <2>3, JoinIs, Zenon
  <1>15. SavedProfile \o S!Refresh = SiteNeeded
    <2>1. \A i \in 1 .. 5 : SiteNeeded[i] = SavedProfile[i]
      BY DEF SavedProfile, SiteNeeded
    <2>2. \A i \in 1 .. 5 : SiteNeeded[5 + i] = S!Refresh[i]
      BY DEF S!Refresh, SiteNeeded
    <2>3. /\ Len(SiteNeeded) = Len(SavedProfile) + Len(S!Refresh) /\ \A i \in 1 .. Len(SavedProfile) : SiteNeeded[i] = SavedProfile[i]
          /\ \A i \in 1 .. Len(S!Refresh) : SiteNeeded[Len(SavedProfile) + i] = S!Refresh[i]
      BY <1>7, <1>8, <1>9, <2>1, <2>2
    <2> QED BY <1>7, <1>8, <1>9, <2>3, JoinIs, Zenon
  <1>16. JustSave \o S!Refresh = SiteSave
    <2>1. \A i \in 1 .. 1 : SiteSave[i] = JustSave[i]
      BY DEF JustSave, SiteSave
    <2>2. \A i \in 1 .. 5 : SiteSave[1 + i] = S!Refresh[i]
      BY DEF S!Refresh, SiteSave
    <2>3. /\ Len(SiteSave) = Len(JustSave) + Len(S!Refresh) /\ \A i \in 1 .. Len(JustSave) : SiteSave[i] = JustSave[i]
          /\ \A i \in 1 .. Len(S!Refresh) : SiteSave[Len(JustSave) + i] = S!Refresh[i]
      BY <1>1, <1>8, <1>10, <2>1, <2>2
    <2> QED BY <1>1, <1>8, <1>10, <2>3, JoinIs, Zenon
  <1>17. S!SaveProfile \o S!Refresh = ResetNeeded
    <2>1. \A i \in 1 .. 4 : ResetNeeded[i] = S!SaveProfile[i]
      BY DEF S!SaveProfile, ResetNeeded
    <2>2. \A i \in 1 .. 5 : ResetNeeded[4 + i] = S!Refresh[i]
      BY DEF S!Refresh, ResetNeeded
    <2>3. /\ Len(ResetNeeded) = Len(S!SaveProfile) + Len(S!Refresh) /\ \A i \in 1 .. Len(S!SaveProfile) : ResetNeeded[i] = S!SaveProfile[i]
          /\ \A i \in 1 .. Len(S!Refresh) : ResetNeeded[Len(S!SaveProfile) + i] = S!Refresh[i]
      BY <1>6, <1>8, <1>11, <2>1, <2>2
    <2> QED BY <1>6, <1>8, <1>11, <2>3, JoinIs, Zenon
  <1> QED BY <1>12, <1>13, <1>14, <1>15, <1>16, <1>17

\* What a save posts and what it leaves to do go with what it touches.
LEMMA SaveIs ==
    ASSUME NEW q, Way(q), q.steps # << >>, Head(q.steps) = "save", NEW t, t = Tail(q.steps)
    PROVE  /\ DOMAIN q.sets \subseteq S!Keys
           /\ \A d \in {"limits", "key"} : d \in DOMAIN q.sets => d \in q.touches
           /\ "site" \in DOMAIN q.sets => "managed" \in q.touches
           /\ "chain" \in DOMAIN q.sets => q.touches = {"chain"} /\ t = << >>
           /\ t \in {<< >>, Regather, FormGather, LimitsRead, Relook, KeyRead, KeyPush}
           /\ "limits" \in q.touches \/ "key" \in q.touches => t \in {FormGather, LimitsRead, KeyRead, KeyPush}
           /\ "managed" \in q.touches => t \in {Regather, FormGather, Relook}
           /\ "view" \in q.touches => t = Relook
           /\ t = KeyPush => "key" \in DOMAIN q.sets /\ q.sets["key"] = S!Cleared /\ q.held.value = S!Cleared
  <1>1. KeyPush # << >> /\ KeyPush \notin {Regather, FormGather, LimitsRead, Relook, KeyRead}
    <2>1. KeyPush # << >>
      BY Walked, Zenon
    <2> QED BY <2>1, Headed
  <1>2. CASE q.steps = JustSave /\ q.touches = {} /\ DOMAIN q.sets = {"url"}
    BY <1>1, <1>2, Tailed DEF S!Keys
  <1>3. CASE q.steps = JustSave /\ q.touches = {"chain"} /\ DOMAIN q.sets = {"chain"}
    BY <1>1, <1>3, Tailed DEF S!Keys
  <1>4. CASE q.steps = RawSave /\ q.touches = {"managed"} /\ DOMAIN q.sets = {"site"}
    BY <1>1, <1>4, Tailed DEF S!Keys
  <1>5. CASE q.steps = FormSave /\ q.touches = {"managed", "limits"} /\ DOMAIN q.sets = {"site", "limits"}
    BY <1>1, <1>5, Tailed DEF S!Keys
  <1>6. CASE q.steps = LookupSave /\ q.touches = {"limits"} /\ DOMAIN q.sets = {"limits"}
    BY <1>1, <1>6, Tailed DEF S!Keys
  <1>7. CASE q.steps = SiteSave /\ q.touches = S!OfProfile /\ DOMAIN q.sets = {"site"}
    BY <1>1, <1>7, Tailed DEF S!Keys, S!OfProfile
  <1>8. CASE q.steps = SiteSave /\ q.touches = {"lists", "managed"} /\ DOMAIN q.sets = {"site"}
    BY <1>1, <1>8, Tailed DEF S!Keys
  <1>9. CASE q.steps = KeySave /\ q.touches = {"key"} /\ DOMAIN q.sets = {"key"}
    BY <1>1, <1>9, Tailed DEF S!Keys
  <1>10. CASE q.steps = KeyClear /\ q.touches = {"key"} /\ DOMAIN q.sets = {"key"} /\ q.sets["key"] = S!Cleared /\ q.held.value = S!Cleared
    BY <1>1, <1>10, Tailed DEF S!Keys
  <1>11. \/ q.steps = JustSave /\ q.touches = {} /\ DOMAIN q.sets = {"url"}
         \/ q.steps = JustSave /\ q.touches = {"chain"} /\ DOMAIN q.sets = {"chain"}
         \/ q.steps = RawSave /\ q.touches = {"managed"} /\ DOMAIN q.sets = {"site"}
         \/ q.steps = FormSave /\ q.touches = {"managed", "limits"} /\ DOMAIN q.sets = {"site", "limits"}
         \/ q.steps = LookupSave /\ q.touches = {"limits"} /\ DOMAIN q.sets = {"limits"}
         \/ q.steps = SiteSave /\ q.touches = S!OfProfile /\ DOMAIN q.sets = {"site"}
         \/ q.steps = SiteSave /\ q.touches = {"lists", "managed"} /\ DOMAIN q.sets = {"site"}
         \/ q.steps = KeySave /\ q.touches = {"key"} /\ DOMAIN q.sets = {"key"}
         \/ q.steps = KeyClear /\ q.touches = {"key"} /\ DOMAIN q.sets = {"key"} /\ q.sets["key"] = S!Cleared /\ q.held.value = S!Cleared
    BY WayAt, Zenon
  <1> QED BY <1>11, <1>2, <1>3, <1>4, <1>5, <1>6, <1>7, <1>8, <1>9, <1>10, Zenon

LEMMA UpdateConfigSaves ==
    ASSUME SettingsInv, NEW r \in Requests, S!At(r, "save"), S!Moved(r, req[r]),
           file' = S!Persisted(req[r].sets), served' = S!With(served, req[r].sets),
           over' = over \ DOMAIN req[r].sets,
           baked' = {k \in S!Keys : IF k \in DOMAIN req[r].sets THEN req[r].sets[k] = S!Env ELSE k \in baked},
           UNCHANGED <<S!derived, tainted>>
    PROVE  SettingsInv'
  <1> DEFINE q == req[r]
  <1>1. AsksType /\ q \in AskType /\ Way(q) /\ q.steps # << >> /\ Head(q.steps) = "save"
    BY DEF SettingsInv, AsksType, S!At
  <1>2. /\ DOMAIN q.sets \subseteq S!Keys
        /\ \A d \in {"limits", "key"} : d \in DOMAIN q.sets => d \in q.touches
        /\ "site" \in DOMAIN q.sets => "managed" \in q.touches
        /\ "chain" \in DOMAIN q.sets => q.touches = {"chain"} /\ Tail(q.steps) = << >>
        /\ Tail(q.steps) \in {<< >>, Regather, FormGather, LimitsRead, Relook, KeyRead, KeyPush}
        /\ "limits" \in q.touches \/ "key" \in q.touches => Tail(q.steps) \in {FormGather, LimitsRead, KeyRead, KeyPush}
        /\ "managed" \in q.touches => Tail(q.steps) \in {Regather, FormGather, Relook}
        /\ "view" \in q.touches => Tail(q.steps) = Relook
        /\ Tail(q.steps) = KeyPush => "key" \in DOMAIN q.sets /\ q.sets["key"] = S!Cleared /\ q.held.value = S!Cleared
    BY <1>1, SaveIs, Zenon
  <1>3. \A k \in DOMAIN q.sets : q.sets[k] \in Values
    BY <1>1 DEF AskType, SetsType
  <1>4. /\ Moves(r) /\ (Tail(q.steps) = << >> => req'[r] = S!Idle)
        /\ (Tail(q.steps) # << >> => /\ req'[r].steps = Tail(q.steps) /\ req'[r].touches = q.touches
                                     /\ req'[r].held = q.held)
    BY <1>1, MovesOn, Zenon
  <1>5. req'[r].steps = Tail(q.steps)
    BY <1>4, IdleIs
  <1>6. \A k \in S!Keys : /\ served'[k] = IF k \in DOMAIN q.sets THEN q.sets[k] ELSE served[k]
                          /\ file'[k] = IF k \in DOMAIN q.sets THEN q.sets[k] ELSE file[k]
    BY DEF S!With, S!Persisted
  <1>7. req'[r].steps = << >> \/ Head(req'[r].steps) \in {"gather", "readLimits", "look", "readKey", "pushKey"}
    <2>1. Tail(q.steps) \in {<< >>, Regather, FormGather, LimitsRead, Relook, KeyRead, KeyPush}
      BY <1>2, Zenon
    <2> QED BY <1>5, <2>1, Headed
  <1>8. {"limits", "key", "site", "chain"} \subseteq S!Keys
    BY DEF S!Keys
  <1> USE DEF S!derived
  <1>9. Within(r)
    BY <1>2, <1>6, <1>8 DEF Within, SettingsInv, Apart
  <1>10. AsksType' /\ Apart' /\ \A p \in Requests : p # r => InHand(req[p])'
    BY <1>1, <1>4, <1>9, StepLeaves DEF SettingsInv
  <1>11. InHand(req[r])'
    <2>1. CASE Tail(q.steps) = KeyPush
      <3>1. KeyPush # << >> /\ KeyPush \notin {WriteLook, FormLook, WritePut, FormPut}
        BY Walked
      <3>2. req'[r].held.value = served'["key"]
        BY <1>2, <1>4, <1>6, <1>8, <2>1, <3>1
      <3> QED BY <1>5, <2>1, <3>1, <3>2, Headed DEF InHand, Turn
    <2>2. CASE Tail(q.steps) # KeyPush
      <3>1. Tail(q.steps) \in {<< >>, Regather, FormGather, LimitsRead, Relook, KeyRead, KeyPush}
        BY <1>2, Zenon
      <3>2. req'[r].steps \in {<< >>, Regather, FormGather, LimitsRead, Relook, KeyRead}
        BY <1>5, <2>2, <3>1, Zenon
      <3>3. Bare(req'[r])
        BY <3>2, BareIs
      <3> QED BY <3>3, BareHand
    <2> QED BY <2>1, <2>2
  <1>12. ViewCurrent'
    <2>1. ~ViewDue(q)
      BY <1>1 DEF ViewDue, Turn
    <2> QED BY <1>1, <1>4, <2>1, ViewStays DEF SettingsInv
  <1>13. FormGather # << >> /\ Regather # << >> /\ Relook # << >> /\ LimitsRead # << >> /\ KeyRead # << >> /\ KeyPush # << >>
    BY Walked, Zenon
  <1>14. ListsCurrent'
    <2>1. ListsDue(q) => ListsDue(req'[r])
      BY <1>2, <1>4, <1>13 DEF ListsDue
    <2> QED BY <1>1, <1>4, <2>1, ListsStay DEF SettingsInv
  <1>15. ManagedCurrent'
    <2>1. CASE "managed" \in q.touches
      <3>1. Tail(q.steps) \in {Regather, FormGather, Relook} /\ Tail(q.steps) # << >>
        BY <1>2, <1>13, <2>1
      <3>2. req'[r].steps = Tail(q.steps) /\ req'[r].touches = q.touches
        BY <1>4, <3>1, Zenon
      <3>3. ManagedDue(req'[r])
        BY <2>1, <3>1, <3>2, Headed DEF ManagedDue, Turn
      <3> QED BY <3>3 DEF ManagedCurrent, ManagedDue, Turn
    <2>2. CASE "managed" \notin q.touches
      <3>1. served'["site"] = served["site"]
        BY <1>2, <1>6, <1>8, <2>2
      <3>2. ~ManagedDue(q)
        BY <2>2 DEF ManagedDue
      <3> QED BY <1>1, <1>4, <3>1, <3>2, ManagedStays DEF SettingsInv
    <2> QED BY <2>1, <2>2
  <1>16. PushedCurrent'
    <2> SUFFICES ASSUME NEW d \in {"limits", "key"} PROVE PushedAt(d)'
      BY DEF PushedCurrent
    <2>1. CASE d \in q.touches
      <3>1. Tail(q.steps) \in {FormGather, LimitsRead, KeyRead, KeyPush}
        BY <1>2, <2>1
      <3>2. Tail(q.steps) # << >> /\ req'[r].touches = q.touches
        BY <1>4, <1>13, <3>1
      <3>3. Head(req'[r].steps) # "save"
        BY <1>5, <3>1, Headed
      <3>4. PushDue(req'[r], d)
        BY <2>1, <3>2, <3>3 DEF PushDue, Turn
      <3> QED BY <3>4 DEF PushedAt, PushDue, Turn
    <2>2. CASE d \notin q.touches
      <3>1. served'[d] = served[d]
        BY <1>2, <1>6, <1>8, <2>2
      <3>2. ~PushDue(q, d)
        BY <2>2 DEF PushDue
      <3> QED BY <1>1, <1>4, <3>1, <3>2, PushedStays DEF SettingsInv, PushedCurrent
    <2> QED BY <2>1, <2>2
  <1>17. Keeping(req'[r])
    BY <1>7 DEF Keeping, Turn
  <1>18. ChainKept'
    <2>1. CASE "chain" \notin DOMAIN q.sets
      <3>1. served'["chain"] = served["chain"]
        BY <1>6, <1>8, <2>1
      <3> QED BY <1>1, <1>4, <1>17, <3>1, ChainStays DEF SettingsInv
    <2>2. CASE "chain" \in DOMAIN q.sets
      <3> SUFFICES ASSUME "chain" \notin tainted' PROVE ChainKept'
        BY DEF ChainKept
      <3>1. "chain" \notin tainted /\ "view" \notin tainted
        BY DEF SettingsInv, Apart
      <3>2. q.touches = {"chain"}
        BY <1>2, <2>2
      <3>3. ASSUME NEW p \in Requests, p # r PROVE "chain" \notin req[p].touches
        BY <3>1, <3>2, <3>3 DEF SettingsInv, Apart
      <3>4. ~ViewDue(q)
        BY <1>1 DEF ViewDue, Turn
      <3>5. ASSUME NEW p \in Requests, p # r PROVE ~ViewDue(req[p]) /\ ~Turn(req[p], {"write"})
        <4>1. "chain" \notin req[p].touches /\ Way(req[p])
          BY <1>1, <3>3, <3>5 DEF AsksType
        <4>2. req[p].touches # S!OfProfile
          BY <4>1 DEF S!OfProfile
        <4> QED BY <4>1, <4>2, WayAt DEF ViewDue, Turn
      <3>6. view = disk
        BY <3>1, <3>4, <3>5 DEF SettingsInv, ViewCurrent
      <3>7. Keeping(q)
        BY <3>1 DEF SettingsInv, ChainKept
      <3>8. q.sets["chain"] = 0 \/ S!Template(view)
        BY <1>1, <3>2, <3>7 DEF Keeping, Turn
      <3>9. served'["chain"] = 0 \/ (S!Template(view) /\ S!Template(disk))
        BY <1>6, <1>8, <2>2, <3>6, <3>8
      <3>10. ASSUME NEW p \in Requests, p # r PROVE Keeping(req[p])'
        <4>1. req'[p] = req[p]
          BY <1>1, <1>4, <3>10 DEF Moves, AsksType
        <4>2. req[p].touches # {"chain"}
          BY <3>3, <3>10
        <4> QED BY <3>5, <3>10, <4>1, <4>2 DEF Keeping, Turn
      <3>11. Keeping(req[r])'
        BY <1>7 DEF Keeping, Turn
      <3> QED BY <3>9, <3>10, <3>11 DEF ChainKept, S!Template
    <2> QED BY <2>1, <2>2
  <1>19. LayersType'
    <2>1. served' \in [S!Keys -> Values] /\ file' \in [S!Keys -> Values]
      BY <1>3 DEF SettingsInv, LayersType, S!With, S!Persisted
    <2> QED BY <2>1 DEF SettingsInv, LayersType
  <1>20. S!TwoLayers'
    <2>1. \A k \in S!Keys : served[k] = IF k \in over THEN S!Env ELSE file[k]
      BY DEF SettingsInv, S!TwoLayers
    <2>2. \A k \in S!Keys : served'[k] = IF k \in over' THEN S!Env ELSE file'[k]
      BY <1>6, <2>1
    <2>3. served' = [k \in S!Keys |-> served'[k]]
      BY DEF S!With
    <2>4. served' = [k \in S!Keys |-> IF k \in over' THEN S!Env ELSE file'[k]]
      BY <2>2, <2>3
    <2>5. \A k \in S!Keys : file'[k] = S!Env => k \in baked'
      BY <1>6 DEF SettingsInv, S!TwoLayers
    <2> QED BY <2>4, <2>5 DEF S!TwoLayers, S!Env
  <1> QED BY <1>10, <1>11, <1>12, <1>14, <1>15, <1>16, <1>18, <1>19, <1>20 DEF SettingsInv

LEMMA UpdateConfigFails ==
    ASSUME SettingsInv, NEW r \in Requests, S!At(r, "save"), S!Ends(r), UNCHANGED <<S!config, S!derived>>,
           tainted' = IF "view" \in req[r].touches THEN tainted \cup {"lists", "managed"} ELSE tainted
    PROVE  SettingsInv'
  <1>1. AsksType /\ req[r].steps # << >> /\ Head(req[r].steps) = "save"
    BY DEF SettingsInv, S!At
  <1>2. Moves(r) /\ req'[r] = S!Idle
    BY <1>1, EndsOff
  <1>3. req'[r].steps = << >>
    BY <1>2, IdleIs
  <1>4. tainted \subseteq tainted' /\ ("view" \in tainted' => "view" \in tainted)
        /\ ("chain" \in tainted' <=> "chain" \in tainted)
    OBVIOUS
  <1> USE DEF S!config, S!derived
  <1>5. Within(r)
    BY <1>4 DEF Within, SettingsInv, Apart
  <1>6. AsksType' /\ Apart' /\ \A p \in Requests : p # r => InHand(req[p])'
    BY <1>2, <1>5, StepLeaves DEF SettingsInv
  <1>7. InHand(req[r])'
    BY <1>3, BareIs, BareHand
  <1>8. ViewCurrent'
    <2>1. ~ViewDue(req[r])
      BY <1>1 DEF ViewDue, Turn
    <2> QED BY <1>1, <1>2, <1>4, <2>1, ViewStays DEF SettingsInv
  <1>9. ListsCurrent'
    <2>1. CASE "lists" \in tainted'
      BY <2>1 DEF ListsCurrent
    <2>2. CASE "lists" \notin tainted'
      <3>1. ~ListsDue(req[r])
        BY <2>2 DEF ListsDue
      <3> QED BY <1>1, <1>2, <1>4, <3>1, ListsStay DEF SettingsInv
    <2> QED BY <2>1, <2>2
  <1>10. ManagedCurrent'
    <2>1. CASE "managed" \in tainted'
      BY <2>1 DEF ManagedCurrent
    <2>2. CASE "managed" \notin tainted'
      <3>1. ~ManagedDue(req[r])
        BY <1>1, <2>2 DEF ManagedDue, Turn
      <3> QED BY <1>1, <1>2, <1>4, <3>1, ManagedStays DEF SettingsInv
    <2> QED BY <2>1, <2>2
  <1>11. PushedCurrent'
    <2> SUFFICES ASSUME NEW d \in {"limits", "key"} PROVE PushedAt(d)'
      BY DEF PushedCurrent
    <2>1. ~PushDue(req[r], d)
      BY <1>1 DEF PushDue, Turn
    <2> QED BY <1>1, <1>2, <1>4, <2>1, PushedStays DEF SettingsInv, PushedCurrent
  <1>12. ChainKept'
    <2>1. Keeping(req'[r])
      BY <1>3 DEF Keeping, Turn
    <2> QED BY <1>1, <1>2, <1>4, <2>1, ChainStays DEF SettingsInv
  <1>13. LayersType' /\ S!TwoLayers'
    BY DEF SettingsInv, LayersType, S!TwoLayers
  <1> QED BY <1>6, <1>7, <1>8, <1>9, <1>10, <1>11, <1>12, <1>13 DEF SettingsInv

LEMMA UpdateConfigKeepsSettings ==
    ASSUME SettingsInv, NEW r \in Requests, S!UpdateConfig(r) PROVE SettingsInv'
  BY UpdateConfigSaves, UpdateConfigFails, Zenon DEF S!UpdateConfig

\* A start leaves no request, and everything is read from the two files.
LEMMA RestartKeepsSettings ==
    ASSUME SettingsInv, S!Restart PROVE SettingsInv'
  <1>1. /\ file' = file /\ disk' = disk /\ served' = S!Overlaid(file) /\ view' = disk /\ lists' = disk
        /\ managed' = [site |-> S!Overlaid(file)["site"], profile |-> disk]
        /\ pushed' = S!PushedOf(S!Overlaid(file))
        /\ over' = EnvKeys /\ baked' = baked /\ tainted' = tainted \cap {"chain"}
        /\ req' = [r \in Requests |-> S!Idle]
    BY DEF S!Restart, S!Booted
  <1>2. served' \in [S!Keys -> Values] /\ \A k \in S!Keys : served'[k] = IF k \in EnvKeys THEN S!Env ELSE file[k]
    BY <1>1 DEF SettingsInv, LayersType, S!Overlaid, Values, S!Env
  <1>3. LayersType'
    <2>1. {"limits", "key", "site"} \subseteq S!Keys
      BY DEF S!Keys
    <2>2. managed' = [site |-> served'["site"], profile |-> disk]
          /\ pushed' = [limits |-> served'["limits"], key |-> served'["key"]]
      BY <1>1, Zenon DEF S!PushedOf
    <2> QED BY <1>1, <1>2, <2>1, <2>2 DEF SettingsInv, LayersType
  <1>4. \A r \in Requests : /\ req'[r] \in AskType /\ Way(req'[r])
                            /\ req'[r].steps = << >> /\ req'[r].touches = {}
    BY <1>1, IdleIs
  <1>5. AsksType'
    BY <1>1, <1>4 DEF AsksType
  <1>6. Apart'
    BY <1>1, <1>4 DEF Apart
  <1>7. \A r \in Requests : InHand(req[r])'
    BY <1>4 DEF InHand, Clear
  <1>8. ViewCurrent' /\ ListsCurrent' /\ ManagedCurrent' /\ PushedCurrent'
    BY <1>1 DEF ViewCurrent, ListsCurrent, ManagedCurrent, PushedCurrent, PushedAt, S!PushedOf
  <1>9. ChainKept'
    <2>1. \A r \in Requests : Keeping(req[r])'
      BY <1>4 DEF Keeping, Turn
    <2>2. served'["chain"] = served["chain"]
      BY <1>2, SettingsAssumption DEF SettingsInv, LayersType, S!TwoLayers, S!Keys
    <2> QED BY <1>1, <2>1, <2>2 DEF SettingsInv, ChainKept, S!Template
  <1>10. S!TwoLayers'
    BY <1>1 DEF SettingsInv, S!TwoLayers, S!Overlaid
  <1> QED BY <1>3, <1>5, <1>6, <1>7, <1>8, <1>9, <1>10 DEF SettingsInv

LEMMA SettingsStart == S!Init => SettingsInv
  <1> SUFFICES ASSUME S!Init PROVE SettingsInv
    OBVIOUS
  <1> USE DEF S!Init
  <1>1. \A k \in S!Keys : file[k] \in {0, 1}
    OBVIOUS
  <1>2. file \in [S!Keys -> Values] /\ served \in [S!Keys -> Values]
    BY <1>1 DEF S!Overlaid, Values, S!Env
  <1>3. LayersType
    BY <1>2 DEF LayersType, S!PushedOf, S!Profiles, S!Keys
  <1>4. \A r \in Requests : /\ req[r] \in AskType /\ Way(req[r])
                            /\ req[r].steps = << >> /\ req[r].touches = {}
    BY IdleIs
  <1>5. AsksType
    BY <1>4 DEF AsksType
  <1>6. Apart /\ \A r \in Requests : InHand(req[r])
    BY <1>4 DEF Apart, InHand, Clear
  <1>7. ViewCurrent /\ ListsCurrent /\ ManagedCurrent /\ PushedCurrent
    BY DEF ViewCurrent, ListsCurrent, ManagedCurrent, PushedCurrent, PushedAt, S!PushedOf
  <1>8. ChainKept
    <2>1. \A r \in Requests : Keeping(req[r])
      BY <1>4 DEF Keeping, Turn
    <2>2. served["chain"] = 0 \/ S!Template(disk)
      BY <1>1, SettingsAssumption DEF S!Overlaid, S!Keys
    <2> QED BY <2>1, <2>2 DEF ChainKept
  <1>9. S!TwoLayers
    BY <1>1 DEF S!TwoLayers, S!Overlaid, S!Env
  <1> QED BY <1>3, <1>5, <1>6, <1>7, <1>8, <1>9 DEF SettingsInv

\* A request that has nothing left to do touches nothing.
LEMMA OffIs ==
    ASSUME NEW q, Way(q), q.steps = << >>
    PROVE  q.touches = {}
  <1>1. << >> \notin {SiteNeeded, SiteWrite, SiteScan, SiteView, SiteSave, ResetNeeded, ResetWrite, ResetScan,
                     ResetView, Relook, Relist, RawSave, Regather, WriteLook, WritePut, FormSave, FormGather,
                     FormLook, FormPut, LookupSave, LimitsRead, LimitsPush, ChainTemplate, JustSave, KeySave,
                     KeyRead, KeyClear, KeyPush}
    BY Walked
  <1> QED BY <1>1 DEF Way

\* A request taken up: what it shares with those under way is tainted, and none
\* of them is alone.
LEMMA AsksKeepsSettings ==
    ASSUME SettingsInv, NEW r \in Requests, NEW forms, NEW steps, NEW profile \in S!Profiles,
           NEW touches \in SUBSET S!Derived, S!Asks(r, forms, steps, profile, touches),
           steps \in Walks, steps # << >>, Head(steps) \in {"needed", "template", "save"},
           Head(steps) = "save" => touches # {"chain"},
           "view" \in touches => touches = S!OfProfile,
           forms \subseteq SetsType,
           \A sets \in forms, alone \in BOOLEAN :
              Way([steps |-> steps, sets |-> sets, profile |-> profile, held |-> S!Held,
                   touches |-> touches, alone |-> alone])
    PROVE  SettingsInv'
  <1> DEFINE common == touches \cap UNION {req[q].touches : q \in Requests}
  <1>1. AsksType /\ req[r] \in AskType /\ req[r].steps = << >> /\ req[r].touches = {}
    <2>1. AsksType /\ req[r] \in AskType /\ req[r].steps = << >> /\ Way(req[r])
      BY DEF SettingsInv, AsksType, S!Asks
    <2> QED BY <2>1, OffIs
  <1>2. /\ tainted' = tainted \cup common
        /\ UNCHANGED <<S!config, S!derived>>
    BY DEF S!Asks
  <1>3. PICK sets \in forms :
          req' = [q \in Requests |->
                    IF q = r THEN [steps |-> steps, sets |-> sets, profile |-> profile, held |-> S!Held,
                                   touches |-> touches, alone |-> common = {}]
                    ELSE [req[q] EXCEPT !.alone = @ /\ req[q].touches \cap touches = {}]]
    BY DEF S!Asks
  <1>4. /\ req'[r] \in AskType /\ Way(req'[r]) /\ req'[r].steps = steps /\ req'[r].touches = touches
        /\ req'[r].alone = (common = {})
    <2>1. S!Held \in HeldType
      BY DEF S!Held, HeldType, Values, S!Profiles, S!Cleared
    <2>2. (common = {}) \in BOOLEAN
      OBVIOUS
    <2> QED BY <1>3, <2>1, <2>2 DEF AskType
  <1>5. ASSUME NEW p \in Requests, p # r
        PROVE  /\ req'[p] \in AskType /\ req'[p].steps = req[p].steps /\ req'[p].touches = req[p].touches
               /\ req'[p].sets = req[p].sets /\ req'[p].held = req[p].held /\ req'[p].profile = req[p].profile
               /\ req'[p].alone => req[p].alone /\ req[p].touches \cap touches = {}
    <2>1. req[p] \in AskType
      BY <1>1 DEF AsksType
    <2>2. req'[p] = [req[p] EXCEPT !.alone = req[p].alone /\ req[p].touches \cap touches = {}]
      BY <1>3, <1>5
    <2> QED BY <2>1, <2>2 DEF AskType
  <1> HIDE DEF common
  <1>6. AsksType'
    <2>1. \A p \in Requests : p # r => Way(req'[p])
      BY <1>1, <1>5 DEF AsksType, Way
    <2> QED BY <1>3, <1>4, <1>5, <2>1 DEF AsksType
  <1>7. \A d : d \in tainted' <=> d \in tainted \/ (d \in touches /\ \E p \in Requests : p # r /\ d \in req[p].touches)
    BY <1>1, <1>2 DEF common
  <1>8. Apart'
    <2>1. "view" \in tainted' => "chain" \in tainted'
      <3>1. ASSUME NEW p \in Requests, "view" \in touches, "view" \in req[p].touches
            PROVE  "chain" \in touches /\ "chain" \in req[p].touches
        BY <1>1, <3>1 DEF AsksType, Way, S!OfProfile
      <3> QED BY <1>7, <3>1 DEF SettingsInv, Apart
    <2>2. ASSUME NEW p \in Requests, p # r, NEW d \in touches \cap req[p].touches
          PROVE  d \in tainted' /\ ~req'[p].alone /\ ~req'[r].alone
      <3>1. d \in common
        BY <2>2 DEF common
      <3> QED BY <1>2, <1>4, <1>5, <2>2, <3>1
    <2>3. ASSUME NEW p \in Requests, NEW q \in Requests, p # q, p # r, q # r, NEW d \in req[p].touches \cap req[q].touches
          PROVE  d \in tainted' /\ ~req'[p].alone /\ ~req'[q].alone
      <3>1. d \in tainted /\ ~req[p].alone /\ ~req[q].alone
        BY <2>3 DEF SettingsInv, Apart
      <3> QED BY <1>2, <1>5, <2>3, <3>1
    <2> QED BY <1>4, <1>5, <2>1, <2>2, <2>3 DEF Apart
  <1>9. \A q \in Requests : InHand(req[q])'
    <2>1. ASSUME NEW p \in Requests, p # r PROVE InHand(req[p])'
      <3>1. ASSUME NEW d, Clear(req[p], d)' PROVE Clear(req[p], d)
        BY <1>2, <1>5, <2>1, <3>1 DEF Clear
      <3>2. InHand(req[p])
        BY DEF SettingsInv
      <3> QED BY <1>2, <1>5, <2>1, <3>1, <3>2 DEF InHand, Turn, S!config, S!derived
    <2>2. Bare(req'[r])
      BY <1>4, Headed DEF Bare, Turn
    <2> QED BY <2>1, <2>2, BareHand
  <1> USE DEF S!config, S!derived
  <1>10. \A p \in Requests : /\ ViewDue(req[p]) => ViewDue(req'[p])
                             /\ ListsDue(req[p]) => ListsDue(req'[p])
                             /\ ManagedDue(req[p]) => ManagedDue(req'[p])
                             /\ \A d \in {"limits", "key"} : PushDue(req[p], d) => PushDue(req'[p], d)
    <2>1. ~ViewDue(req[r]) /\ ~ListsDue(req[r]) /\ ~ManagedDue(req[r]) /\ \A d \in {"limits", "key"} : ~PushDue(req[r], d)
      BY <1>1, OverIs
    <2> QED BY <1>5, <2>1 DEF ViewDue, ListsDue, ManagedDue, PushDue, Turn
  <1>11. ViewCurrent'
    BY <1>2, <1>10 DEF SettingsInv, ViewCurrent, ViewDue, Turn
  <1>12. ListsCurrent'
    BY <1>2, <1>10 DEF SettingsInv, ListsCurrent, ListsDue, Turn
  <1>13. ManagedCurrent'
    BY <1>2, <1>10 DEF SettingsInv, ManagedCurrent, ManagedDue, Turn
  <1>14. PushedCurrent'
    BY <1>2, <1>10 DEF SettingsInv, PushedCurrent, PushedAt, PushDue, Turn
  <1>15. ChainKept'
    <2>1. ASSUME NEW p \in Requests, p # r, Keeping(req[p]) PROVE Keeping(req[p])'
      BY <1>2, <1>5, <2>1 DEF Keeping, S!Needed, Turn
    <2>2. Keeping(req[r])'
      BY <1>4 DEF Keeping, Turn
    <2> QED BY <1>2, <2>1, <2>2 DEF SettingsInv, ChainKept, S!Template
  <1>16. LayersType' /\ S!TwoLayers'
    BY <1>2 DEF SettingsInv, LayersType, S!TwoLayers
  <1> QED BY <1>6, <1>8, <1>9, <1>11, <1>12, <1>13, <1>14, <1>15, <1>16 DEF SettingsInv

LEMMA FormsAre ==
    ASSUME NEW keys \in SUBSET S!Keys
    PROVE  S!Forms(keys) \subseteq SetsType /\ \A f \in S!Forms(keys) : DOMAIN f = keys
  <1>1. \A f \in S!Forms(keys) : f \in [keys -> Values]
    BY DEF S!Forms, Values, S!Cleared, S!Env
  <1> QED BY <1>1 DEF SetsType

LEMMA EmptyIs ==
    ASSUME NEW k \in S!Keys
    PROVE  S!Empty(k) \subseteq SetsType /\ \A f \in S!Empty(k) : DOMAIN f = {k} /\ f[k] = S!Cleared
  <1>1. \A f \in S!Empty(k) : f \in [{k} -> Values] /\ f[k] = S!Cleared
    BY DEF S!Empty, Values, S!Cleared
  <1> QED BY <1>1 DEF SetsType

\* Every request starts one of these ways.
LEMMA AskKeepsSettings ==
    ASSUME SettingsInv, NEW r \in Requests, S!Ask(r) PROVE SettingsInv'
  <1>1. /\ {{"url"}, {"site"}, {"site", "limits"}, {"limits"}, {"chain"}, {}, {"key"}} \subseteq SUBSET S!Keys
        /\ "site" \in S!Keys /\ "key" \in S!Keys
    BY DEF S!Keys
  <1>2. "shipped" \in S!Profiles
    BY DEF S!Profiles
  <1>3. {{}, {"managed"}, {"managed", "limits"}, {"limits"}, {"chain"}, S!OfProfile, {"lists", "managed"}, {"key"}}
           \subseteq SUBSET S!Derived
    BY DEF S!Derived, S!OfProfile
  <1>4. /\ "chain" \notin S!OfProfile \/ S!OfProfile # {"chain"}
        /\ {} # {"chain"} /\ {"managed"} # {"chain"} /\ {"managed", "limits"} # {"chain"} /\ {"limits"} # {"chain"}
        /\ {"lists", "managed"} # {"chain"} /\ {"key"} # {"chain"}
    BY DEF S!OfProfile
  <1>5. CASE S!Asks(r, S!Forms({"url"}), JustSave, "shipped", {})
    <2>2. S!Forms({"url"}) \subseteq SetsType /\ \A f \in S!Forms({"url"}) : DOMAIN f = {"url"}
      BY <1>1, FormsAre
    <2>3. JustSave \in Walks /\ JustSave # << >> /\ Head(JustSave) = "save"
      BY Walked, Zenon DEF Walks
    <2>4. \A sets \in S!Forms({"url"}), alone \in BOOLEAN :
             Way([steps |-> JustSave, sets |-> sets, profile |-> "shipped", held |-> S!Held,
                  touches |-> {}, alone |-> alone])
      BY <2>2 DEF Way
    <2>5. {} \in SUBSET S!Derived /\ ("view" \in {} => {} = S!OfProfile) /\ {} # {"chain"}
      BY <1>3, <1>4
    <2> QED BY <1>2, <1>5, <2>2, <2>3, <2>4, <2>5, AsksKeepsSettings
  <1>6. CASE S!Asks(r, S!Forms({"site"}), RawSave, "shipped", {"managed"})
    <2>2. S!Forms({"site"}) \subseteq SetsType /\ \A f \in S!Forms({"site"}) : DOMAIN f = {"site"}
      BY <1>1, FormsAre
    <2>3. RawSave \in Walks /\ RawSave # << >> /\ Head(RawSave) = "save"
      BY Walked, Zenon DEF Walks
    <2>4. \A sets \in S!Forms({"site"}), alone \in BOOLEAN :
             Way([steps |-> RawSave, sets |-> sets, profile |-> "shipped", held |-> S!Held,
                  touches |-> {"managed"}, alone |-> alone])
      BY <2>2 DEF Way
    <2>5. {"managed"} \in SUBSET S!Derived /\ ("view" \in {"managed"} => {"managed"} = S!OfProfile) /\ {"managed"} # {"chain"}
      BY <1>3, <1>4
    <2> QED BY <1>2, <1>6, <2>2, <2>3, <2>4, <2>5, AsksKeepsSettings
  <1>7. CASE S!Asks(r, S!Forms({"site", "limits"}), FormSave, "shipped", {"managed", "limits"})
    <2>2. S!Forms({"site", "limits"}) \subseteq SetsType /\ \A f \in S!Forms({"site", "limits"}) : DOMAIN f = {"site", "limits"}
      BY <1>1, FormsAre
    <2>3. FormSave \in Walks /\ FormSave # << >> /\ Head(FormSave) = "save"
      BY Walked, Zenon DEF Walks
    <2>4. \A sets \in S!Forms({"site", "limits"}), alone \in BOOLEAN :
             Way([steps |-> FormSave, sets |-> sets, profile |-> "shipped", held |-> S!Held,
                  touches |-> {"managed", "limits"}, alone |-> alone])
      BY <2>2 DEF Way
    <2>5. {"managed", "limits"} \in SUBSET S!Derived /\ ("view" \in {"managed", "limits"} => {"managed", "limits"} = S!OfProfile) /\ {"managed", "limits"} # {"chain"}
      BY <1>3, <1>4
    <2> QED BY <1>2, <1>7, <2>2, <2>3, <2>4, <2>5, AsksKeepsSettings
  <1>8. CASE S!Asks(r, S!Forms({"limits"}), LookupSave, "shipped", {"limits"})
    <2>2. S!Forms({"limits"}) \subseteq SetsType /\ \A f \in S!Forms({"limits"}) : DOMAIN f = {"limits"}
      BY <1>1, FormsAre
    <2>3. LookupSave \in Walks /\ LookupSave # << >> /\ Head(LookupSave) = "save"
      BY Walked, Zenon DEF Walks
    <2>4. \A sets \in S!Forms({"limits"}), alone \in BOOLEAN :
             Way([steps |-> LookupSave, sets |-> sets, profile |-> "shipped", held |-> S!Held,
                  touches |-> {"limits"}, alone |-> alone])
      BY <2>2 DEF Way
    <2>5. {"limits"} \in SUBSET S!Derived /\ ("view" \in {"limits"} => {"limits"} = S!OfProfile) /\ {"limits"} # {"chain"}
      BY <1>3, <1>4
    <2> QED BY <1>2, <1>8, <2>2, <2>3, <2>4, <2>5, AsksKeepsSettings
  <1>9. CASE S!Asks(r, S!Forms({"chain"}), ChainTemplate, "shipped", {"chain"})
    <2>2. S!Forms({"chain"}) \subseteq SetsType /\ \A f \in S!Forms({"chain"}) : DOMAIN f = {"chain"}
      BY <1>1, FormsAre
    <2>3. ChainTemplate \in Walks /\ ChainTemplate # << >> /\ Head(ChainTemplate) = "template"
      BY Walked, Zenon DEF Walks
    <2>4. \A sets \in S!Forms({"chain"}), alone \in BOOLEAN :
             Way([steps |-> ChainTemplate, sets |-> sets, profile |-> "shipped", held |-> S!Held,
                  touches |-> {"chain"}, alone |-> alone])
      BY <2>2 DEF Way
    <2>5. {"chain"} \in SUBSET S!Derived /\ ("view" \in {"chain"} => {"chain"} = S!OfProfile)
      BY <1>3, <1>4
    <2> QED BY <1>2, <1>9, <2>2, <2>3, <2>4, <2>5, AsksKeepsSettings
  <1>10. CASE \E p \in S!Profiles : S!Asks(r, S!Forms({"site"}), SiteNeeded, p, S!OfProfile)
    <2>1. PICK p \in S!Profiles : S!Asks(r, S!Forms({"site"}), SiteNeeded, p, S!OfProfile)
      BY <1>10
    <2>2. S!Forms({"site"}) \subseteq SetsType /\ \A f \in S!Forms({"site"}) : DOMAIN f = {"site"}
      BY <1>1, FormsAre
    <2>3. SiteNeeded \in Walks /\ SiteNeeded # << >> /\ Head(SiteNeeded) = "needed"
      BY Walked, Zenon DEF Walks
    <2>4. \A sets \in S!Forms({"site"}), alone \in BOOLEAN :
             Way([steps |-> SiteNeeded, sets |-> sets, profile |-> p, held |-> S!Held,
                  touches |-> S!OfProfile, alone |-> alone])
      BY <2>2 DEF Way
    <2>5. S!OfProfile \in SUBSET S!Derived /\ ("view" \in S!OfProfile => S!OfProfile = S!OfProfile)
      BY <1>3, <1>4
    <2> QED BY <1>2, <2>1, <2>2, <2>3, <2>4, <2>5, AsksKeepsSettings
  <1>11. CASE S!Asks(r, S!Forms({"site"}), SiteSave, "shipped", {"lists", "managed"})
    <2>2. S!Forms({"site"}) \subseteq SetsType /\ \A f \in S!Forms({"site"}) : DOMAIN f = {"site"}
      BY <1>1, FormsAre
    <2>3. SiteSave \in Walks /\ SiteSave # << >> /\ Head(SiteSave) = "save"
      BY Walked, Zenon DEF Walks
    <2>4. \A sets \in S!Forms({"site"}), alone \in BOOLEAN :
             Way([steps |-> SiteSave, sets |-> sets, profile |-> "shipped", held |-> S!Held,
                  touches |-> {"lists", "managed"}, alone |-> alone])
      BY <2>2 DEF Way
    <2>5. {"lists", "managed"} \in SUBSET S!Derived /\ ("view" \in {"lists", "managed"} => {"lists", "managed"} = S!OfProfile) /\ {"lists", "managed"} # {"chain"}
      BY <1>3, <1>4
    <2> QED BY <1>2, <1>11, <2>2, <2>3, <2>4, <2>5, AsksKeepsSettings
  <1>12. CASE S!Asks(r, S!Forms({}), ResetNeeded, "shipped", S!OfProfile)
    <2>2. S!Forms({}) \subseteq SetsType /\ \A f \in S!Forms({}) : DOMAIN f = {}
      BY <1>1, FormsAre
    <2>3. ResetNeeded \in Walks /\ ResetNeeded # << >> /\ Head(ResetNeeded) = "needed"
      BY Walked, Zenon DEF Walks
    <2>4. \A sets \in S!Forms({}), alone \in BOOLEAN :
             Way([steps |-> ResetNeeded, sets |-> sets, profile |-> "shipped", held |-> S!Held,
                  touches |-> S!OfProfile, alone |-> alone])
      BY <2>2 DEF Way
    <2>5. S!OfProfile \in SUBSET S!Derived /\ ("view" \in S!OfProfile => S!OfProfile = S!OfProfile)
      BY <1>3, <1>4
    <2> QED BY <1>2, <1>12, <2>2, <2>3, <2>4, <2>5, AsksKeepsSettings
  <1>13. CASE S!Asks(r, S!Empty("site"), SiteNeeded, "shipped", S!OfProfile)
    <2>2. S!Empty("site") \subseteq SetsType /\ \A f \in S!Empty("site") : DOMAIN f = {"site"}
      BY <1>1, EmptyIs
    <2>3. SiteNeeded \in Walks /\ SiteNeeded # << >> /\ Head(SiteNeeded) = "needed"
      BY Walked, Zenon DEF Walks
    <2>4. \A sets \in S!Empty("site"), alone \in BOOLEAN :
             Way([steps |-> SiteNeeded, sets |-> sets, profile |-> "shipped", held |-> S!Held,
                  touches |-> S!OfProfile, alone |-> alone])
      BY <2>2 DEF Way
    <2>5. S!OfProfile \in SUBSET S!Derived /\ ("view" \in S!OfProfile => S!OfProfile = S!OfProfile)
      BY <1>3, <1>4
    <2> QED BY <1>2, <1>13, <2>2, <2>3, <2>4, <2>5, AsksKeepsSettings
  <1>14. CASE S!Asks(r, S!Forms({"key"}), KeySave, "shipped", {"key"})
    <2>2. S!Forms({"key"}) \subseteq SetsType /\ \A f \in S!Forms({"key"}) : DOMAIN f = {"key"}
      BY <1>1, FormsAre
    <2>3. KeySave \in Walks /\ KeySave # << >> /\ Head(KeySave) = "save"
      BY Walked, Zenon DEF Walks
    <2>4. \A sets \in S!Forms({"key"}), alone \in BOOLEAN :
             Way([steps |-> KeySave, sets |-> sets, profile |-> "shipped", held |-> S!Held,
                  touches |-> {"key"}, alone |-> alone])
      BY <2>2 DEF Way
    <2>5. {"key"} \in SUBSET S!Derived /\ ("view" \in {"key"} => {"key"} = S!OfProfile) /\ {"key"} # {"chain"}
      BY <1>3, <1>4
    <2> QED BY <1>2, <1>14, <2>2, <2>3, <2>4, <2>5, AsksKeepsSettings
  <1>15. CASE S!Asks(r, S!Empty("key"), KeyClear, "shipped", {"key"})
    <2>2. S!Empty("key") \subseteq SetsType /\ \A f \in S!Empty("key") : DOMAIN f = {"key"} /\ f["key"] = S!Cleared
      BY <1>1, EmptyIs
    <2>3. KeyClear \in Walks /\ KeyClear # << >> /\ Head(KeyClear) = "save"
      BY Walked, Zenon DEF Walks
    <2>4. \A sets \in S!Empty("key"), alone \in BOOLEAN :
             Way([steps |-> KeyClear, sets |-> sets, profile |-> "shipped", held |-> S!Held,
                  touches |-> {"key"}, alone |-> alone])
      BY <2>2 DEF Way, S!Held, S!Cleared
    <2>5. {"key"} \in SUBSET S!Derived /\ ("view" \in {"key"} => {"key"} = S!OfProfile) /\ {"key"} # {"chain"}
      BY <1>3, <1>4
    <2> QED BY <1>2, <1>15, <2>2, <2>3, <2>4, <2>5, AsksKeepsSettings
  <1>16. S!Plain(r) => S!Asks(r, S!Forms({"url"}), JustSave, "shipped", {})
    BY Zenon DEF S!Plain, JustSave
  <1>17. S!saveRaw(r) => S!Asks(r, S!Forms({"site"}), RawSave, "shipped", {"managed"})
    BY Joined, Zenon DEF S!saveRaw, JustSave
  <1>18. S!saveDownloader(r) => S!Asks(r, S!Forms({"site", "limits"}), FormSave, "shipped", {"managed", "limits"})
    BY Joined, Zenon DEF S!saveDownloader, JustSave, LimitsRead
  <1>19. S!resetSiteProfile(r) => S!Asks(r, S!Forms({}), ResetNeeded, "shipped", S!OfProfile)
    BY Joined, Zenon DEF S!resetSiteProfile
  <1>20. S!resetSite(r) => S!Asks(r, S!Empty("site"), SiteNeeded, "shipped", S!OfProfile)
    BY Joined, Zenon DEF S!resetSite, JustSave
  <1>21. S!saveSite(r) => (\E p \in S!Profiles : S!Asks(r, S!Forms({"site"}), SiteNeeded, p, S!OfProfile)) \/ S!Asks(r, S!Forms({"site"}), SiteSave, "shipped", {"lists", "managed"})
    BY Joined, Zenon DEF S!saveSite, JustSave
  <1>22. S!saveLookup(r) => S!Asks(r, S!Forms({"limits"}), LookupSave, "shipped", {"limits"})
    BY Zenon DEF S!saveLookup, LookupSave
  <1>23. S!saveLookupChain(r) => S!Asks(r, S!Forms({"chain"}), ChainTemplate, "shipped", {"chain"})
    BY Zenon DEF S!saveLookupChain, ChainTemplate
  <1>24. S!savePTR(r) => S!Asks(r, S!Forms({"key"}), KeySave, "shipped", {"key"})
    BY Zenon DEF S!savePTR, KeySave
  <1>25. S!ptrClearKey(r) => S!Asks(r, S!Empty("key"), KeyClear, "shipped", {"key"})
    BY Zenon DEF S!ptrClearKey, KeyClear
  <1>26. S!saveMonbooru(r) \/ S!setMonbooruPaused(r) \/ S!saveHostLabels(r) \/ S!settingsThemePost(r) \/ S!settingsDesktopPost(r) \/ S!setupPost(r) => S!Plain(r)
    BY DEF S!saveMonbooru, S!setMonbooruPaused, S!saveHostLabels, S!settingsThemePost, S!settingsDesktopPost, S!setupPost
  <1> QED BY <1>5, <1>6, <1>7, <1>8, <1>9, <1>10, <1>11, <1>12, <1>13, <1>14, <1>15, <1>16, <1>17, <1>18, <1>19, <1>20, <1>21, <1>22, <1>23, <1>24, <1>25, <1>26, Zenon DEF S!Ask

LEMMA SettingsStep == SettingsInv /\ [S!Next]_(S!vars) => SettingsInv'
  <1> SUFFICES ASSUME SettingsInv, [S!Next]_(S!vars) PROVE SettingsInv'
    OBVIOUS
  <1>1. CASE UNCHANGED S!vars
    <2> USE <1>1 DEF S!vars
    <2>1. \A q \in Requests : InHand(req[q])' <=> InHand(req[q])
      BY DEF InHand, Clear, Turn
    <2>2. ViewCurrent' /\ ListsCurrent' /\ ManagedCurrent' /\ PushedCurrent'
      BY DEF SettingsInv, ViewCurrent, ListsCurrent, ManagedCurrent, PushedCurrent, PushedAt,
             ViewDue, ListsDue, ManagedDue, PushDue, Turn
    <2>3. ChainKept'
      BY DEF SettingsInv, ChainKept, Keeping, S!Needed, S!Template, Turn
    <2>4. LayersType' /\ AsksType' /\ Apart' /\ S!TwoLayers'
      BY DEF SettingsInv, LayersType, AsksType, Apart, S!TwoLayers
    <2> QED BY <2>1, <2>2, <2>3, <2>4 DEF SettingsInv
  <1>2. CASE \E r \in Requests : \/ S!Ask(r) \/ S!CheckNeeded(r) \/ S!WriteProfile(r) \/ S!Scan(r)
                                 \/ S!SwapView(r) \/ S!CheckTemplate(r)
    BY <1>2, AskKeepsSettings, CheckNeededKeepsSettings, WriteProfileKeepsSettings, ScanKeepsSettings,
       SwapViewKeepsSettings, CheckTemplateKeepsSettings
  <1>3. CASE \E r \in Requests : \/ S!UpdateConfig(r) \/ S!Look(r) \/ S!SetSiteLists(r) \/ S!Gather(r)
                                 \/ S!WriteManagedConfig(r)
    BY <1>3, UpdateConfigKeepsSettings, LookKeepsSettings, SetSiteListsKeepsSettings, GatherKeepsSettings,
       WriteManagedConfigKeepsSettings
  <1>4. CASE \E r \in Requests : \E d \in {"limits", "key"} : S!Read(r, d) \/ S!Push(r, d)
    BY <1>4, ReadKeepsSettings, PushKeepsSettings
  <1>5. CASE S!Restart
    BY <1>5, RestartKeepsSettings
  <1> QED BY <1>1, <1>2, <1>3, <1>4, <1>5 DEF S!Next

\* The invariant says what the run checks.
LEMMA SettingsHold == SettingsInv => S!TwoLayers /\ S!SoloSaveLands /\ S!ChainKeepsTemplate
  <1> SUFFICES ASSUME SettingsInv PROVE S!TwoLayers /\ S!SoloSaveLands /\ S!ChainKeepsTemplate
    OBVIOUS
  <1>1. \A q \in Requests : Way(req[q])
    BY DEF SettingsInv, AsksType
  <1>2. \A q \in Requests : ViewDue(req[q]) => S!Touched("view") /\ S!Touched("chain")
    <2>1. ASSUME NEW q \in Requests, ViewDue(req[q]) PROVE req[q].touches = S!OfProfile
      BY <1>1, <2>1, WayAt DEF ViewDue, Turn
    <2> QED BY <2>1 DEF S!Touched, S!OfProfile
  <1>3. \A q \in Requests : /\ ListsDue(req[q]) => S!Touched("view")
                            /\ ManagedDue(req[q]) => S!Touched("managed")
                            /\ \A d \in {"limits", "key"} : PushDue(req[q], d) => S!Touched(d)
    BY DEF ListsDue, ManagedDue, PushDue, S!Touched
  <1>4. S!SoloSaveLands
    BY <1>2, <1>3 DEF SettingsInv, ViewCurrent, ListsCurrent, ManagedCurrent, PushedCurrent, PushedAt, S!SoloSaveLands
  <1>5. S!ChainKeepsTemplate
    BY DEF SettingsInv, ChainKept, S!ChainKeepsTemplate
  <1> QED BY <1>4, <1>5 DEF SettingsInv

\* The invariant holds in every behaviour of the settings (web/router.go,
\* web/handlers_sites.go, web/userprofiles.go).
LEMMA SettingsAlwaysHold == S!Spec => []SettingsInv
  BY SettingsStart, SettingsStep, PTL DEF S!Spec

-----------------------------------------------------------------------------
\* The composition, and what its run checks.

\* All the variables of the composition.
parts == <<part, vars, pairing, sessions, settings, install, rules>>
\* A behaviour of the composition is one of each part: each steps or stutters.
LEMMA Runs == MCSpec => Spec /\ P!Spec /\ A!Spec /\ S!Spec /\ I!Spec
  <1>1. MCInit => Init /\ P!Init /\ A!Init /\ S!Init /\ I!Init
    BY DEF MCInit
  <1>2. [MCNext]_parts => [Next]_vars
    BY DEF MCNext, parts
  <1>3. [MCNext]_parts => [P!Next]_P!vars
    BY DEF MCNext, parts, pairing, P!vars
  <1>4. [MCNext]_parts => [A!Next]_A!vars
    BY DEF MCNext, parts, sessions, A!vars
  <1>5. [MCNext]_parts => [S!Next]_S!vars
    BY DEF MCNext, parts, settings, S!vars
  <1>6. [MCNext]_parts => [I!Next]_I!vars
    BY DEF MCNext, parts, install, I!vars
  <1> QED BY <1>1, <1>2, <1>3, <1>4, <1>5, <1>6, PTL DEF MCSpec, Spec, P!Spec, A!Spec, S!Spec, I!Spec, parts

\* A change of the password signs out every other browser and leaves the one
\* that made it signed in, for any number of browsers, versions and sessions
\* (web/auth.go).
THEOREM ChangesOfPasswordSignOut == MCSpec => []ChangeSignsOut
  BY Runs, ChangesSignOut, PTL DEF ChangeSignsOut

\* The two halves of the monbooru link belong together, an approval is worth one
\* token, and both ends name the same pairing unless one could not know better,
\* for any apps, attempts and lost calls (web/pairing.go, web/pairing_approver.go).
THEOREM PairingsStayTrue == MCSpec => []PairingsAgree
  <1>1. PairingInv => PairingsAgree
    BY PairingHolds DEF PairingsAgree
  <1> QED BY <1>1, Runs, PairingsAlwaysAgree, PTL

\* An attempt that was canceled, removed or replaced is never paired, though a
\* poll was already out with the approval (web/pairing.go, pollPairing).
THEOREM WhatEndedIsNotPaired == MCSpec => EndedStaysEnded
  BY Runs, PairingsAlwaysAgree, PTL DEF EndedStaysEnded

\* No job resolves with one gallery-dl and downloads with another, and a switch
\* that failed leaves one that runs, for any requests, versions, jobs and faults
\* (web/gallerydl.go, gdl/managed.go).
THEOREM SwitchesAreSafe == MCSpec => []SwitchIsSafe
  <1>1. InstallInv => SwitchIsSafe
    BY InstallHolds DEF SwitchIsSafe
  <1> QED BY <1>1, Runs, InstallAlwaysHolds, PTL

\* After a switch the catalog is of the gallery-dl that answers, or the next look
\* sees it is not, and the queue is paused as the operator last had it, for any
\* requests, versions, jobs and faults (web/gallerydl.go).
THEOREM SwitchesAreTold == MCSpec => []SwitchIsTold
  <1>1. InstallInv => SwitchIsTold
    BY InstallHolds DEF SwitchIsTold
  <1> QED BY <1>1, Runs, InstallAlwaysHolds, PTL

\* The file and what is served never part, what is derived from the settings and
\* the profiles follows each save that ran alone, and a site in the lookup chain
\* keeps its md5 search, for any requests, sequences of saves, failed writes and
\* restarts, and whatever settings the environment gives but the chain (web/router.go
\* updateConfig, web/handlers_sites.go, web/userprofiles.go).
THEOREM SavesAlwaysLand == MCSpec => []SavesLand
  <1>1. SettingsInv => SavesLand
    BY SettingsHold DEF SavesLand
  <1> QED BY <1>1, Runs, SettingsAlwaysHold, PTL

=============================================================================
