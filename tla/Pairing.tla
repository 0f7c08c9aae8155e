------------------------------ MODULE Pairing ------------------------------
(***************************************************************************)
(* How monloader gets and gives API tokens: the pairing with monbooru,     *)
(* which monloader asks for and polls (web/pairing.go), the pairing of an  *)
(* extension, which asks monloader and polls it                            *)
(* (web/pairing_approver.go, shared/pairing), and the operator's own       *)
(* tokens (web/auth.go, shared/apitoken).                                  *)
(*                                                                         *)
(* A handler is split where another request may come in between: at every  *)
(* call to monbooru, between taking an attempt and saving its tokens,      *)
(* between the claim of an approval and the save that mints its token,     *)
(* and between finding a bearer's token and removing its pairing.          *)
(* updateConfig holds its lock from the read to the save, so each use of   *)
(* it is one step that may fail.                                           *)
(*                                                                         *)
(* monbooru itself is not in this repository.  It is modelled by what      *)
(* monloader expects of it: one pending request for each app, and a token  *)
(* that arrives once, on approval (client.go:641).                         *)
(***************************************************************************)
EXTENDS Naturals, FiniteSets

CONSTANTS
    Apps,           \* the extensions that ask to pair
    Managed,        \* those of them with a remove-pairing control
    PendingCap,     \* shared/pairing's MaxPending
    MaxRequests,    \* bound: pairings asked for on either side and tokens created
    MaxPolls,       \* bound: polls of one side under way together
    MaxFaults       \* bound: saves that fail and answers that are lost

Monbooru == "monbooru"
Nobody == "nobody"      \* the peer of a token that was not paired, and the app of no request
None == 0

VARIABLES
    tokens,     \* config: the API tokens, [paired, of]: the peer each is for
                \* (Nobody for the operator's own) and the request it came from
    apiToken,   \* config: the attempt whose token monloader shows monbooru
    attempt,    \* the attempt being polled (Server.pairAttempt)
    offered,    \* attempts monbooru has answered and no setPairAttempt yet
    polls,      \* polls of monbooru under way, [att, at]
    removal,    \* the removal of the monbooru pairing under way, [tok, at]
    theirs,     \* monbooru: what became of each attempt
    link,       \* monbooru: the attempt its working pairing came from
    reqs,       \* the extensions' requests, by number: [app, state, claimed]
    mints,      \* claimed requests whose token is being minted or handed over
    teardowns,  \* peers whose teardown is authorised and not yet done
    asked,      \* how many requests the extensions have filed
    own,        \* how many tokens the operator has created
    minted,     \* ghost: tokens minted, counted by request
    ended,      \* ghost: attempts canceled, removed or replaced before a poll took them
    dropped,    \* ghost: attempts whose token monbooru handed out for nothing
    parted,     \* ghost: one end changed the pairing and the other could not hear of it
    faults      \* saves failed and answers lost

vars == <<tokens, apiToken, attempt, offered, polls, removal, theirs, link, reqs,
          mints, teardowns, asked, own, minted, ended, dropped, parted, faults>>

outbound == <<apiToken, attempt, offered, polls, removal, theirs, link, ended, dropped, parted>>
inbound == <<reqs, mints, asked, minted>>

Attempts == 1..MaxRequests
Asks == 1..MaxRequests
NoReq == [app |-> Nobody, state |-> "none", claimed |-> FALSE]
NoRemoval == [tok |-> None, at |-> "none"]
Made == {k \in Attempts : theirs[k] # "none"}

Room == Cardinality(Made) + asked + own < MaxRequests

Init ==
    /\ tokens = {} /\ apiToken = None /\ attempt = None /\ link = None
    /\ offered = {} /\ polls = {} /\ mints = {} /\ teardowns = {}
    /\ ended = {} /\ dropped = {} /\ parted = FALSE
    /\ removal = NoRemoval
    /\ theirs = [k \in Attempts |-> "none"]
    /\ reqs = [n \in Asks |-> NoReq]
    /\ minted = [n \in Asks |-> 0]
    /\ asked = 0 /\ own = 0 /\ faults = 0

PairedWith(peer) == {t \in tokens : t.paired = peer}

\* One of the bounded faults: a save refused, an answer lost.
Fault == faults < MaxFaults /\ faults' = faults + 1

\* A pairing replaces whatever the peer had.
Repaired(peer, n) == (tokens \ PairedWith(peer)) \cup {[paired |-> peer, of |-> n]}

-----------------------------------------------------------------------------
(* monloader asks monbooru *)

\* startMonbooruPairing: monbooru files the request, in place of the pending
\* one it had.  A call that fails leaves nothing behind.
Connect ==
    /\ Room
    /\ LET k == Cardinality(Made) + 1 IN
       /\ theirs' = [j \in Attempts |-> IF j = k THEN "pending"
                       ELSE IF theirs[j] = "pending" THEN "gone" ELSE theirs[j]]
       /\ offered' = offered \cup {k}
    /\ UNCHANGED <<tokens, apiToken, attempt, polls, removal, link, inbound, teardowns, own, ended, dropped, parted, faults>>

\* The answer makes the request the attempt the page polls.
SetAttempt(k) ==
    /\ k \in offered
    /\ offered' = offered \ {k}
    /\ ended' = IF attempt = None THEN ended ELSE ended \cup {attempt}
    /\ attempt' = k
    /\ UNCHANGED <<tokens, apiToken, polls, removal, theirs, link, inbound, teardowns, own, dropped, parted, faults>>

PollStart ==
    /\ attempt # None
    /\ Cardinality(polls) < MaxPolls
    /\ polls' = polls \cup {[att |-> attempt, at |-> "ask"]}
    /\ UNCHANGED <<tokens, apiToken, attempt, offered, removal, theirs, link, inbound, teardowns, own, ended, dropped, parted, faults>>

Advance(p, at) == polls' = (polls \ {p}) \cup {[p EXCEPT !.at = at]}

\* monbooru answers a poll.  The poll that finds the approval takes the
\* token with it: monbooru's pairing is the new one from here on, and a later
\* poll finds no request.
PollAnswer(p) ==
    /\ p \in polls /\ p.at = "ask"
    /\ IF theirs[p.att] = "approved"
       THEN /\ theirs' = [theirs EXCEPT ![p.att] = "gone"]
            /\ link' = p.att
            /\ Advance(p, "token")
       ELSE /\ Advance(p, IF theirs[p.att] \in {"denied", "gone"} THEN "over" ELSE "wait")
            /\ UNCHANGED <<theirs, link>>
    /\ UNCHANGED <<tokens, apiToken, attempt, offered, removal, inbound, teardowns, own, ended, dropped, parted, faults>>

\* The answer is lost or still "pending": the page goes on waiting.
PollWaits(p) ==
    /\ p \in polls /\ p.at \in {"token", "wait"}
    /\ polls' = polls \ {p}
    /\ IF p.at = "token"
       THEN Fault /\ dropped' = dropped \cup {p.att}
       ELSE UNCHANGED <<dropped, faults>>
    /\ UNCHANGED <<tokens, apiToken, attempt, offered, removal, theirs, link, inbound, teardowns, own, ended, parted>>

\* Denied or unknown: the attempt is cleared, whichever it is by now.
PollOver(p) ==
    /\ p \in polls /\ p.at = "over"
    /\ polls' = polls \ {p}
    /\ attempt' = None
    /\ UNCHANGED <<tokens, apiToken, offered, removal, theirs, link, inbound, teardowns, own, ended, dropped, parted, faults>>

\* mutant: the attempt is taken without comparing it
TakesAny(att) == TRUE

\* takePairAttempt: compare and clear.
Takes(att) == attempt = att

PollTake(p) ==
    /\ p \in polls /\ p.at = "token"
    /\ IF Takes(p.att)
       THEN attempt' = None /\ Advance(p, "save") /\ UNCHANGED dropped
       ELSE polls' = polls \ {p} /\ dropped' = dropped \cup {p.att} /\ UNCHANGED attempt
    /\ UNCHANGED <<tokens, apiToken, offered, removal, theirs, link, inbound, teardowns, own, ended, parted, faults>>

\* mutant: the token of the old pairing is left in the list
CommittedBeside(k) == tokens' = tokens \cup {[paired |-> Monbooru, of |-> k]} /\ apiToken' = k

\* Both halves of the link change in one save.
Committed(k) == tokens' = Repaired(Monbooru, k) /\ apiToken' = k

\* The save of a taken attempt.  One that fails puts the attempt back.  One
\* that comes after monbooru's pairing has moved on pairs one end only, as
\* does one a removal then undoes with the older token in hand.
PollSave(p) ==
    /\ p \in polls /\ p.at = "save"
    /\ polls' = polls \ {p}
    /\ \/ /\ Committed(p.att)
          /\ parted' = (parted \/ link # p.att \/ removal.at = "save")
          /\ UNCHANGED <<attempt, dropped, faults>>
       \/ /\ Fault
          /\ attempt' = p.att
          /\ dropped' = dropped \cup {p.att}
          /\ UNCHANGED <<tokens, apiToken, parted>>
    /\ UNCHANGED <<offered, removal, theirs, link, inbound, teardowns, own, ended>>

PollStep == \E p \in polls : PollAnswer(p) \/ PollWaits(p) \/ PollOver(p) \/ PollTake(p) \/ PollSave(p)

\* monbooruPairCancel
Cancel ==
    /\ attempt # None
    /\ ended' = ended \cup {attempt}
    /\ attempt' = None
    /\ UNCHANGED <<tokens, apiToken, offered, polls, removal, theirs, link, inbound, teardowns, own, dropped, parted, faults>>

\* mutant: the token is read once the config has lost it
ToldWithout == None

\* The token is kept before the config loses it (client.go:659).
ToldWith == apiToken

\* monbooruPairRemove: the attempt goes first, then the pairing, then monbooru is
\* told.
Remove ==
    /\ removal = NoRemoval
    /\ attempt # None \/ apiToken # None
    /\ ended' = IF attempt = None THEN ended ELSE ended \cup {attempt}
    /\ attempt' = None
    /\ removal' = [tok |-> ToldWith, at |-> "save"]
    /\ UNCHANGED <<tokens, apiToken, offered, polls, theirs, link, inbound, teardowns, own, dropped, parted, faults>>

\* removePairingLocal
Unpaired(peer) ==
    /\ tokens' = tokens \ PairedWith(peer)
    /\ apiToken' = IF peer = Monbooru THEN None ELSE apiToken

\* A removal that cannot be saved is logged and monbooru is told all the same.
RemoveSave ==
    /\ removal.at = "save"
    /\ removal' = [removal EXCEPT !.at = "tell"]
    /\ \/ Unpaired(Monbooru) /\ UNCHANGED <<parted, faults>>
       \/ Fault /\ parted' = TRUE /\ UNCHANGED <<tokens, apiToken>>
    /\ UNCHANGED <<attempt, offered, polls, theirs, link, inbound, teardowns, own, ended, dropped>>

\* notifyMonbooruTeardown: monbooru drops the pairing the token is of.
RemoveTell ==
    /\ removal.at = "tell"
    /\ removal' = NoRemoval
    /\ \/ /\ link' = IF removal.tok = link THEN None ELSE link
          /\ UNCHANGED <<parted, faults>>
       \/ removal.tok # None /\ Fault /\ parted' = TRUE /\ UNCHANGED link
    /\ UNCHANGED <<tokens, apiToken, attempt, offered, polls, theirs, inbound, teardowns, own, ended, dropped>>

-----------------------------------------------------------------------------
(* monbooru, external *)

TheirDecision(k) ==
    /\ theirs[k] = "pending"
    /\ \E d \in {"approved", "denied"} : theirs' = [theirs EXCEPT ![k] = d]
    /\ UNCHANGED <<tokens, apiToken, attempt, offered, polls, removal, link, inbound, teardowns, own, ended, dropped, parted, faults>>

\* A restart of monbooru or its time limit.
TheirExpiry(k) ==
    /\ theirs[k] \in {"pending", "approved", "denied"}
    /\ theirs' = [theirs EXCEPT ![k] = "gone"]
    /\ UNCHANGED <<tokens, apiToken, attempt, offered, polls, removal, link, inbound, teardowns, own, ended, dropped, parted, faults>>

\* monbooru's operator removes the pairing; its call finds the token
\* (extPairTeardown) or is refused or lost.
TheirRemoval ==
    /\ link # None
    /\ link' = None
    /\ \/ /\ [paired |-> Monbooru, of |-> link] \in tokens
          /\ teardowns' = teardowns \cup {Monbooru}
          /\ UNCHANGED <<parted, faults>>
       \/ /\ [paired |-> Monbooru, of |-> link] \notin tokens
          /\ parted' = TRUE
          /\ UNCHANGED <<teardowns, faults>>
       \/ Fault /\ parted' = TRUE /\ UNCHANGED teardowns
    /\ UNCHANGED <<tokens, apiToken, attempt, offered, polls, removal, theirs, inbound, own, ended, dropped>>

-----------------------------------------------------------------------------
(* an extension asks monloader *)

Pending(app) == {n \in Asks : reqs[n].app = app /\ reqs[n].state = "pending"}

\* mutant: an app's earlier request stays when it asks again
FiledBeside(n, app) == reqs' = [reqs EXCEPT ![n] = [app |-> app, state |-> "pending", claimed |-> FALSE]]

\* Store.Create: a new request replaces the app's pending one.
Filed(n, app) ==
    reqs' = [m \in Asks |-> IF m = n THEN [app |-> app, state |-> "pending", claimed |-> FALSE]
                            ELSE IF m \in Pending(app) THEN NoReq ELSE reqs[m]]

\* extPairRequest, Offer
Ask(app) ==
    /\ Room
    /\ PairedWith(app) = {}
    /\ Cardinality({n \in Asks : reqs[n].state = "pending" /\ reqs[n].app # app}) < PendingCap
    /\ asked' = asked + 1
    /\ Filed(asked + 1, app)
    /\ UNCHANGED <<tokens, outbound, mints, teardowns, own, minted, faults>>

\* monsenderPairApprove, monsenderPairDeny: SetState moves a pending request only.
Decide(n) ==
    /\ reqs[n].state = "pending"
    /\ \E d \in {"approved", "denied"} : reqs' = [reqs EXCEPT ![n].state = d]
    /\ UNCHANGED <<tokens, outbound, mints, teardowns, asked, own, minted, faults>>

\* sweepLocked, by age alone: a request goes whatever became of it.
Sweep(n) ==
    /\ reqs[n] # NoReq
    /\ reqs' = [reqs EXCEPT ![n] = NoReq]
    /\ UNCHANGED <<tokens, outbound, mints, teardowns, asked, own, minted, faults>>

\* mutant: a claim does not look at an earlier one
ClaimableTwice(n) == reqs[n].state = "approved"

\* Store.Claim wins once for an approval.
Claimable(n) == reqs[n].state = "approved" /\ ~reqs[n].claimed

\* Poll, up to the claim.  A poll that claims nothing changes nothing.
Claim(n) ==
    /\ Claimable(n)
    /\ Cardinality(mints) < MaxPolls
    /\ reqs' = [reqs EXCEPT ![n].claimed = TRUE]
    /\ \E slot \in 1..MaxPolls :
         /\ \A m \in mints : m.slot # slot
         /\ mints' = mints \cup {[slot |-> slot, req |-> n, app |-> reqs[n].app, at |-> "mint"]}
    /\ UNCHANGED <<tokens, outbound, teardowns, asked, own, minted, faults>>

\* mintExtToken.  A save that fails gives the claim back, if the request is
\* still there.
Mint(m) ==
    /\ m \in mints /\ m.at = "mint"
    /\ \/ /\ tokens' = Repaired(m.app, m.req)
          /\ minted' = [minted EXCEPT ![m.req] = @ + 1]
          /\ mints' = (mints \ {m}) \cup {[m EXCEPT !.at = "hand"]}
          /\ UNCHANGED <<reqs, faults>>
       \/ /\ Fault
          /\ reqs' = IF reqs[m.req] = NoReq THEN reqs ELSE [reqs EXCEPT ![m.req].claimed = FALSE]
          /\ mints' = mints \ {m}
          /\ UNCHANGED <<tokens, minted>>
    /\ UNCHANGED <<outbound, teardowns, asked, own>>

\* Poll's last step: the request goes and the answer carries the token.
Hand(m) ==
    /\ m \in mints /\ m.at = "hand"
    /\ reqs' = [reqs EXCEPT ![m.req] = NoReq]
    /\ mints' = mints \ {m}
    /\ UNCHANGED <<tokens, outbound, teardowns, asked, own, minted, faults>>

\* An extension's teardown call, found by the hash of its token.
TheirTeardown(app) ==
    /\ PairedWith(app) # {}
    /\ app \notin teardowns
    /\ teardowns' = teardowns \cup {app}
    /\ UNCHANGED <<tokens, outbound, inbound, own, faults>>

\* The second half of extPairTeardown: whatever the peer is paired by now goes.
Teardown(peer) ==
    /\ peer \in teardowns
    /\ teardowns' = teardowns \ {peer}
    /\ \/ /\ Unpaired(peer)
          /\ parted' = (parted \/ (peer = Monbooru /\ link # None))
          /\ UNCHANGED faults
       \/ Fault /\ parted' = (parted \/ peer = Monbooru) /\ UNCHANGED <<tokens, apiToken>>
    /\ UNCHANGED <<attempt, offered, polls, removal, theirs, link, inbound, own, ended, dropped>>

\* monsenderPairRemove
RemoveExt(app) ==
    /\ app \in Managed /\ PairedWith(app) # {}
    /\ tokens' = tokens \ PairedWith(app)
    /\ UNCHANGED <<outbound, inbound, teardowns, own, faults>>

-----------------------------------------------------------------------------
(* the operator's tokens *)

\* settingsTokenCreate
Create ==
    /\ Room
    /\ own' = own + 1
    /\ tokens' = tokens \cup {[paired |-> Nobody, of |-> own + 1]}
    /\ UNCHANGED <<outbound, inbound, teardowns, faults>>

\* mutant: every token can be revoked from the list
RevocableAny(t) == TRUE

\* hasPairingTeardown: a peer with a remove-pairing control keeps its token.
Revocable(t) == t.paired \notin Managed \cup {Monbooru}

\* settingsTokenRevoke
Revoke(t) ==
    /\ t \in tokens /\ Revocable(t)
    /\ tokens' = tokens \ {t}
    /\ UNCHANGED <<outbound, inbound, teardowns, own, faults>>

\* A restart keeps the config and monbooru, and loses every request.
Restart ==
    /\ asked > 0 \/ Made # {}
    /\ Fault
    /\ attempt' = None /\ offered' = {} /\ polls' = {} /\ mints' = {} /\ teardowns' = {}
    /\ removal' = NoRemoval
    /\ reqs' = [n \in Asks |-> NoReq]
    /\ dropped' = dropped \cup {p.att : p \in {q \in polls : q.at \in {"token", "save"}}}
    /\ parted' = (parted \/ Monbooru \in teardowns \/ removal.at = "tell")
    /\ UNCHANGED <<tokens, apiToken, theirs, link, asked, own, minted, ended>>

Next ==
    \/ Connect \/ PollStart \/ PollStep \/ Cancel \/ Remove \/ RemoveSave \/ RemoveTell
    \/ \E k \in Attempts : SetAttempt(k) \/ TheirDecision(k) \/ TheirExpiry(k)
    \/ TheirRemoval
    \/ \E app \in Apps : Ask(app) \/ TheirTeardown(app) \/ RemoveExt(app)
    \/ \E n \in Asks : Decide(n) \/ Sweep(n) \/ Claim(n)
    \/ \E m \in mints : Mint(m) \/ Hand(m)
    \/ \E peer \in teardowns : Teardown(peer)
    \/ Create \/ \E t \in tokens : Revoke(t)
    \/ Restart

Spec == Init /\ [][Next]_vars

-----------------------------------------------------------------------------
(* Properties *)

\* However polls, removals, teardowns and the token list interleave, no peer
\* has two tokens, and the two halves of the monbooru link come from one
\* approval: the token monbooru shows monloader is in the list exactly while
\* monloader has the token of the same request to show monbooru.
LinkIsWhole ==
    /\ \A t, u \in tokens : t.paired # Nobody /\ t.paired = u.paired => t = u
    /\ {t.of : t \in PairedWith(Monbooru)} = (IF apiToken = None THEN {} ELSE {apiToken})

\* One approval is worth one token, however many polls collect it and
\* however often a mint fails, and an app has one request to approve.
OneTokenPerApproval ==
    /\ \A n \in Asks : minted[n] <= 1
    /\ \A app \in Apps : Cardinality(Pending(app)) <= 1

\* An attempt the operator canceled, removed or replaced before a poll took
\* it is never paired, though a poll was already out with the approval.
EndedStaysEnded == [][apiToken' # apiToken => apiToken' \notin ended]_vars

\* With nothing under way both ends name the same pairing, or have none,
\* unless monbooru handed a token out for nothing (its answer was lost, the
\* attempt had ended, the save failed) or one end changed the pairing and the
\* other could not hear of it (a lost teardown, a removal that could not be
\* saved, a save that came after monbooru's pairing had moved on or in the
\* middle of a removal).
EndsAgree ==
    (polls = {} /\ removal = NoRemoval /\ teardowns = {}) =>
        \/ link = apiToken
        \/ parted
        \/ link \in dropped
=============================================================================
