----------------------------- MODULE JobLifecycle -----------------------------
(***************************************************************************)
(* What the queue promises of its jobs, between two starts of the process  *)
(* and without saying how: a submitted job waits, runs on one of a fixed   *)
(* number of workers and ends in the history; only a job of the history    *)
(* runs again; a job on a worker is never discarded; and a discarded job   *)
(* never comes back.                                                       *)
(***************************************************************************)
EXTENDS Integers, FiniteSets

CONSTANTS Jobs,      \* the ids, in the order they are issued
          Capacity   \* how many jobs run at once


VARIABLE state       \* of each job

Are(s) == {j \in Jobs : state[j] = s}

Becomes(S, s) == [j \in Jobs |-> IF j \in S THEN s ELSE state[j]]

Init == state = [j \in Jobs |-> "unissued"]

\* The next id, to be run.
Submit(j) ==
    /\ state[j] = "unissued" /\ \A k \in Jobs : k < j => state[k] # "unissued"
    /\ state' = Becomes({j}, "waiting")

\* The next id, for work already done; the history may make room for it.
File(j, evicted) ==
    /\ state[j] = "unissued" /\ \A k \in Jobs : k < j => state[k] # "unissued"
    /\ state' = [Becomes(evicted, "gone") EXCEPT ![j] = "ended"]

Begin(j) ==
    /\ state[j] = "waiting"
    /\ Cardinality(Are("running")) < Capacity
    /\ state' = Becomes({j}, "running")

End(j, evicted) ==
    /\ state[j] = "running"
    /\ state' = [Becomes(evicted, "gone") EXCEPT ![j] = "ended"]

\* A cancel of waiting jobs; a long batch may itself be evicted in part.
Cancel(S, evicted) ==
    /\ S \subseteq Are("waiting")
    /\ evicted \subseteq S \cup Are("ended")
    /\ state' = [j \in Jobs |-> IF j \in evicted THEN "gone"
                                ELSE IF j \in S THEN "ended" ELSE state[j]]

RunAgain(j) ==
    /\ state[j] = "ended"
    /\ state' = Becomes({j}, "waiting")

Discard(S) ==
    /\ S \subseteq Are("waiting") \cup Are("ended")
    /\ state' = Becomes(S, "gone")

Next ==
    \/ \E j \in Jobs : Submit(j) \/ Begin(j) \/ RunAgain(j)
    \/ \E j \in Jobs, evicted \in SUBSET Are("ended") : File(j, evicted) \/ End(j, evicted)
    \/ \E S \in SUBSET Jobs, evicted \in SUBSET Jobs : Cancel(S, evicted)
    \/ \E S \in SUBSET Jobs : Discard(S)

Spec == Init /\ [][Next]_state

=============================================================================
