----------------------------- MODULE MCDownloads -----------------------------
(* Instances of Downloads for TLC. *)
EXTENDS Downloads, TLC

Ask(kind, offset, watch) == [kind |-> kind, offset |-> offset, watch |-> watch]

\* One job of any kind; the other a search over the same posts.
AnyAndSearch ==
    1 :> ({Ask(k, 0, FALSE) : k \in Kinds} \cup {Ask(k, 0, TRUE) : k \in {"search", "book", "title"}})
    @@ 2 :> {Ask("search", 0, FALSE)}

\* A book or a title has nothing in common with a search: they run by themselves.
Beside == job[1].kind \in {"book", "title"} => job[2].status = "none"

\* Of two faults one is a skip that names no post, in a job by itself.
OneNameless == faults > 1 => Nameless(1) # {} /\ job[2].status = "none"

==============================================================================
