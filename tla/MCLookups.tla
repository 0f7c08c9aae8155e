------------------------------ MODULE MCLookups ------------------------------
(* Instances of Lookups for TLC: two jobs on one image. *)
EXTENDS Lookups, TLC

CONSTANTS j1, j2

Asks(kinds) == {[kind |-> k, sha |-> k \in {"booru", "all", "ptr"}] : k \in kinds}
MCRequests == (j1 :> Asks({"all", "ptr", "hash"}) \cup {[kind |-> "all", sha |-> FALSE]}) @@ (j2 :> Asks({"booru", "metadata", "replace"}))
MCChains   == (j1 :> {<<"saucenao">>, <<"site">>}) @@ (j2 :> {<<"saucenao", "iqdb">>})

=============================================================================
