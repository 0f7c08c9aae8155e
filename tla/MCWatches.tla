------------------------------ MODULE MCWatches ------------------------------
(* Instances of Watches for TLC. *)
EXTENDS Watches, TLC

=============================================================================
