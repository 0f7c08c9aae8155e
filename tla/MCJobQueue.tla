------------------------------ MODULE MCJobQueue ------------------------------
(* Instances of JobQueue for TLC: small sets of goroutines and ids. *)
EXTENDS JobQueue, TLC

\* Goroutines of a kind are interchangeable.
Symmetric == Permutations(Workers) \cup Permutations(Callers)

=============================================================================
