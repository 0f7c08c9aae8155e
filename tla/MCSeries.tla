------------------------------- MODULE MCSeries -------------------------------
(* Instances of Series for TLC. *)
EXTENDS Series, TLC

\* Everything, and a target that is no multiple of the cap.
AskedSizes == {ItemsAll, 3}

\* A target of more than two caps.
AskedFive == {5}

\* Workers are interchangeable.
Symmetric == Permutations(Workers)

=============================================================================
