---------------------------- MODULE MCContributions ----------------------------
EXTENDS Contributions, TLC
Symmetric == Permutations(Callers)
Put(f)  == [ask |-> "put", of |-> f]
Take(f) == [ask |-> "take", of |-> f]
\* One fact stands, and the other does not.
OneStands == {{"m"}, {"r"}}
\* A put with a take, where one is refused the other is staged alone and packing
\* swaps them; and the two other edits, each alone.
PutAndTake == {<<Put("m"), Take("r")>>, <<Put("r")>>, <<Take("m")>>}
==============================================================================
