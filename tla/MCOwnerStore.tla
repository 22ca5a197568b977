---------------------------- MODULE MCOwnerStore ----------------------------
(* Instances of OwnerStore for TLC. *)
EXTENDS OwnerStore, TLC

CONSTANTS a, b, k1, k2, user

TwoNodes == {a, b}

TwoKeys == {k1, k2}

Symmetry == Permutations(TwoNodes)

Op(x, y, u) == (k1 :> x) @@ (k2 :> y) @@ (user :> u)

\* A batch over both records and the account file, a batch that deletes a
\* record and writes the other, and one for the account file alone.
SomeBatches == {Op("add", "add", "add"), Op("del", "add", "keep"),
                Op("keep", "keep", "add")}

\* An old image with one owned record.
OldImage == (k1 :> 1) @@ (k2 :> 0) @@ (user :> 1)
=============================================================================
