----------------------------- MODULE MCAccounts -----------------------------
(* One user at first, with three devices. *)
EXTENDS Accounts, TLC

CONSTANTS n1, n2, i1, i2, i3, d1, d2, d3, d4

OneUser == [i \in {i1} |-> n1]
ThreeDevices == <<d1, d2, d3>>

Body(c) == [f \in DOMAIN NoChange |-> IF f \in DOMAIN c THEN c[f] ELSE NoChange[f]]
Rename == Body([name |-> n2])
Deactivate == Body([status |-> "inactive"])
Login == Body([device |-> <<"add", d4>>])
Logout == Body([device |-> <<"remove", d1>>])

Harmless == {Deactivate, Login, Logout}
SomeChanges == {Rename, Deactivate, Login, Logout}
Symmetry == Permutations(Requests)
=============================================================================
