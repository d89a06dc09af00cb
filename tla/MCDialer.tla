------------------------------ MODULE MCDialer ------------------------------
(* Dialer for TLC: model values, and the symmetries of the safety runs. *)
EXTENDS Dialer, TLC

CONSTANTS w1, w2, a1, a2, c1, c2, c3, c4

OneWorker   == {w1}
TwoWorkers  == {w1, w2}
OneAgent    == {a1}
TwoAgents   == {a1, a2}
OneContact  == {c1}
TwoContacts == {c1, c2}
FourContacts == {c1, c2, c3, c4}

Symmetry == Permutations(Workers) \cup Permutations(Agents) \cup Permutations(Contacts)

=============================================================================
