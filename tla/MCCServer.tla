----------------------------- MODULE MCCServer ------------------------------
(* Devices and symmetry for TLC. *)
EXTENDS CServer, TLC

CONSTANTS i1, i2, p1, p2, r1, r2

\* Two devices, and the first again with another credential.
SomeRequests ==
    {[id |-> i1, pub |-> p1, role |-> r1], [id |-> i1, pub |-> p1, role |-> r2],
     [id |-> i2, pub |-> p2, role |-> r1]}

KeySymmetry == Permutations(Key)
=============================================================================
