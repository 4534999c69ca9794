--------------------------- MODULE MCAccountDeletion ---------------------------
(***************************************************************************)
(* Instances of AccountDeletion for TLC.                                   *)
(***************************************************************************)
EXTENDS AccountDeletion, TLC

CONSTANTS k1, k2, d1, d2, d3, u1, j1

\* d1 and d2 repeat one deletion; d3 comes with a key of its own.
MCKeyOf == [q \in Request |-> IF q = d3 THEN k2 ELSE k1]
MCFingerprintOf == [q \in Request |-> "empty"]

\* A deletion repeated while it goes on, and one against another key.
MCMixes == {{d1, d2}, {d1, d3}}
=============================================================================
