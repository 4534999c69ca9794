---------------------------- MODULE MCIdempotency ----------------------------
(***************************************************************************)
(* Instances of Idempotency for TLC.                                       *)
(***************************************************************************)
EXTENDS Idempotency, FiniteSets, TLC

CONSTANTS kRoom, kDelete, kVoice, kRetry, r1, r2, d1, d2, d3, v1, v2, u1, u2

\* Every shape, each with duplicates; d3 reuses the key of the deletion for another room.
MCKeyOf == [q \in Request |-> IF q \in {r1, r2} THEN kRoom ELSE IF q \in {d1, d2, d3} THEN kDelete
                              ELSE IF q \in {v1, v2} THEN kVoice ELSE kRetry]
MCFingerprintOf == [q \in Request |-> IF q = d3 THEN "b" ELSE "a"]
MCShapeOf == [k \in Key |-> IF k = kRoom THEN "single" ELSE IF k = kDelete THEN "split"
                            ELSE IF k = kVoice THEN "voice" ELSE "unkeyed"]

\* Keys share nothing: two of them at a time are enough to see that.
Used(k) == record[k] # NoRecord \/ effects[k] > 0
           \/ \E q \in Request : KeyOf[q] = k /\ seen[q] # "nothing"
TwoKeysAtATime == Cardinality({k \in Key : Used(k)}) <= 2
=============================================================================
