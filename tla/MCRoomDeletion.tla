---------------------------- MODULE MCRoomDeletion ----------------------------
(***************************************************************************)
(* Instances of RoomDeletion for TLC.                                      *)
(***************************************************************************)
EXTENDS RoomDeletion, TLC

CONSTANTS kVoice, kDelete, kAgain, v1, v2, d1, d2, pVoice, pTts, w1, w2

\* Voice messages under one key, and deletions of the room under two.
MCKeyOf == [q \in Request |-> IF q \in {v1, v2} THEN kVoice
                              ELSE IF q = d1 THEN kDelete ELSE kAgain]
MCFingerprintOf == [q \in Request |-> "a"]
MCPathOf == [q \in Request \cap {v1, v2} |-> pVoice]

\* A deletion against a voice message, against another one, and a message sent twice.
MCMixes == {{v1, d1}, {d1, d2}, {v1, v2}}
=============================================================================
