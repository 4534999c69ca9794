------------------------- MODULE MCConversationContext -------------------------
(***************************************************************************)
(* Instances of ConversationContext for TLC.                               *)
(***************************************************************************)
EXTENDS ConversationContext, TLC

CONSTANTS w1, w2, e1

Symmetry == Permutations(Worker)
=============================================================================
