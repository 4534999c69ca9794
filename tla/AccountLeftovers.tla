--------------------------- MODULE AccountLeftovers ----------------------------
(***************************************************************************)
(* What the deletion of an account promises about the files it leaves: a   *)
(* statement over the part of the state of AccountDeletion that is visible *)
(* in the database and in the object store, and one history variable.      *)
(***************************************************************************)
VARIABLES
    user,      \* the row in auth.users, with its sessions and all that cascades
    objects,   \* files under the user's prefix
    late       \* history: files that arrived when a deletion had made its last check

\* A file that survives its user arrived after a deletion had looked for the last
\* time (the second listing of delete_account): what was there before is gone,
\* whoever brought it and however many deletions failed, stopped or took over from
\* each other.
LeftoverIsLate == user = "deleted" => objects \subseteq late
=============================================================================
