---------------------------- MODULE MCSubmission ----------------------------
(* Small instances of Submission. *)
EXTENDS Submission, TLC
CONSTANTS n1, n2, n3, b1, b2, b3, r1

\* n1 and n2 are two spellings of one name, n3 is another.
Homes   == b1 :> n1 @@ b2 :> n1 @@ b3 :> n2
Folded  == n1 :> n1 @@ n2 :> n1 @@ n3 :> n3

\* Two mailboxes of one domain may change places.
Neighbours == Permutations({b1, b2})
=============================================================================
