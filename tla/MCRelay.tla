------------------------------ MODULE MCRelay ------------------------------
(* Small instances of Relay. *)
EXTENDS Relay, TLC

CONSTANTS m1, m2, e1, e2, e3

\* One message with one recipient, one with two, or two messages that compete
\* for the batch.
OneRecipient    == e1 :> m1
TwoRecipients   == e1 :> m1 @@ e2 :> m1
TwoMessages     == e1 :> m1 @@ e2 :> m2
ThreeRecipients == e1 :> m1 @@ e2 :> m1 @@ e3 :> m2
=============================================================================
