----------------------------- MODULE MCInbound -----------------------------
(* Small instances of Inbound. *)
EXTENDS Inbound, TLC

CONSTANTS n1, n2, b1, b2, b3, m1, m2

\* One mailbox; two of one domain; of two domains; two of one and one of another.
OneHome  == b1 :> n1
Shared   == b1 :> n1 @@ b2 :> n1
Apart    == b1 :> n1 @@ b3 :> n2
Homes    == b1 :> n1 @@ b2 :> n1 @@ b3 :> n2

\* Who the mail is for.
ToOne     == m1 :> <<b1>>
ToSame    == m1 :> <<b1, b2>>
ToBoth    == m1 :> <<b1, b3>>
ToThree   == m1 :> <<b1, b3, b2>>
TwoMails  == m1 :> <<b1>> @@ m2 :> <<b1>>
TwoShared == m1 :> <<b1, b2>> @@ m2 :> <<b2>>
=============================================================================
