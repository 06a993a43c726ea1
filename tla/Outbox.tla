------------------------------- MODULE Outbox -------------------------------
(***************************************************************************)
(* What mailr promises a client about an outbound message, with no process *)
(* and no database: each queued recipient is offered the one letter of its *)
(* message, perhaps several times, until it is settled; it is called sent  *)
(* only when its host has the letter; and it is settled in the end.        *)
(* Relay implements this specification (Relay!RefinesOutbox).              *)
(***************************************************************************)

CONSTANTS
  Entry,  \* recipients of outbound messages
  MsgOf,  \* the message each belongs to
  Copy    \* the letters that can be composed

VARIABLES
  outcome,  \* what a client may be told about a recipient
  got       \* got[e]: the letters the recipient's host has taken

promiseVars == <<outcome, got>>

Init == /\ outcome = [e \in Entry |-> "none"]
        /\ got = [e \in Entry |-> {}]

\* The recipient is queued.
Queue(e) == /\ outcome[e] = "none"
            /\ outcome' = [outcome EXCEPT ![e] = "pending"]
            /\ UNCHANGED got

\* The host takes a letter, the one the other recipients of the message get.
Transmit(e) ==
  /\ outcome[e] = "pending"
  /\ \E c \in Copy :
       /\ \A f \in Entry : MsgOf[f] = MsgOf[e] => got[f] \subseteq {c}
       /\ got' = [got EXCEPT ![e] = {c}]
  /\ UNCHANGED outcome

Succeed(e) == /\ outcome[e] = "pending"
              /\ got[e] # {}
              /\ outcome' = [outcome EXCEPT ![e] = "sent"]
              /\ UNCHANGED got

\* The host may have the letter all the same: its answer may have been lost.
GiveUp(e) == /\ outcome[e] = "pending"
             /\ outcome' = [outcome EXCEPT ![e] = "failed"]
             /\ UNCHANGED got

Settle(e) == Succeed(e) \/ GiveUp(e)

Next == \E e \in Entry : Queue(e) \/ Transmit(e) \/ Settle(e)

Spec == Init /\ [][Next]_promiseVars

LiveSpec == Spec /\ \A e \in Entry : WF_promiseVars(Settle(e))
=============================================================================
