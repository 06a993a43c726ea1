---------------------------- MODULE RelayProofs ----------------------------
(***************************************************************************)
(* Proofs about Relay for every number of messages, recipients, attempts,  *)
(* restarts and SQL errors.                                                *)
(*                                                                         *)
(* The safety properties are not inductive.  What makes them so is that    *)
(* the rows processQueue carries in memory are still what is in the table  *)
(* when it acts on them (SnapshotsCurrent): nobody else writes them, and a *)
(* row is looked at once per fetch.                                        *)
(***************************************************************************)
EXTENDS Relay, FiniteSetTheorems, TLAPS

\* The row is still as PendingQueue read it.
Current(q) == qstatus[q.id] = "pending" /\ attempts[q.id] = q.attempts

\* The relay has an entry in hand whose attempt is not yet recorded.
InHand == pc \in {"compose", "deliver", "record"}

\* Deliveries of e that no UPDATE has counted yet.
InFlight(e) == IF pc = "record" /\ cur.id = e THEN 1 ELSE 0

(* Typing. *)

CurTyped == pc \in {"compose", "deliver", "record", "check", "mark"} => cur \in Snapshot

ResultTyped == /\ pc = "record" => result \in {"ok", "error"}
               /\ pc = "mark" => result \in Settled

TypeInv == TypeOK /\ CurTyped /\ ResultTyped

SnapshotsCurrent == /\ \A q \in batch : Current(q)
                    /\ InHand => Current(cur) /\ \A q \in batch : q.id # cur.id

PendingHasBudget ==
  \A e \in Entry : /\ qstatus[e] \in {"none", "lost"} => attempts[e] = 0 /\ tries[e] = 0
                   /\ qstatus[e] = "pending" => attempts[e] < MaxAttempts
                   /\ attempts[e] <= MaxAttempts

TriesCounted ==
  \A e \in Entry : tries[e] <= attempts[e] + InFlight(e) + restarts + faults

CountIsReal ==
  faults = 0 => \A e \in Entry : attempts[e] + InFlight(e) <= tries[e]

FailedAtLimit ==
  faults = 0 => \A e \in Entry : qstatus[e] = "failed" => attempts[e] = MaxAttempts

OkWasAccepted == pc = "record" /\ result = "ok" => mailbox[cur.id] # {}

QueueInv == /\ SnapshotsCurrent
            /\ PendingHasBudget
            /\ TriesCounted
            /\ CountIsReal
            /\ FailedAtLimit
            /\ OkWasAccepted
            /\ SentWasAccepted

\* One message, one letter: what goes out is what the database keeps.
BytesInv ==
  faults = 0 =>
    /\ pc \in {"deliver", "record"} => copy = raw[MsgOf[cur.id]]
    /\ pc = "compose" => raw[MsgOf[cur.id]] = NoCopy
    /\ pc \in {"deliver", "record"} => copy # NoCopy
    /\ \A e \in Entry : mailbox[e] # {} => raw[MsgOf[e]] # NoCopy
    /\ \A e \in Entry : mailbox[e] \subseteq {raw[MsgOf[e]]}

\* What a sent message may have left behind, see SentVerdictBudget.
Lost(m) == {e \in EntriesOf(m) : qstatus[e] = "lost"}
Budget(m) == restarts + faults + IF Judging(m) THEN 1 ELSE 0

LostBudget   == \A m \in Msg : Cardinality(Lost(m)) <= faults
SentIsServed == pc = "mark" /\ result = "sent" =>
                  \A e \in EntriesOf(MsgOf[cur.id]) : qstatus[e] # "failed"

BudgetInv == LostBudget /\ SentIsServed /\ SentVerdictBudget

-----------------------------------------------------------------------------
(* Typing. *)

\* The delay after an attempt is a number of minutes.
LEMMA BackoffType == \A n \in Nat : Backoff(n) \in Nat
  BY DEF Backoff

\* What processQueue writes after an attempt is a status of the queue.
LEMMA OutcomeType == \A n \in Nat, res \in {"ok", "error"} : Outcome(n, res) \in QueueStatus
  BY DEF Outcome, QueueStatus

\* The database's columns stay typed under an UpdateQueue.
LEMMA UpdateQueueType ==
  ASSUME TypeOK, NEW e \in Entry, NEW n \in Nat, NEW st \in QueueStatus, NEW w \in Int,
         UpdateQueue(e, n, st, w)
  PROVE  /\ attempts' \in [Entry -> Nat]
         /\ qstatus' \in [Entry -> {"none", "lost"} \union QueueStatus]
         /\ wait' \in [Entry -> Int]
  BY DEF TypeOK, UpdateQueue

LEMMA TypeInit == Init => TypeInv
  BY RelayAssumption DEF Init, TypeInv, TypeOK, CurTyped, ResultTyped, Copy, NoCopy, QueueStatus

\* Every step keeps the types.
LEMMA TypeStep == TypeInv /\ [Next]_vars => TypeInv'
<1> SUFFICES ASSUME TypeInv, [Next]_vars PROVE TypeInv'
  OBVIOUS
<1> USE RelayAssumption DEF TypeInv
<1>1. ASSUME NEW m \in Msg, Accept(m) PROVE TypeInv'
  BY <1>1 DEF Accept, SQLErrors, TypeOK, CurTyped, ResultTyped, relayVars, worldVars
<1>2. ASSUME NEW m \in Msg, Respond(m) PROVE TypeInv'
  BY <1>2 DEF Respond, TypeOK, CurTyped, ResultTyped, dbVars, relayVars, worldVars
<1>3. ASSUME NEW e \in Entry, Enqueue(e) PROVE TypeInv'
  BY <1>3 DEF Enqueue, SQLErrors, TypeOK, CurTyped, ResultTyped, relayVars, worldVars, QueueStatus
<1>4. CASE GenerateKey
  BY <1>4 DEF GenerateKey, TypeOK, CurTyped, ResultTyped, relayVars, worldVars
<1>5. CASE DeleteDomain
  BY <1>5 DEF DeleteDomain, TypeOK, CurTyped, ResultTyped, relayVars, worldVars
<1>6. CASE Fetch
  <2>1. PICK b \in Batches : batch' = {[id |-> e, attempts |-> attempts[e]] : e \in b}
    BY <1>6 DEF Fetch
  <2>2. batch' \subseteq Snapshot
    BY <2>1 DEF Batches, Snapshot, TypeOK
  <2> QED
    BY <1>6, <2>2 DEF Fetch, Continue, TypeOK, CurTyped, ResultTyped, dbVars, worldVars, Copy, NoCopy
<1>7. ASSUME NEW q \in batch, Load(q) PROVE TypeInv'
  BY <1>7 DEF Load, GetRawMessage, SQLErrors, TypeOK, CurTyped, ResultTyped, dbVars, worldVars,
              Snapshot, Copy, NoCopy
<1>8. ASSUME NEW q \in batch, LoadFails(q) PROVE TypeInv'
  <2>1. q.id \in Entry /\ q.attempts + 1 \in Nat
    BY DEF TypeOK, Snapshot
  <2>2. /\ attempts' \in [Entry -> Nat]
        /\ qstatus' \in [Entry -> {"none", "lost"} \union QueueStatus]
        /\ wait' \in [Entry -> Int]
    <3>1. CASE UpdateQueue(q.id, q.attempts + 1, "failed", 0)
      BY <2>1, <3>1, UpdateQueueType DEF QueueStatus
    <3>2. CASE UNCHANGED <<attempts, qstatus, wait>>
      BY <3>2 DEF TypeOK
    <3> QED
      BY <1>8, <3>1, <3>2 DEF LoadFails
  <2> QED
    BY <1>8, <2>2 DEF LoadFails, SQLErrors, Continue, TypeOK, CurTyped, ResultTyped, worldVars, Copy, NoCopy
<1>9. CASE Compose
  <2>1. cur \in Snapshot /\ MsgOf[cur.id] \in Msg
    BY <1>9 DEF Compose, CurTyped, Snapshot
  <2>2. PICK found, saved \in BOOLEAN :
          /\ SQLErrors((IF found THEN 0 ELSE 1) + (IF saved THEN 0 ELSE 1))
          /\ composed' = [composed EXCEPT ![MsgOf[cur.id]] = @ + 1]
          /\ copy' = [id |-> composed[MsgOf[cur.id]] + 1, key |-> IF found /\ domain THEN dkim ELSE 0]
          /\ raw' = IF saved THEN [raw EXCEPT ![MsgOf[cur.id]] = copy'] ELSE raw
    BY <1>9 DEF Compose
  <2>3. copy' \in Copy
    BY <2>1, <2>2 DEF TypeOK, Copy
  <2>4. composed' \in [Msg -> Nat] /\ raw' \in [Msg -> Copy] /\ faults' \in Nat
    BY <2>1, <2>2, <2>3 DEF TypeOK, SQLErrors
  <2> QED
    BY <1>9, <2>1, <2>3, <2>4 DEF Compose, TypeOK, CurTyped, ResultTyped, worldVars
<1>10. CASE Deliver
  <2>1. cur \in Snapshot /\ cur.id \in Entry
    BY <1>10 DEF Deliver, CurTyped, Snapshot
  <2>2. tries' \in [Entry -> Nat]
    BY <1>10, <2>1 DEF Deliver, TypeOK
  <2>3. mailbox' \in [Entry -> SUBSET Copy] /\ result' \in {"ok", "error"}
    BY <1>10, <2>1 DEF Deliver, TypeOK
  <2> QED
    BY <1>10, <2>1, <2>2, <2>3 DEF Deliver, TypeOK, CurTyped, ResultTyped, dbVars
<1>11. CASE Record
  <2> DEFINE n  == cur.attempts + 1
             st == Outcome(n, result)
  <2>1. cur \in Snapshot /\ cur.id \in Entry /\ n \in Nat
    BY <1>11 DEF Record, CurTyped, Snapshot
  <2>2. st \in QueueStatus
    BY <1>11, <2>1, OutcomeType DEF Record, ResultTyped
  <2>3. (IF st = "pending" THEN Backoff(n) ELSE 0) \in Int
    BY <2>1, BackoffType
  <2>4. /\ attempts' \in [Entry -> Nat]
        /\ qstatus' \in [Entry -> {"none", "lost"} \union QueueStatus]
        /\ wait' \in [Entry -> Int]
    <3>1. CASE UpdateQueue(cur.id, n, st, IF st = "pending" THEN Backoff(n) ELSE 0)
      BY <2>1, <2>2, <2>3, <3>1, UpdateQueueType
    <3>2. CASE UNCHANGED <<attempts, qstatus, wait>>
      BY <3>2 DEF TypeOK
    <3> QED
      BY <1>11, <3>1, <3>2 DEF Record
  <2> HIDE DEF n, st
  <2> QED
    BY <1>11, <2>1, <2>4 DEF Record, SQLErrors, Continue, TypeOK, CurTyped, ResultTyped, worldVars, Copy, NoCopy
<1>12. CASE Check
  BY <1>12 DEF Check, SQLErrors, Continue, TypeOK, CurTyped, ResultTyped, dbVars, worldVars,
               Copy, NoCopy, Settled
<1>13. CASE Mark
  BY <1>13 DEF Mark, SQLErrors, Continue, TypeOK, CurTyped, ResultTyped, worldVars, Copy, NoCopy, Settled
<1>14. CASE Elapse
  BY <1>14 DEF Elapse, TypeOK, CurTyped, ResultTyped, relayVars, worldVars
<1>15. CASE Restart
  BY <1>15 DEF Restart, Continue, TypeOK, CurTyped, ResultTyped, dbVars, worldVars, Copy, NoCopy
<1>16. CASE UNCHANGED vars
  BY <1>16 DEF vars, dbVars, relayVars, worldVars, TypeOK, CurTyped, ResultTyped
<1> QED
  BY <1>1, <1>2, <1>3, <1>4, <1>5, <1>6, <1>7, <1>8, <1>9, <1>10, <1>11, <1>12, <1>13,
     <1>14, <1>15, <1>16 DEF Next, HandlerStep, RelayStep

\* Type correctness: every variable, and with it every column the code
\* writes, stays within the values the code gives it.
THEOREM TypeCorrect == Spec => []TypeOK
<1>1. TypeInv => TypeOK
  BY DEF TypeInv
<1> QED
  BY <1>1, TypeInit, TypeStep, PTL DEF Spec

-----------------------------------------------------------------------------
(* The queue invariant. *)

\* All that QueueInv reads of the relay and the queue.
queueVars == <<qstatus, attempts, pc, batch, cur, result, tries, mailbox>>

\* SQL errors are only ever added up.
LEMMA SQLErrorsGrow ==
  ASSUME faults \in Nat, NEW n \in Nat, SQLErrors(n)
  PROVE  faults' \in Nat /\ faults' >= faults /\ (faults' = 0 => faults = 0 /\ n = 0)
  BY DEF SQLErrors

\* A step of somebody else cannot hurt the queue invariant.
LEMMA QueueUntouched ==
  ASSUME TypeInv, QueueInv, UNCHANGED queueVars,
         restarts' \in Nat, restarts' >= restarts,
         faults' \in Nat, faults' >= faults
  PROVE  QueueInv'
  BY DEF queueVars, TypeInv, TypeOK, QueueInv, SnapshotsCurrent, Current, InHand,
         PendingHasBudget, TriesCounted, CountIsReal, InFlight, FailedAtLimit,
         OkWasAccepted, SentWasAccepted

LEMMA QueueInit == Init => QueueInv
  BY RelayAssumption
  DEF Init, QueueInv, SnapshotsCurrent, Current, InHand, PendingHasBudget, TriesCounted,
      CountIsReal, InFlight, FailedAtLimit, OkWasAccepted, SentWasAccepted

\* A new row starts without attempts; no fetched row is touched by it.
LEMMA EnqueueKeeps ==
  ASSUME TypeInv, QueueInv, NEW e \in Entry, Enqueue(e)
  PROVE  QueueInv'
<1> USE RelayAssumption DEF TypeInv, QueueInv
<1>1. /\ UNCHANGED <<attempts, pc, batch, cur, result, tries, mailbox, restarts>>
      /\ qstatus[e] = "none"
      /\ qstatus' = [qstatus EXCEPT ![e] = "pending"] \/ qstatus' = [qstatus EXCEPT ![e] = "lost"]
      /\ faults' \in Nat /\ faults' >= faults /\ (faults' = 0 => faults = 0)
  BY DEF Enqueue, SQLErrors, relayVars, worldVars, TypeOK
<1>2. SnapshotsCurrent'
  BY <1>1 DEF SnapshotsCurrent, Current, InHand, TypeOK, CurTyped, Snapshot
<1>3. PendingHasBudget'
  BY <1>1 DEF PendingHasBudget, TypeOK
<1>4. (TriesCounted /\ CountIsReal)'
  BY <1>1 DEF TriesCounted, CountIsReal, InFlight, TypeOK
<1>5. (FailedAtLimit /\ OkWasAccepted /\ SentWasAccepted)'
  BY <1>1 DEF FailedAtLimit, OkWasAccepted, SentWasAccepted, TypeOK
<1> QED
  BY <1>2, <1>3, <1>4, <1>5

\* A fetch reads what is in the table.
LEMMA FetchKeeps ==
  ASSUME TypeInv, QueueInv, Fetch
  PROVE  QueueInv'
<1> USE DEF TypeInv, QueueInv
<1>1. /\ UNCHANGED <<qstatus, attempts, tries, mailbox, restarts, faults>>
      /\ pc = "idle" /\ pc' \in {"idle", "loop"}
  BY DEF Fetch, Continue, dbVars, worldVars
<1>2. PICK b \in Batches : batch' = {[id |-> e, attempts |-> attempts[e]] : e \in b}
  BY DEF Fetch
<1>3. b \subseteq {e \in Entry : qstatus[e] = "pending"}
  BY DEF Batches, IsDue
<1>4. SnapshotsCurrent'
  BY <1>1, <1>2, <1>3 DEF SnapshotsCurrent, Current, InHand
<1>5. (PendingHasBudget /\ TriesCounted /\ CountIsReal)'
  BY <1>1 DEF PendingHasBudget, TriesCounted, CountIsReal, InFlight
<1>6. (FailedAtLimit /\ OkWasAccepted /\ SentWasAccepted)'
  BY <1>1 DEF FailedAtLimit, OkWasAccepted, SentWasAccepted
<1> QED
  BY <1>4, <1>5, <1>6

\* The entry in hand is not among the fetched ones any more.
LEMMA LoadKeeps ==
  ASSUME TypeInv, QueueInv, NEW q \in batch, Load(q)
  PROVE  QueueInv'
<1> USE DEF TypeInv, QueueInv
<1>1. /\ UNCHANGED <<qstatus, attempts, tries, mailbox, restarts>>
      /\ pc = "loop" /\ pc' \in {"compose", "deliver"}
      /\ batch' = batch \ {q} /\ cur' = q
      /\ faults' \in Nat /\ faults' >= faults /\ (faults' = 0 => faults = 0)
  BY DEF Load, SQLErrors, dbVars, worldVars, TypeOK
<1>2. \A r \in batch \ {q} : r.id # q.id
  BY DEF SnapshotsCurrent, Current, TypeOK, Snapshot
<1>3. SnapshotsCurrent'
  BY <1>1, <1>2 DEF SnapshotsCurrent, Current, InHand
<1>4. (PendingHasBudget /\ TriesCounted /\ CountIsReal)'
  BY <1>1 DEF PendingHasBudget, TriesCounted, CountIsReal, InFlight, TypeOK
<1>5. (FailedAtLimit /\ OkWasAccepted /\ SentWasAccepted)'
  BY <1>1 DEF FailedAtLimit, OkWasAccepted, SentWasAccepted
<1> QED
  BY <1>3, <1>4, <1>5

\* "message not found" settles one row and costs at least one SQL error.
LEMMA LoadFailsKeeps ==
  ASSUME TypeInv, QueueInv, NEW q \in batch, LoadFails(q)
  PROVE  QueueInv'
<1> USE RelayAssumption DEF TypeInv, QueueInv
<1>1. /\ UNCHANGED <<tries, mailbox, restarts>>
      /\ pc = "loop" /\ pc' \in {"idle", "loop"}
      /\ batch' = batch \ {q}
      /\ faults' \in Nat /\ faults' >= faults /\ faults' # 0
  BY DEF LoadFails, SQLErrors, Continue, worldVars, TypeOK
<1>2. q \in Snapshot /\ q.id \in Entry /\ Current(q) /\ q.attempts < MaxAttempts
  BY DEF TypeOK, Snapshot, SnapshotsCurrent, Current, PendingHasBudget
<1>3. \A r \in batch' : r.id \in Entry /\ r.id # q.id
  BY <1>1, <1>2 DEF SnapshotsCurrent, Current, TypeOK, Snapshot
<1>4. \/ UNCHANGED <<attempts, qstatus>>
      \/ /\ attempts' = [attempts EXCEPT ![q.id] = q.attempts + 1]
         /\ qstatus' = [qstatus EXCEPT ![q.id] = "failed"]
  BY DEF LoadFails, UpdateQueue
<1>5. SnapshotsCurrent'
  BY <1>1, <1>2, <1>3, <1>4 DEF SnapshotsCurrent, Current, InHand, TypeOK
<1>6. PendingHasBudget'
  BY <1>1, <1>2, <1>4 DEF PendingHasBudget, Current, TypeOK, Snapshot
<1>7. TriesCounted'
  BY <1>1, <1>2, <1>4 DEF TriesCounted, InFlight, Current, TypeOK, Snapshot
<1>8. (CountIsReal /\ FailedAtLimit)'
  BY <1>1 DEF CountIsReal, FailedAtLimit
<1>9. (OkWasAccepted /\ SentWasAccepted)'
  BY <1>1, <1>4 DEF OkWasAccepted, SentWasAccepted, TypeOK
<1> QED
  BY <1>5, <1>6, <1>7, <1>8, <1>9

\* Composing changes neither the queue nor what is in hand.
LEMMA ComposeKeeps ==
  ASSUME TypeInv, QueueInv, Compose
  PROVE  QueueInv'
<1> USE DEF TypeInv, QueueInv
<1>1. /\ UNCHANGED <<qstatus, attempts, tries, mailbox, restarts, batch, cur>>
      /\ pc = "compose" /\ pc' = "deliver"
      /\ faults' \in Nat /\ faults' >= faults /\ (faults' = 0 => faults = 0)
  BY DEF Compose, SQLErrors, worldVars, TypeOK
<1>2. SnapshotsCurrent'
  BY <1>1 DEF SnapshotsCurrent, Current, InHand
<1>3. (PendingHasBudget /\ TriesCounted /\ CountIsReal)'
  BY <1>1 DEF PendingHasBudget, TriesCounted, CountIsReal, InFlight, TypeOK
<1>4. (FailedAtLimit /\ OkWasAccepted /\ SentWasAccepted)'
  BY <1>1 DEF FailedAtLimit, OkWasAccepted, SentWasAccepted
<1> QED
  BY <1>2, <1>3, <1>4

\* A delivery is in flight until it is recorded.
LEMMA DeliverKeeps ==
  ASSUME TypeInv, QueueInv, Deliver
  PROVE  QueueInv'
<1> USE DEF TypeInv, QueueInv
<1>1. /\ UNCHANGED <<qstatus, attempts, restarts, faults, batch, cur>>
      /\ pc = "deliver" /\ pc' = "record"
      /\ tries' = [tries EXCEPT ![cur.id] = @ + 1]
  BY DEF Deliver, dbVars
<1>2. cur.id \in Entry /\ Current(cur)
  BY <1>1 DEF CurTyped, Snapshot, SnapshotsCurrent, InHand
<1>3. PICK accepted, ok \in BOOLEAN :
        /\ ok => accepted
        /\ mailbox' = IF accepted THEN [mailbox EXCEPT ![cur.id] = @ \union {copy}] ELSE mailbox
        /\ result' = IF ok THEN "ok" ELSE "error"
  BY DEF Deliver, MayReport
<1>4. SnapshotsCurrent'
  BY <1>1 DEF SnapshotsCurrent, Current, InHand
<1>5. PendingHasBudget'
  BY <1>1, <1>2 DEF PendingHasBudget, Current, TypeOK
<1>6. (TriesCounted /\ CountIsReal)'
  BY <1>1, <1>2 DEF TriesCounted, CountIsReal, InFlight, TypeOK
<1>7. FailedAtLimit'
  BY <1>1 DEF FailedAtLimit
<1>8. OkWasAccepted'
  BY <1>1, <1>2, <1>3 DEF OkWasAccepted, TypeOK
<1>9. SentWasAccepted'
  BY <1>1, <1>2, <1>3 DEF SentWasAccepted, TypeOK
<1> QED
  BY <1>4, <1>5, <1>6, <1>7, <1>8, <1>9

\* The attempt is counted, or its UPDATE failed; the rows still to be looked
\* at are other rows.
LEMMA RecordKeeps ==
  ASSUME TypeInv, QueueInv, Record
  PROVE  QueueInv'
<1> USE RelayAssumption DEF TypeInv, QueueInv
<1> DEFINE e  == cur.id
           n  == cur.attempts + 1
           st == Outcome(n, result)
<1>1. /\ e \in Entry /\ n \in Nat /\ Current(cur)
      /\ pc = "record" /\ result \in {"ok", "error"}
      /\ qstatus[e] = "pending" /\ attempts[e] + 1 = n /\ n <= MaxAttempts
  BY DEF Record, CurTyped, ResultTyped, Snapshot, SnapshotsCurrent, InHand, Current,
         PendingHasBudget, TypeOK
<1>2. /\ UNCHANGED <<tries, mailbox, restarts, batch>>
      /\ pc' \in {"idle", "loop", "check"}
  BY DEF Record, Continue, worldVars
<1>3. \/ /\ attempts' = [attempts EXCEPT ![e] = n]
         /\ qstatus' = [qstatus EXCEPT ![e] = st]
         /\ faults' = faults
      \/ /\ UNCHANGED <<attempts, qstatus>>
         /\ faults' = faults + 1
  BY DEF Record, UpdateQueue, SQLErrors, TypeOK
<1>4. /\ st = "pending" => n < MaxAttempts
      /\ st = "failed" => n = MaxAttempts
      /\ st = "sent" => result = "ok"
      /\ st \in QueueStatus
  BY <1>1, OutcomeType DEF Outcome
<1>5. st \in {"pending", "sent", "failed"}
  BY <1>4 DEF QueueStatus
<1>6. \A q \in batch : q.id \in Entry /\ q.id # e
  BY <1>1 DEF SnapshotsCurrent, InHand, TypeOK, Snapshot
<1> HIDE DEF n, st, e
<1>7. SnapshotsCurrent'
  BY <1>2, <1>3, <1>6 DEF SnapshotsCurrent, Current, InHand, TypeOK
<1>8. PendingHasBudget'
  BY <1>1, <1>2, <1>3, <1>4, <1>5 DEF PendingHasBudget, TypeOK
<1>9. TriesCounted'
  BY <1>1, <1>2, <1>3 DEF TriesCounted, InFlight, TypeOK, e
<1>10. CountIsReal'
  BY <1>1, <1>2, <1>3 DEF CountIsReal, InFlight, TypeOK, e
<1>11. FailedAtLimit'
  BY <1>1, <1>3, <1>4 DEF FailedAtLimit, TypeOK
<1>12. OkWasAccepted'
  BY <1>2 DEF OkWasAccepted
<1>13. SentWasAccepted'
  BY <1>1, <1>2, <1>3, <1>4 DEF SentWasAccepted, OkWasAccepted, TypeOK, e
<1> QED
  BY <1>7, <1>8, <1>9, <1>10, <1>11, <1>12, <1>13

\* checkMessageDone leaves the queue alone.
LEMMA CheckKeeps ==
  ASSUME TypeInv, QueueInv, Check \/ Mark
  PROVE  QueueInv'
<1> USE DEF TypeInv, QueueInv
<1>1. /\ UNCHANGED <<qstatus, attempts, tries, mailbox, restarts, batch>>
      /\ pc \in {"check", "mark"} /\ pc' \in {"idle", "loop", "mark"}
      /\ faults' \in Nat /\ faults' >= faults /\ (faults' = 0 => faults = 0)
  BY DEF Check, Mark, SQLErrors, Continue, dbVars, worldVars, TypeOK
<1>2. SnapshotsCurrent'
  BY <1>1 DEF SnapshotsCurrent, Current, InHand
<1>3. (PendingHasBudget /\ TriesCounted /\ CountIsReal)'
  BY <1>1 DEF PendingHasBudget, TriesCounted, CountIsReal, InFlight, TypeOK
<1>4. (FailedAtLimit /\ OkWasAccepted /\ SentWasAccepted)'
  BY <1>1 DEF FailedAtLimit, OkWasAccepted, SentWasAccepted
<1> QED
  BY <1>2, <1>3, <1>4

\* A restart forgets what was in hand; a delivery in flight goes uncounted.
LEMMA RestartKeeps ==
  ASSUME TypeInv, QueueInv, Restart
  PROVE  QueueInv'
<1> USE DEF TypeInv, QueueInv
<1>1. /\ UNCHANGED <<qstatus, attempts, tries, mailbox, faults>>
      /\ batch' = {} /\ pc' = "idle" /\ restarts' = restarts + 1
  BY DEF Restart, Continue, dbVars, worldVars
<1>2. SnapshotsCurrent'
  BY <1>1 DEF SnapshotsCurrent, InHand
<1>3. (PendingHasBudget /\ TriesCounted /\ CountIsReal)'
  BY <1>1 DEF PendingHasBudget, TriesCounted, CountIsReal, InFlight, TypeOK
<1>4. (FailedAtLimit /\ OkWasAccepted /\ SentWasAccepted)'
  BY <1>1 DEF FailedAtLimit, OkWasAccepted, SentWasAccepted
<1> QED
  BY <1>2, <1>3, <1>4

\* Every step keeps the queue invariant.
LEMMA QueueStep == TypeInv /\ QueueInv /\ [Next]_vars => QueueInv'
<1> SUFFICES ASSUME TypeInv, QueueInv, [Next]_vars PROVE QueueInv'
  OBVIOUS
<1>1. ASSUME UNCHANGED queueVars, restarts' = restarts,
             faults' = faults \/ (\E n \in {0, 1} : SQLErrors(n))
      PROVE  QueueInv'
  BY <1>1, QueueUntouched DEF SQLErrors, TypeInv, TypeOK
<1>2. ASSUME NEW m \in Msg, Accept(m) PROVE QueueInv'
  BY <1>1, <1>2 DEF Accept, queueVars, relayVars, worldVars
<1>3. ASSUME NEW m \in Msg, Respond(m) PROVE QueueInv'
  BY <1>1, <1>3 DEF Respond, queueVars, dbVars, relayVars, worldVars
<1>4. CASE GenerateKey
  BY <1>1, <1>4 DEF GenerateKey, queueVars, relayVars, worldVars
<1>5. CASE DeleteDomain
  BY <1>1, <1>5 DEF DeleteDomain, queueVars, relayVars, worldVars
<1>6. CASE Elapse
  BY <1>1, <1>6 DEF Elapse, queueVars, relayVars, worldVars
<1>7. CASE UNCHANGED vars
  BY <1>1, <1>7 DEF vars, queueVars, dbVars, relayVars, worldVars
<1> QED
  BY <1>2, <1>3, <1>4, <1>5, <1>6, <1>7, EnqueueKeeps, FetchKeeps, LoadKeeps, LoadFailsKeeps,
     ComposeKeeps, DeliverKeeps, RecordKeeps, CheckKeeps, RestartKeeps
  DEF Next, HandlerStep, RelayStep

LEMMA Invariance == Spec => [](TypeInv /\ QueueInv)
  BY TypeInit, TypeStep, QueueInit, QueueStep, PTL DEF Spec

\* A recipient that is called sent has the message, for every interleaving of
\* crashes, failed statements and lost replies.
THEOREM SentOnlyIfAccepted == Spec => []SentWasAccepted
<1>1. QueueInv => SentWasAccepted
  BY DEF QueueInv
<1> QED
  BY <1>1, Invariance, PTL

\* No recipient is delivered to more often than maxAttempts, plus once per
\* restart and per failed statement.
THEOREM AttemptsBounded == Spec => []AttemptBudget
<1>1. TypeInv /\ QueueInv => AttemptBudget
  <2> SUFFICES ASSUME TypeInv, QueueInv, NEW e \in Entry
               PROVE  tries[e] <= MaxAttempts + restarts + faults
    BY DEF AttemptBudget
  <2> USE RelayAssumption DEF TypeInv, QueueInv
  <2>1. tries[e] <= attempts[e] + InFlight(e) + restarts + faults
    BY DEF TriesCounted
  <2>2. attempts[e] + InFlight(e) <= MaxAttempts /\ InFlight(e) \in Nat
    BY DEF InFlight, PendingHasBudget, SnapshotsCurrent, Current, InHand, TypeOK
  <2> QED
    BY <2>1, <2>2 DEF TypeOK
<1> QED
  BY <1>1, Invariance, PTL

\* Without SQL errors nobody is given up before maxAttempts real deliveries.
THEOREM NotGivenUpEarly == Spec => []GivesUpOnlyAtLimit
<1>1. TypeInv /\ QueueInv => GivesUpOnlyAtLimit
  <2> SUFFICES ASSUME TypeInv, QueueInv, faults = 0, NEW e \in Entry, qstatus[e] = "failed"
               PROVE  attempts[e] = MaxAttempts /\ tries[e] >= MaxAttempts
    BY DEF GivesUpOnlyAtLimit
  <2> USE RelayAssumption DEF TypeInv, QueueInv
  <2>1. attempts[e] = MaxAttempts
    BY DEF FailedAtLimit
  <2>2. attempts[e] + InFlight(e) <= tries[e] /\ InFlight(e) \in Nat
    BY DEF CountIsReal, InFlight
  <2> QED
    BY <2>1, <2>2 DEF TypeOK
<1> QED
  BY <1>1, Invariance, PTL

\* A settled recipient is never tried or changed again.
THEOREM SettledStaysSettled == Spec => SettledIsFinal
<1> DEFINE Final == \A e \in Entry : IsSettled(e) => UNCHANGED <<qstatus[e], tries[e], mailbox[e]>>
<1>1. TypeInv /\ QueueInv /\ [Next]_vars => [Final]_vars
  <2> SUFFICES ASSUME TypeInv, QueueInv, [Next]_vars, NEW e \in Entry, IsSettled(e)
               PROVE  UNCHANGED <<qstatus[e], tries[e], mailbox[e]>>
    OBVIOUS
  <2> USE DEF TypeInv, QueueInv
  <2>0. qstatus[e] # "pending" /\ qstatus[e] # "none"
    BY DEF IsSettled, Settled
  <2>1. ASSUME UNCHANGED <<qstatus, tries, mailbox>> PROVE UNCHANGED <<qstatus[e], tries[e], mailbox[e]>>
    BY <2>1
  <2>2. ASSUME NEW f \in Entry, Enqueue(f) PROVE UNCHANGED <<qstatus[e], tries[e], mailbox[e]>>
    BY <2>0, <2>2 DEF Enqueue, worldVars, TypeOK
  <2>3. ASSUME NEW q \in batch, LoadFails(q) PROVE UNCHANGED <<qstatus[e], tries[e], mailbox[e]>>
    BY <2>0, <2>3 DEF LoadFails, UpdateQueue, SnapshotsCurrent, Current, worldVars, TypeOK
  <2>4. CASE Deliver
    <3>1. cur.id \in Entry /\ cur.id # e
      BY <2>0, <2>4 DEF Deliver, CurTyped, Snapshot, SnapshotsCurrent, InHand, Current
    <3> QED
      BY <2>4, <3>1 DEF Deliver, dbVars, TypeOK
  <2>5. CASE Record
    <3>1. cur.id \in Entry /\ cur.id # e
      BY <2>0, <2>5 DEF Record, CurTyped, Snapshot, SnapshotsCurrent, InHand, Current
    <3>2. /\ UNCHANGED <<tries, mailbox>>
          /\ UNCHANGED qstatus \/ \E st : qstatus' = [qstatus EXCEPT ![cur.id] = st]
      BY <2>5 DEF Record, UpdateQueue, worldVars
    <3> QED
      BY <3>1, <3>2 DEF TypeOK
  <2>6. CASE \/ \E m \in Msg : Accept(m) \/ Respond(m)
             \/ GenerateKey \/ DeleteDomain \/ Fetch \/ Compose \/ Check \/ Mark
             \/ \E q \in batch : Load(q)
             \/ Elapse \/ Restart \/ UNCHANGED vars
    BY <2>1, <2>6 DEF Accept, Respond, GenerateKey, DeleteDomain, Fetch, Compose, Check, Mark,
                      Load, Elapse, Restart, vars, dbVars, worldVars
  <2> QED
    BY <2>2, <2>3, <2>4, <2>5, <2>6 DEF Next, HandlerStep, RelayStep
<1>2. [Final]_vars => [\A e \in Entry : IsSettled(e) => UNCHANGED <<qstatus[e], tries[e], mailbox[e]>>]_vars
  OBVIOUS
<1> QED
  BY <1>1, <1>2, Invariance, PTL DEF Spec, SettledIsFinal

-----------------------------------------------------------------------------
(* One message, one letter. *)

bytesVars == <<raw, pc, cur, copy, mailbox>>

LEMMA BytesInit == Init => BytesInv
  BY DEF Init, BytesInv

\* A step that ends what was in hand, or takes nothing in hand, and writes
\* neither raw_data nor a mailbox.
LEMMA BytesIdle ==
  ASSUME TypeInv, BytesInv, UNCHANGED <<raw, mailbox>>, faults' = 0 => faults = 0,
         pc' \in {"idle", "loop", "check", "mark"}
  PROVE  BytesInv'
  BY DEF BytesInv

\* A step that sees neither the bytes nor what is in hand.
LEMMA BytesUntouched ==
  ASSUME TypeInv, BytesInv, UNCHANGED bytesVars, faults' = 0 => faults = 0
  PROVE  BytesInv'
  BY DEF BytesInv, bytesVars

\* A message is composed only while nobody has it, and stored before it goes
\* out.
LEMMA ComposeBytes ==
  ASSUME TypeInv, BytesInv, Compose
  PROVE  BytesInv'
<1> USE RelayAssumption DEF TypeInv
<1> DEFINE m == MsgOf[cur.id]
<1> SUFFICES ASSUME faults' = 0
             PROVE  /\ copy' = raw'[MsgOf'[cur'.id]] /\ copy' # NoCopy
                    /\ \A e \in Entry : mailbox'[e] # {} => raw'[MsgOf[e]] # NoCopy
                    /\ \A e \in Entry : mailbox'[e] \subseteq {raw'[MsgOf[e]]}
  BY DEF BytesInv, Compose
<1>1. cur.id \in Entry /\ m \in Msg /\ pc = "compose"
  BY DEF Compose, CurTyped, Snapshot
<1>2. PICK found, saved \in BOOLEAN :
        /\ SQLErrors((IF found THEN 0 ELSE 1) + (IF saved THEN 0 ELSE 1))
        /\ copy' = [id |-> composed[m] + 1, key |-> IF found /\ domain THEN dkim ELSE 0]
        /\ raw' = IF saved THEN [raw EXCEPT ![m] = copy'] ELSE raw
  BY DEF Compose
<1>3. faults = 0 /\ saved
  BY <1>2 DEF SQLErrors, TypeOK
<1>4. raw' = [raw EXCEPT ![m] = copy'] /\ UNCHANGED <<cur, mailbox>>
  BY <1>2, <1>3 DEF Compose, worldVars
<1>5. copy' # NoCopy
  BY <1>1, <1>2 DEF NoCopy, TypeOK
<1>6. \A e \in Entry : MsgOf[e] = m => mailbox[e] = {}
  BY <1>1, <1>3 DEF BytesInv
<1>7. raw'[m] = copy' /\ \A e \in Entry : MsgOf[e] # m => raw'[MsgOf[e]] = raw[MsgOf[e]]
  BY <1>1, <1>4 DEF TypeOK
<1> QED
  BY <1>3, <1>4, <1>5, <1>6, <1>7 DEF BytesInv

\* What is handed to the host is what raw_data holds.
LEMMA DeliverBytes ==
  ASSUME TypeInv, BytesInv, Deliver
  PROVE  BytesInv'
<1> USE DEF TypeInv
<1>1. /\ cur.id \in Entry /\ pc = "deliver" /\ pc' = "record"
      /\ UNCHANGED <<raw, cur, copy, faults>>
  BY DEF Deliver, CurTyped, Snapshot, dbVars
<1>2. mailbox' = mailbox \/ mailbox' = [mailbox EXCEPT ![cur.id] = @ \union {copy}]
  BY DEF Deliver
<1> QED
  BY <1>1, <1>2 DEF BytesInv, TypeOK

\* Every step keeps the letters.
LEMMA BytesStep == TypeInv /\ BytesInv /\ [Next]_vars => BytesInv'
<1> SUFFICES ASSUME TypeInv, BytesInv, [Next]_vars PROVE BytesInv'
  OBVIOUS
<1>0. \A n \in Nat : SQLErrors(n) => (faults' = 0 => faults = 0 /\ n = 0)
  BY DEF SQLErrors, TypeInv, TypeOK
<1>1. CASE \/ \E m \in Msg : Accept(m) \/ Respond(m)
           \/ \E e \in Entry : Enqueue(e)
           \/ GenerateKey \/ DeleteDomain \/ Elapse \/ UNCHANGED vars
  <2>1. UNCHANGED bytesVars
    BY <1>1 DEF Accept, Respond, Enqueue, GenerateKey, DeleteDomain, Elapse, vars, bytesVars,
                dbVars, relayVars, worldVars
  <2>2. faults' = 0 => faults = 0
    BY <1>0, <1>1 DEF Accept, Respond, Enqueue, GenerateKey, DeleteDomain, Elapse, vars
  <2> QED
    BY <2>1, <2>2, BytesUntouched
<1>2. CASE Fetch \/ Record \/ Check \/ Mark \/ Restart \/ \E q \in batch : LoadFails(q)
  <2>1. UNCHANGED <<raw, mailbox>> /\ pc' \in {"idle", "loop", "check", "mark"}
    BY <1>2 DEF Fetch, Record, Check, Mark, Restart, LoadFails, Continue, dbVars, worldVars
  <2>2. faults' = 0 => faults = 0
    BY <1>0, <1>2 DEF Fetch, Record, Check, Mark, Restart, LoadFails
  <2> QED
    BY <2>1, <2>2, BytesIdle
<1>3. ASSUME NEW q \in batch, Load(q) PROVE BytesInv'
  <2>1. /\ UNCHANGED <<raw, mailbox>> /\ cur' = q
        /\ pc' = IF copy' = NoCopy THEN "compose" ELSE "deliver"
    BY <1>3 DEF Load, dbVars, worldVars
  <2>2. faults' = 0 => faults = 0 /\ copy' = raw[MsgOf[q.id]]
    BY <1>0, <1>3 DEF Load, GetRawMessage
  <2> QED
    BY <2>1, <2>2 DEF BytesInv
<1> QED
  BY <1>1, <1>2, <1>3, ComposeBytes, DeliverBytes DEF Next, HandlerStep, RelayStep

\* Without SQL errors all the recipients of a message, in all attempts and
\* over all restarts, key changes and domain deletions, get the same bytes.
THEOREM OneLetter == Spec => []SameBytes
<1>1. BytesInv => SameBytes
  <2> SUFFICES ASSUME BytesInv, faults = 0, NEW e \in Entry, NEW f \in Entry, MsgOf[e] = MsgOf[f],
                      NEW c \in mailbox[e], NEW d \in mailbox[f]
               PROVE  c = d
    BY DEF SameBytes
  <2> QED
    BY DEF BytesInv
<1> QED
  BY <1>1, TypeInit, TypeStep, BytesInit, BytesStep, PTL DEF Spec

-----------------------------------------------------------------------------
(* The relay implements Outbox, as long as no SQL statement fails. *)

\* The letters of the promise: those that can be composed without an error.
Letter == [id : 1..(1 + MaxFaults), key : 0..MaxKeys]

LetterInv == /\ faults <= MaxFaults
             /\ dkim <= MaxKeys
             /\ \A m \in Msg : \/ raw[m] = NoCopy /\ (faults = 0 => composed[m] = 0)
                               \/ raw[m] \in Letter
             /\ \A m \in Msg : composed[m] <= 1 + faults
             /\ faults = 0 /\ pc = "compose" => composed[MsgOf[cur.id]] = 0

LEMMA LetterInit == Init => LetterInv
  BY RelayAssumption DEF Init, LetterInv

\* While no statement has failed only one letter is composed for a message.
LEMMA LetterStep ==
  MaxFaults = 0 /\ TypeInv /\ BytesInv /\ LetterInv /\ [Next]_vars => LetterInv'
<1> SUFFICES ASSUME MaxFaults = 0, TypeInv, BytesInv, LetterInv, [Next]_vars PROVE LetterInv'
  OBVIOUS
<1> USE RelayAssumption DEF TypeInv
<1>0. faults = 0 /\ \A n \in Nat : SQLErrors(n) => n = 0 /\ faults' = 0
  BY DEF SQLErrors, LetterInv, TypeOK
<1>1. ASSUME faults' = 0, UNCHANGED <<raw, composed>>, dkim' <= MaxKeys, pc' # "compose"
      PROVE  LetterInv'
  BY <1>0, <1>1 DEF LetterInv, Letter
<1>2. ASSUME faults' = 0, UNCHANGED <<raw, composed, pc, cur>>, dkim' <= MaxKeys
      PROVE  LetterInv'
  BY <1>0, <1>2 DEF LetterInv, Letter
<1>3. CASE \/ \E m \in Msg : Accept(m) \/ Respond(m)
           \/ \E e \in Entry : Enqueue(e)
           \/ DeleteDomain \/ GenerateKey \/ Elapse \/ UNCHANGED vars
  <2>1. UNCHANGED <<raw, composed, pc, cur>>
    BY <1>3 DEF Accept, Respond, Enqueue, DeleteDomain, GenerateKey, Elapse, vars, dbVars, relayVars
  <2>2. faults' = 0
    BY <1>0, <1>3 DEF Accept, Respond, Enqueue, DeleteDomain, GenerateKey, Elapse, vars
  <2>3. dkim' <= MaxKeys
    BY <1>3 DEF Accept, Respond, Enqueue, DeleteDomain, GenerateKey, Elapse, vars, dbVars, LetterInv, TypeOK
  <2> QED
    BY <1>2, <2>1, <2>2, <2>3
<1>4. CASE Fetch \/ Deliver \/ Record \/ Check \/ Mark \/ Restart
           \/ \E q \in batch : LoadFails(q)
  <2>1. UNCHANGED <<raw, composed, dkim>> /\ pc' # "compose"
    BY <1>4 DEF Fetch, Deliver, Record, Check, Mark, Restart, LoadFails, Continue, dbVars
  <2>2. faults' = 0
    BY <1>0, <1>4 DEF Fetch, Deliver, Record, Check, Mark, Restart, LoadFails
  <2> QED
    BY <1>1, <2>1, <2>2 DEF LetterInv
<1>5. ASSUME NEW q \in batch, Load(q) PROVE LetterInv'
  <2>1. /\ UNCHANGED <<raw, composed, dkim>> /\ cur' = q /\ faults' = 0
        /\ copy' = raw[MsgOf[q.id]]
        /\ pc' = IF copy' = NoCopy THEN "compose" ELSE "deliver"
    BY <1>0, <1>5 DEF Load, GetRawMessage, dbVars
  <2>2. MsgOf[q.id] \in Msg /\ NoCopy \notin Letter
    BY DEF TypeOK, Snapshot, NoCopy, Letter
  <2> QED
    BY <1>0, <2>1, <2>2 DEF LetterInv, Letter
<1>6. CASE Compose
  <2> DEFINE m == MsgOf[cur.id]
  <2>1. cur.id \in Entry /\ m \in Msg /\ composed[m] = 0
    BY <1>0, <1>6 DEF Compose, CurTyped, Snapshot, LetterInv
  <2>2. PICK found, saved \in BOOLEAN :
          /\ SQLErrors((IF found THEN 0 ELSE 1) + (IF saved THEN 0 ELSE 1))
          /\ composed' = [composed EXCEPT ![m] = @ + 1]
          /\ copy' = [id |-> composed[m] + 1, key |-> IF found /\ domain THEN dkim ELSE 0]
          /\ raw' = IF saved THEN [raw EXCEPT ![m] = copy'] ELSE raw
    BY <1>6 DEF Compose
  <2>3. saved /\ faults' = 0
    BY <1>0, <2>2
  <2>4. copy' \in Letter
    BY <2>1, <2>2 DEF LetterInv, Letter, TypeOK
  <2>5. pc' = "deliver" /\ dkim' = dkim
    BY <1>6 DEF Compose
  <2>6. \A k \in Msg : raw'[k] = (IF k = m THEN copy' ELSE raw[k])
                    /\ composed'[k] = (IF k = m THEN 1 ELSE composed[k])
    BY <2>1, <2>2, <2>3 DEF TypeOK
  <2> QED
    BY <1>0, <2>3, <2>4, <2>5, <2>6 DEF LetterInv, Letter
<1> QED
  BY <1>3, <1>4, <1>5, <1>6 DEF Next, HandlerStep, RelayStep

\* A delivery is a transmission of the promised letter, or nobody notices it.
LEMMA DeliverTransmits ==
  ASSUME MaxFaults = 0, TypeInv, QueueInv, BytesInv, LetterInv, Deliver,
         NEW i \in Entry, i = cur.id
  PROVE  Promise!Transmit(i) \/ UNCHANGED <<qstatus, mailbox>>
<1> USE RelayAssumption DEF TypeInv
<1>1. /\ cur.id \in Entry /\ pc = "deliver" /\ faults = 0
      /\ UNCHANGED qstatus
      /\ qstatus[cur.id] = "pending"
  BY DEF Deliver, CurTyped, Snapshot, dbVars, LetterInv, TypeOK, QueueInv, SnapshotsCurrent, InHand, Current
<1>2. mailbox' = mailbox \/ mailbox' = [mailbox EXCEPT ![cur.id] = @ \union {copy}]
  BY DEF Deliver
<1>3. copy = raw[MsgOf[cur.id]] /\ copy # NoCopy /\ MsgOf[cur.id] \in Msg
  BY <1>1 DEF BytesInv
<1>4. copy \in Letter
  BY <1>3 DEF LetterInv
<1>5. \A f \in Entry : MsgOf[f] = MsgOf[cur.id] => mailbox[f] \subseteq {copy}
  BY <1>1, <1>3 DEF BytesInv
<1>6. mailbox[cur.id] \union {copy} = {copy}
  BY <1>1, <1>5
<1>7. CASE mailbox' = [mailbox EXCEPT ![cur.id] = {copy}]
  BY <1>1, <1>4, <1>5, <1>7 DEF Promise!Transmit, Letter
<1> QED
  BY <1>1, <1>2, <1>6, <1>7 DEF TypeOK

\* Recording an attempt settles the recipient, or leaves it as it was.
LEMMA RecordSettles ==
  ASSUME MaxFaults = 0, TypeInv, QueueInv, LetterInv, Record,
         NEW i \in Entry, i = cur.id
  PROVE  Promise!Settle(i) \/ UNCHANGED <<qstatus, mailbox>>
<1> USE RelayAssumption DEF TypeInv
<1> DEFINE st == Outcome(cur.attempts + 1, result)
<1>1. /\ cur.id \in Entry /\ cur.attempts + 1 \in Nat
      /\ pc = "record" /\ result \in {"ok", "error"} /\ faults = 0
      /\ qstatus[cur.id] = "pending"
      /\ UNCHANGED mailbox
  BY DEF Record, CurTyped, ResultTyped, Snapshot, worldVars, LetterInv, TypeOK, QueueInv,
         SnapshotsCurrent, InHand, Current
<1>2. qstatus' = [qstatus EXCEPT ![cur.id] = st]
  BY <1>1 DEF Record, UpdateQueue, SQLErrors
<1>3. st \in {"pending", "sent", "failed"} /\ (st = "sent" => mailbox[cur.id] # {})
  BY <1>1, OutcomeType DEF QueueStatus, Outcome, QueueInv, OkWasAccepted
<1> HIDE DEF st
<1>4. CASE st = "pending"
  BY <1>1, <1>2, <1>4 DEF TypeOK
<1>5. CASE st \in {"sent", "failed"}
  <2> DEFINE outcome == [e \in Entry |-> IF qstatus[e] = "lost" THEN "none" ELSE qstatus[e]]
  <2>1. [e \in Entry |-> IF qstatus'[e] = "lost" THEN "none" ELSE qstatus'[e]]
          = [outcome EXCEPT ![i] = st]
    BY <1>1, <1>2, <1>5 DEF TypeOK
  <2>2. outcome[i] = "pending"
    BY <1>1
  <2> QED
    BY <1>1, <1>3, <1>5, <2>1, <2>2 DEF Promise!Settle, Promise!Succeed, Promise!GiveUp
<1> QED
  BY <1>3, <1>4, <1>5

\* Each step of the relay is a step of the promise, or nobody notices it.
LEMMA PromiseStep ==
  MaxFaults = 0 /\ TypeInv /\ QueueInv /\ BytesInv /\ LetterInv /\ [Next]_vars
    => [Promise!Next]_(Promise!promiseVars)
<1> SUFFICES ASSUME MaxFaults = 0, TypeInv, QueueInv, BytesInv, LetterInv, [Next]_vars
             PROVE  Promise!Next \/ UNCHANGED Promise!promiseVars
  OBVIOUS
<1> USE RelayAssumption DEF TypeInv
<1>0. faults = 0
  BY DEF LetterInv, TypeOK
<1>1. ASSUME UNCHANGED <<qstatus, mailbox>> PROVE UNCHANGED Promise!promiseVars
  BY <1>1 DEF Promise!promiseVars
<1>2. ASSUME NEW e \in Entry, Enqueue(e) PROVE Promise!Next
  <2>1. /\ qstatus[e] = "none" /\ qstatus' = [qstatus EXCEPT ![e] = "pending"]
        /\ UNCHANGED mailbox
    BY <1>0, <1>2 DEF Enqueue, SQLErrors, worldVars
  <2>2. Promise!Queue(e)
    BY <2>1 DEF Promise!Queue, TypeOK
  <2> QED
    BY <2>2 DEF Promise!Next
<1>3. \A q \in batch : ~LoadFails(q)
  BY <1>0 DEF LoadFails, SQLErrors
<1>4. CASE Deliver
  <2>1. cur.id \in Entry
    BY <1>4 DEF Deliver, CurTyped, Snapshot
  <2> QED
    BY <1>1, <1>4, <2>1, DeliverTransmits DEF Promise!Next
<1>5. CASE Record
  <2>1. cur.id \in Entry
    BY <1>5 DEF Record, CurTyped, Snapshot
  <2> QED
    BY <1>1, <1>5, <2>1, RecordSettles DEF Promise!Next
<1>6. CASE \/ \E m \in Msg : Accept(m) \/ Respond(m)
           \/ GenerateKey \/ DeleteDomain \/ Fetch \/ Compose \/ Check \/ Mark
           \/ \E q \in batch : Load(q)
           \/ Elapse \/ Restart \/ UNCHANGED vars
  BY <1>1, <1>6 DEF Accept, Respond, GenerateKey, DeleteDomain, Fetch, Compose, Check, Mark,
                    Load, Elapse, Restart, vars, dbVars, worldVars
<1> QED
  BY <1>2, <1>3, <1>4, <1>5, <1>6 DEF Next, HandlerStep, RelayStep

\* The relay implements the safety part of Outbox when no SQL statement
\* fails, for any number of crashes: at least once until settled, always the
\* same letter, "sent" only for what was taken.
THEOREM ImplementsOutbox == MaxFaults = 0 => (Spec => Promise!Spec)
<1> SUFFICES ASSUME MaxFaults = 0 PROVE Spec => Promise!Spec
  OBVIOUS
<1>1. Init => Promise!Init
  BY DEF Init, Promise!Init
<1>2. TypeInv /\ BytesInv /\ LetterInv /\ [Next]_vars => LetterInv'
  BY LetterStep
<1>3. TypeInv /\ QueueInv /\ BytesInv /\ LetterInv /\ [Next]_vars
        => [Promise!Next]_(Promise!promiseVars)
  BY PromiseStep
<1> QED
  BY <1>1, <1>2, <1>3, TypeInit, TypeStep, QueueInit, QueueStep, BytesInit, BytesStep, LetterInit,
     PTL DEF Spec, Promise!Spec

-----------------------------------------------------------------------------
(* What a client is told: the answer to its request and the status of its  *)
(* message.  checkMessageDone runs after every settled recipient, on rows  *)
(* that may be incomplete; the verdict is right in the end because the run *)
(* after the last one sees them all (VerdictInv).                          *)

\* A row exists only for an accepted message; a judged recipient has one.
RowInv ==
  /\ \A e \in Entry : qstatus[e] # "none" => request[MsgOf[e]] # "new"
  /\ pc \in {"check", "mark"} => qstatus[cur.id] \in QueueStatus

\* What is about to be written has a cause among the rows, now and later.
CauseInv == /\ StatusHasCause
            /\ pc = "mark" => \E e \in EntriesOf(MsgOf[cur.id]) : qstatus[e] = result

\* Only a checkMessageDone under way can still change these verdicts.
VerdictInv ==
  restarts = 0 /\ faults = 0 =>
    /\ pc = "mark" /\ result = "sent" =>
         \A e \in EntriesOf(MsgOf[cur.id]) : qstatus[e] # "failed"
    /\ \A m \in Msg : ~Judging(m) =>
         /\ (\E e \in EntriesOf(m) : qstatus[e] = "failed") => status[m] = "failed"
         /\ (\A e \in EntriesOf(m) : qstatus[e] = "sent") => status[m] = "sent"

-----------------------------------------------------------------------------

LEMMA VerdictInit == Init => RowInv /\ CauseInv /\ VerdictInv
  BY RelayAssumption
  DEF Init, RowInv, CauseInv, StatusHasCause, VerdictInv, EntriesOf, Settled

\* The rows the relay writes are those it has in hand.
LEMMA OnlyPendingChanges ==
  TypeInv /\ QueueInv /\ [Next]_vars =>
    \A e \in Entry : \/ qstatus'[e] = qstatus[e]
                     \/ qstatus[e] = "none" /\ qstatus'[e] \in {"pending", "lost"}
                     \/ qstatus[e] = "pending" /\ qstatus'[e] \in Settled
<1> SUFFICES ASSUME TypeInv, QueueInv, [Next]_vars, NEW e \in Entry
             PROVE  \/ qstatus'[e] = qstatus[e]
                    \/ qstatus[e] = "none" /\ qstatus'[e] \in {"pending", "lost"}
                    \/ qstatus[e] = "pending" /\ qstatus'[e] \in Settled
  OBVIOUS
<1> USE RelayAssumption DEF TypeInv, QueueInv
<1>1. ASSUME NEW f \in Entry, Enqueue(f)
      PROVE  \/ qstatus'[e] = qstatus[e]
             \/ qstatus[e] = "none" /\ qstatus'[e] \in {"pending", "lost"}
  BY <1>1 DEF Enqueue, TypeOK
<1>2. ASSUME NEW q \in batch, LoadFails(q)
      PROVE  \/ qstatus'[e] = qstatus[e]
             \/ qstatus[e] = "pending" /\ qstatus'[e] \in Settled
  BY <1>2 DEF LoadFails, UpdateQueue, SnapshotsCurrent, Current, Settled, TypeOK
<1>3. CASE Record
  <2>1. /\ cur.id \in Entry /\ cur.attempts + 1 \in Nat /\ qstatus[cur.id] = "pending"
        /\ result \in {"ok", "error"}
    BY <1>3 DEF Record, CurTyped, ResultTyped, Snapshot, SnapshotsCurrent, InHand, Current
  <2> DEFINE st == Outcome(cur.attempts + 1, result)
  <2>2. st \in {"pending", "sent", "failed"}
    BY <2>1, OutcomeType DEF QueueStatus
  <2>3. UNCHANGED qstatus \/ qstatus' = [qstatus EXCEPT ![cur.id] = st]
    BY <1>3 DEF Record, UpdateQueue
  <2> HIDE DEF st
  <2> QED
    BY <2>1, <2>2, <2>3 DEF Settled, TypeOK
<1>4. CASE \/ \E m \in Msg : Accept(m) \/ Respond(m)
           \/ GenerateKey \/ DeleteDomain \/ Fetch \/ Compose \/ Deliver \/ Check \/ Mark
           \/ \E q \in batch : Load(q)
           \/ Elapse \/ Restart \/ UNCHANGED vars
  BY <1>4 DEF Accept, Respond, GenerateKey, DeleteDomain, Fetch, Compose, Deliver, Check, Mark,
              Load, Elapse, Restart, vars, dbVars
<1> QED
  BY <1>1, <1>2, <1>3, <1>4 DEF Next, HandlerStep, RelayStep

\* How a message comes to be judged: through Record, Check and Mark only.
LEMMA JudgingSteps ==
  TypeInv /\ QueueInv /\ [Next]_vars =>
    \/ UNCHANGED <<pc, cur, result, status>>
    \/ \E m \in Msg : Accept(m)
    \/ Record \/ Check \/ Mark
    \/ pc \notin {"check", "mark"} /\ pc' \notin {"check", "mark"} /\ UNCHANGED status
    \/ Restart
  BY DEF Next, HandlerStep, RelayStep, Respond, Enqueue, GenerateKey, DeleteDomain, Fetch, Load,
         LoadFails, Compose, Deliver, Elapse, Continue, vars, dbVars, relayVars

\* Every step keeps the rows in order.
LEMMA RowStep == TypeInv /\ QueueInv /\ RowInv /\ [Next]_vars => RowInv'
<1> SUFFICES ASSUME TypeInv, QueueInv, RowInv, [Next]_vars PROVE RowInv'
  OBVIOUS
<1> USE RelayAssumption DEF TypeInv
<1>1. ASSUME NEW m \in Msg, Accept(m) \/ Respond(m) PROVE RowInv'
  <2>1. /\ UNCHANGED <<qstatus, pc, cur>>
        /\ \E r \in {"enqueue", "500", "201"} : request' = [request EXCEPT ![m] = r]
    BY <1>1 DEF Accept, Respond, dbVars, relayVars
  <2> QED
    BY <2>1 DEF RowInv, TypeOK
<1>2. ASSUME NEW e \in Entry, Enqueue(e) PROVE RowInv'
  <2>1. /\ UNCHANGED <<request, pc, cur>> /\ request[MsgOf[e]] = "enqueue" /\ qstatus[e] = "none"
        /\ \E st \in {"pending", "lost"} : qstatus' = [qstatus EXCEPT ![e] = st]
    BY <1>2 DEF Enqueue, relayVars
  <2>2. pc \in {"check", "mark"} => cur.id \in Entry /\ cur.id # e
    BY <2>1 DEF RowInv, QueueStatus, CurTyped, Snapshot
  <2> QED
    BY <2>1, <2>2 DEF RowInv, TypeOK
<1>3. CASE Restart
  <2>1. /\ UNCHANGED qstatus /\ pc' \notin {"check", "mark"}
        /\ request' = [m \in Msg |-> IF request[m] = "enqueue" THEN "aborted" ELSE request[m]]
    BY <1>3 DEF Restart, Continue, dbVars
  <2> QED
    BY <2>1 DEF RowInv, TypeOK
<1>4. CASE \/ GenerateKey \/ DeleteDomain \/ Fetch \/ Compose \/ Deliver \/ Record \/ Check \/ Mark
           \/ \E q \in batch : Load(q) \/ LoadFails(q)
           \/ Elapse \/ UNCHANGED vars
  <2>1. UNCHANGED request
    BY <1>4 DEF GenerateKey, DeleteDomain, Fetch, Compose, Deliver, Record, Check, Mark,
                Load, LoadFails, Elapse, vars
  <2>2. \A e \in Entry : \/ qstatus'[e] = qstatus[e]
                         \/ qstatus[e] = "pending" /\ qstatus'[e] \in Settled
    <3>1. ~ \E e \in Entry : qstatus[e] = "none" /\ qstatus'[e] # "none"
      BY <1>4, OnlyPendingChanges
      DEF GenerateKey, DeleteDomain, Fetch, Compose, Deliver, Record, Check, Mark,
          Load, LoadFails, UpdateQueue, Elapse, vars, dbVars, TypeOK, QueueInv,
          SnapshotsCurrent, Current, InHand
    <3> QED
      BY <3>1, OnlyPendingChanges
  <2>3. pc' \in {"check", "mark"} => qstatus'[cur'.id] \in QueueStatus
    <3>1. CASE Record
      <4>1. cur.id \in Entry /\ qstatus[cur.id] = "pending" /\ (pc' = "check" => cur' = cur) /\ pc' # "mark"
        BY <3>1 DEF Record, Continue, CurTyped, Snapshot, QueueInv, SnapshotsCurrent, InHand, Current
      <4> QED
        BY <4>1, <2>2 DEF QueueStatus, Settled
    <3>2. CASE ~Record
      <4>1. pc' \in {"check", "mark"} => pc \in {"check", "mark"} /\ cur' = cur /\ qstatus' = qstatus
        BY <1>4, <3>2 DEF GenerateKey, DeleteDomain, Fetch, Compose, Deliver, Check, Mark, Load,
                          LoadFails, Elapse, Continue, vars, dbVars, relayVars
      <4> QED
        BY <4>1 DEF RowInv
    <3> QED
      BY <3>1, <3>2
  <2> QED
    BY <2>1, <2>2, <2>3 DEF RowInv, Settled
<1> QED
  BY <1>1, <1>2, <1>3, <1>4 DEF Next, HandlerStep, RelayStep

\* A settled row stays a cause, see OnlyPendingChanges.
LEMMA CausesStay ==
  ASSUME TypeInv, QueueInv, [Next]_vars, NEW e \in Entry, qstatus[e] \in Settled
  PROVE  qstatus'[e] = qstatus[e]
  BY OnlyPendingChanges DEF Settled

\* Every verdict written has a cause.
LEMMA CauseStep == TypeInv /\ QueueInv /\ RowInv /\ CauseInv /\ [Next]_vars => CauseInv'
<1> SUFFICES ASSUME TypeInv, QueueInv, RowInv, CauseInv, [Next]_vars PROVE CauseInv'
  OBVIOUS
<1> USE RelayAssumption DEF TypeInv
<1>1. \A m \in Msg : status[m] \in Settled =>
        \E e \in EntriesOf(m) : qstatus'[e] = status[m]
  BY CausesStay DEF CauseInv, StatusHasCause, EntriesOf
<1>2. pc = "mark" => \E e \in EntriesOf(MsgOf[cur.id]) : qstatus'[e] = result
  BY CausesStay DEF CauseInv, ResultTyped, EntriesOf
<1>3. ASSUME UNCHANGED status PROVE StatusHasCause'
  BY <1>1, <1>3 DEF StatusHasCause, EntriesOf
<1>4. ASSUME NEW m \in Msg, Accept(m) PROVE CauseInv'
  <2>1. \/ status' = [status EXCEPT ![m] = "queued"]
        \/ UNCHANGED status
    BY <1>4 DEF Accept
  <2>2. StatusHasCause'
    BY <1>1, <2>1 DEF StatusHasCause, EntriesOf, TypeOK, Settled
  <2> QED
    BY <1>2, <1>4, <2>2 DEF CauseInv, Accept, relayVars, EntriesOf
<1>5. CASE Check
  <2> DEFINE m == MsgOf[cur.id]
  <2>1. UNCHANGED status
    BY <1>5 DEF Check, Continue, dbVars
  <2>2. cur.id \in Rows(m)
    BY <1>5 DEF Check, RowInv, CurTyped, Snapshot, Rows, EntriesOf
  <2>3. pc' = "mark" => \E e \in Rows(m) : qstatus[e] = result'
    BY <1>5, <2>2 DEF Check, Continue, AllSent, AnyFailed, Rows, QueueStatus
  <2>4. pc' = "mark" => cur' = cur /\ qstatus' = qstatus
    BY <1>5 DEF Check, Continue, dbVars
  <2>5. StatusHasCause'
    BY <1>3, <2>1
  <2> QED
    BY <2>3, <2>4, <2>5 DEF CauseInv, Rows, EntriesOf
<1>6. CASE Mark
  <2>1. /\ pc' # "mark" /\ pc = "mark" /\ cur.id \in Entry /\ MsgOf[cur.id] \in Msg
        /\ UNCHANGED status \/ status' = [status EXCEPT ![MsgOf[cur.id]] = result]
    BY <1>6 DEF Mark, Continue, CurTyped, Snapshot
  <2>2. StatusHasCause'
    BY <1>1, <1>2, <2>1 DEF StatusHasCause, EntriesOf, TypeOK
  <2> QED
    BY <2>1, <2>2 DEF CauseInv
<1>7. CASE Record \/ Restart
  <2>1. pc' # "mark" /\ UNCHANGED status
    BY <1>7 DEF Record, Restart, Continue, dbVars
  <2> QED
    BY <1>3, <2>1 DEF CauseInv
<1>8. CASE UNCHANGED <<pc, cur, result, status>>
  BY <1>2, <1>3, <1>8 DEF CauseInv, EntriesOf
<1>9. CASE pc \notin {"check", "mark"} /\ pc' \notin {"check", "mark"} /\ UNCHANGED status
  BY <1>3, <1>9 DEF CauseInv
<1> QED
  BY <1>4, <1>5, <1>6, <1>7, <1>8, <1>9, JudgingSteps

\* A message is never called sent or failed without a recipient that was,
\* whatever crashes and whichever statements fail.
THEOREM VerdictHasCause == Spec => []StatusHasCause
<1>1. CauseInv => StatusHasCause
  BY DEF CauseInv
<1> QED
  BY <1>1, TypeInit, TypeStep, QueueInit, QueueStep, VerdictInit, RowStep, CauseStep, PTL DEF Spec

-----------------------------------------------------------------------------
(* The recipients a sent message left behind. *)

\* Sets of rows are finite, and grow by one row at a time.
LEMMA RowCounts ==
  ASSUME NEW S \in SUBSET Entry, NEW T \in SUBSET Entry
  PROVE  /\ Cardinality(S) \in Nat /\ Cardinality(T) \in Nat
         /\ T \subseteq S => Cardinality(T) <= Cardinality(S)
         /\ \A x : T \subseteq S \union {x} => Cardinality(T) <= Cardinality(S) + 1
<1>1. IsFiniteSet(S) /\ IsFiniteSet(T)
  BY RelayAssumption, FS_Subset
<1>2. Cardinality(S) \in Nat /\ Cardinality(T) \in Nat
  BY <1>1, FS_CardinalityType
<1>3. ASSUME T \subseteq S PROVE Cardinality(T) <= Cardinality(S)
  BY <1>1, <1>3, FS_Subset
<1>4. ASSUME NEW x, T \subseteq S \union {x} PROVE Cardinality(T) <= Cardinality(S) + 1
  <2>1. /\ IsFiniteSet(S \union {x})
        /\ \/ Cardinality(S \union {x}) = Cardinality(S)
           \/ Cardinality(S \union {x}) = Cardinality(S) + 1
    BY <1>1, FS_AddElement
  <2>2. Cardinality(S \union {x}) \in Nat /\ Cardinality(T) <= Cardinality(S \union {x})
    BY <1>4, <2>1, FS_Subset, FS_CardinalityType
  <2> QED
    BY <1>2, <2>1, <2>2
<1> QED
  BY <1>2, <1>3, <1>4

\* Both kinds of rows, now and after a step.
LEMMA UnservedRows ==
  ASSUME NEW m \in Msg
  PROVE  /\ Unserved(m) \in SUBSET Entry /\ Unserved(m)' \in SUBSET Entry
         /\ Lost(m) \in SUBSET Entry /\ Lost(m)' \in SUBSET Entry
         /\ (\A e \in EntriesOf(m) : qstatus[e] # "failed") => Unserved(m) = Lost(m)
  BY DEF Unserved, Lost, EntriesOf

LEMMA BudgetInit == Init => BudgetInv
<1> SUFFICES ASSUME Init PROVE BudgetInv
  OBVIOUS
<1>1. \A m \in Msg : Lost(m) = {} /\ status[m] = "absent"
  BY DEF Init, Lost, EntriesOf
<1>2. pc = "idle" /\ faults = 0
  BY DEF Init
<1> QED
  BY <1>1, <1>2, FS_EmptySet DEF BudgetInv, LostBudget, SentIsServed, SentVerdictBudget

\* A budget is a number.
LEMMA BudgetType ==
  ASSUME restarts \in Nat, faults \in Nat, restarts' \in Nat, faults' \in Nat
  PROVE  \A m \in Msg : Budget(m) \in Nat /\ Budget(m)' \in Nat
<1> SUFFICES ASSUME NEW m \in Msg PROVE Budget(m) \in Nat /\ Budget(m)' \in Nat
  OBVIOUS
<1>1. /\ Budget(m) = restarts + faults + 1 \/ Budget(m) = restarts + faults + 0
      /\ Budget(m)' = restarts' + faults' + 1 \/ Budget(m)' = restarts' + faults' + 0
  BY DEF Budget
<1> QED
  BY <1>1

\* A step that leaves the rows alone and takes no budget from a sent message.
LEMMA BudgetQuiet ==
  ASSUME TypeInv, BudgetInv, qstatus' = qstatus, faults' \in Nat, faults' >= faults,
         \A m \in Msg : status'[m] = "sent" => status[m] = "sent" /\ Budget(m)' >= Budget(m),
         restarts' \in Nat, SentIsServed'
  PROVE  BudgetInv'
<1>1. \A m \in Msg : Unserved(m)' = Unserved(m) /\ Lost(m)' = Lost(m)
  BY DEF Unserved, Lost
<1>2. faults \in Nat /\ \A m \in Msg : Budget(m) \in Nat /\ Budget(m)' \in Nat
  <2>1. restarts \in Nat /\ faults \in Nat /\ restarts' \in Nat
    BY DEF TypeInv, TypeOK
  <2> QED
    BY <2>1, BudgetType
<1>3. LostBudget'
  <2> SUFFICES ASSUME NEW m \in Msg PROVE Cardinality(Lost(m)') <= faults'
    BY DEF LostBudget
  <2>1. Cardinality(Lost(m)) \in Nat /\ Cardinality(Lost(m)) <= faults
    BY UnservedRows, RowCounts DEF BudgetInv, LostBudget
  <2> QED
    BY <1>1, <1>2, <2>1
<1>4. SentVerdictBudget'
  <2> SUFFICES ASSUME NEW m \in Msg, status'[m] = "sent"
               PROVE  Cardinality(Unserved(m)') <= Budget(m)'
    BY DEF SentVerdictBudget, Budget
  <2>1. Cardinality(Unserved(m)) \in Nat /\ Cardinality(Unserved(m)) <= Budget(m)
    BY UnservedRows, RowCounts DEF BudgetInv, SentVerdictBudget, Budget
  <2> QED
    BY <1>1, <1>2, <2>1
<1> QED
  BY <1>3, <1>4 DEF BudgetInv

\* A step that changes one row and adds to the budget of its message, if it
\* becomes a row of the kind that is counted.
LEMMA BudgetOneRow ==
  ASSUME TypeInv, BudgetInv, NEW e \in Entry,
         \A f \in Entry : f # e => qstatus'[f] = qstatus[f],
         qstatus[e] \notin {"failed", "lost"}, UNCHANGED <<status, restarts>>,
         faults' \in Nat, faults' >= faults,
         qstatus'[e] = "lost" => faults' >= faults + 1,
         \A m \in Msg : Budget(m)' >= Budget(m),
         qstatus'[e] \in {"failed", "lost"} => Budget(MsgOf[e])' >= Budget(MsgOf[e]) + 1,
         SentIsServed'
  PROVE  BudgetInv'
<1> USE RelayAssumption
<1>1. faults \in Nat /\ \A m \in Msg : Budget(m) \in Nat /\ Budget(m)' \in Nat
  <2>1. restarts \in Nat /\ faults \in Nat /\ restarts' \in Nat
    BY DEF TypeInv, TypeOK
  <2> QED
    BY <2>1, BudgetType
<1>2. LostBudget'
  <2> SUFFICES ASSUME NEW m \in Msg PROVE Cardinality(Lost(m)') <= faults'
    BY DEF LostBudget
  <2>1. /\ Cardinality(Lost(m)) \in Nat /\ Cardinality(Lost(m)') \in Nat
        /\ Cardinality(Lost(m)) <= faults
    BY UnservedRows, RowCounts DEF BudgetInv, LostBudget
  <2>2. CASE qstatus'[e] = "lost"
    <3>1. Lost(m)' \subseteq Lost(m) \union {e}
      BY DEF Lost, EntriesOf
    <3>2. Cardinality(Lost(m)') <= Cardinality(Lost(m)) + 1
      BY <3>1, UnservedRows, RowCounts
    <3> QED
      BY <1>1, <2>1, <2>2, <3>2
  <2>3. CASE qstatus'[e] # "lost"
    <3>1. Lost(m)' \subseteq Lost(m)
      BY <2>3 DEF Lost, EntriesOf
    <3>2. Cardinality(Lost(m)') <= Cardinality(Lost(m))
      BY <3>1, UnservedRows, RowCounts
    <3> QED
      BY <1>1, <2>1, <3>2
  <2> QED
    BY <2>2, <2>3
<1>3. SentVerdictBudget'
  <2> SUFFICES ASSUME NEW m \in Msg, status'[m] = "sent"
               PROVE  Cardinality(Unserved(m)') <= Budget(m)'
    BY DEF SentVerdictBudget, Budget
  <2>1. /\ Cardinality(Unserved(m)) \in Nat /\ Cardinality(Unserved(m)') \in Nat
        /\ Cardinality(Unserved(m)) <= Budget(m)
    BY UnservedRows, RowCounts DEF BudgetInv, SentVerdictBudget, Budget
  <2>2. CASE qstatus'[e] \in {"failed", "lost"} /\ MsgOf[e] = m
    <3>1. Unserved(m)' \subseteq Unserved(m) \union {e}
      BY DEF Unserved, EntriesOf
    <3>2. Cardinality(Unserved(m)') <= Cardinality(Unserved(m)) + 1
      BY <3>1, UnservedRows, RowCounts
    <3> QED
      BY <1>1, <2>1, <2>2, <3>2
  <2>3. CASE ~(qstatus'[e] \in {"failed", "lost"} /\ MsgOf[e] = m)
    <3>1. Unserved(m)' \subseteq Unserved(m)
      BY <2>3 DEF Unserved, EntriesOf
    <3>2. Cardinality(Unserved(m)') <= Cardinality(Unserved(m))
      BY <3>1, UnservedRows, RowCounts
    <3> QED
      BY <1>1, <2>1, <3>2
  <2> QED
    BY <2>2, <2>3
<1> QED
  BY <1>2, <1>3 DEF BudgetInv

\* A message without a failed row is within any budget.
LEMMA NoFailedRow ==
  ASSUME TypeInv, BudgetInv, NEW m \in Msg, \A e \in EntriesOf(m) : qstatus[e] # "failed"
  PROVE  Cardinality(Unserved(m)) \in Nat /\ Cardinality(Unserved(m)) <= faults
<1>1. Unserved(m) = Lost(m) /\ Cardinality(Lost(m)) \in Nat
  BY UnservedRows, RowCounts
<1> QED
  BY <1>1 DEF BudgetInv, LostBudget

\* The end of a checkMessageDone that found no failed row, or wrote "failed".
LEMMA BudgetOver ==
  ASSUME TypeInv, BudgetInv, NEW m \in Msg, UNCHANGED <<qstatus, restarts, faults>>,
         \A k \in Msg : k # m => ~Judging(k) /\ status'[k] = status[k],
         status'[m] = "sent" => \A e \in EntriesOf(m) : qstatus[e] # "failed",
         SentIsServed'
  PROVE  BudgetInv'
<1>1. /\ \A k \in Msg : Unserved(k)' = Unserved(k) /\ Lost(k)' = Lost(k)
      /\ restarts \in Nat /\ faults \in Nat
  BY DEF Unserved, Lost, TypeInv, TypeOK
<1>2. LostBudget'
  BY <1>1 DEF BudgetInv, LostBudget
<1>3. ASSUME NEW k \in Msg, status'[k] = "sent"
      PROVE  Cardinality(Unserved(k)') <= Budget(k)'
  <2>1. Cardinality(Unserved(k)) \in Nat /\ Budget(k)' \in Nat /\ Budget(k)' >= restarts + faults
    BY <1>1, UnservedRows, RowCounts DEF Budget
  <2>2. CASE k = m
    <3>1. Cardinality(Unserved(k)) <= faults
      BY <1>3, <2>2, NoFailedRow
    <3> QED
      BY <1>1, <2>1, <3>1
  <2>3. CASE k # m
    <3>1. Cardinality(Unserved(k)) <= restarts + faults
      BY <1>1, <1>3, <2>3 DEF BudgetInv, SentVerdictBudget
    <3> QED
      BY <1>1, <2>1, <3>1
  <2> QED
    BY <2>2, <2>3
<1>4. SentVerdictBudget'
  BY <1>3 DEF SentVerdictBudget, Budget
<1> QED
  BY <1>2, <1>4 DEF BudgetInv

\* checkMessageDone gives up a message's allowance only with a verdict that
\* needs none, or at the price of an SQL error.
LEMMA BudgetJudged ==
  ASSUME TypeInv, RowInv, BudgetInv, Check \/ Mark
  PROVE  BudgetInv'
<1> USE RelayAssumption DEF TypeInv
<1>0. PICK m \in Msg : m = MsgOf[cur.id]
  BY DEF Check, Mark, CurTyped, Snapshot
<1>1. /\ cur.id \in EntriesOf(m) /\ Judging(m)
      /\ \A k \in Msg : Judging(k) => k = m
      /\ UNCHANGED <<qstatus, restarts>> /\ restarts \in Nat /\ faults \in Nat
  BY <1>0 DEF Check, Mark, CurTyped, Snapshot, EntriesOf, Judging, dbVars, TypeOK
<1>2. CASE SQLErrors(1)
  <2>1. faults' = faults + 1 /\ UNCHANGED status /\ pc' # "mark"
    BY <1>2 DEF Check, Mark, SQLErrors, Continue, dbVars, TypeOK
  <2>2. \A k \in Msg : Budget(k)' >= Budget(k)
    BY <1>1, <2>1 DEF Budget
  <2> QED
    BY <1>1, <2>1, <2>2, BudgetQuiet DEF SentIsServed
<1>3. CASE ~SQLErrors(1)
  <2>1. faults' = faults
    BY <1>3 DEF Check, Mark, SQLErrors, TypeOK
  <2>2. \A e \in EntriesOf(m) \ Rows(m) : qstatus[e] # "failed"
    BY DEF Rows, QueueStatus
  <2>3. CASE Check /\ pc' = "mark"
    <3>1. /\ UNCHANGED <<status, cur>> /\ pc = "check"
          /\ result' = IF AllSent(m) THEN "sent" ELSE "failed"
      BY <1>0, <2>3 DEF Check, Continue, dbVars
    <3>2. SentIsServed'
      BY <1>0, <1>1, <2>2, <3>1 DEF SentIsServed, AllSent, Rows
    <3>3. \A k \in Msg : Budget(k)' = Budget(k) /\ Budget(k) \in Int
      BY <1>1, <2>1, <2>3, <3>1 DEF Budget, Judging
    <3> QED
      BY <1>1, <2>1, <3>1, <3>2, <3>3, BudgetQuiet
  <2>4. CASE Check /\ pc' # "mark"
    <3>1. UNCHANGED status /\ ~AnyFailed(m)
      BY <1>0, <1>3, <2>4 DEF Check, dbVars
    <3>2. \A e \in EntriesOf(m) : qstatus[e] # "failed"
      BY <2>2, <3>1 DEF AnyFailed
    <3>3. SentIsServed'
      BY <2>4 DEF SentIsServed
    <3> QED
      BY <1>1, <2>1, <3>1, <3>2, <3>3, BudgetOver
  <2>5. CASE Mark
    <3>1. /\ pc = "mark" /\ pc' # "mark" /\ result \in Settled
          /\ status' = [status EXCEPT ![m] = result]
      BY <1>0, <1>3, <2>5 DEF Mark, Continue, ResultTyped
    <3>2. result = "sent" => \A e \in EntriesOf(m) : qstatus[e] # "failed"
      BY <1>0, <3>1 DEF BudgetInv, SentIsServed
    <3>3. /\ \A k \in Msg : k # m => status'[k] = status[k]
          /\ status'[m] = result
      BY <1>1, <3>1 DEF TypeOK
    <3>4. SentIsServed'
      BY <3>1 DEF SentIsServed
    <3> QED
      BY <1>1, <2>1, <3>2, <3>3, <3>4, BudgetOver
  <2> QED
    BY <2>3, <2>4, <2>5
<1> QED
  BY <1>2, <1>3

\* Every step keeps the budget.
LEMMA BudgetStep == TypeInv /\ QueueInv /\ RowInv /\ BudgetInv /\ [Next]_vars => BudgetInv'
<1> SUFFICES ASSUME TypeInv, QueueInv, RowInv, BudgetInv, [Next]_vars PROVE BudgetInv'
  OBVIOUS
<1> USE RelayAssumption DEF TypeInv
<1>0. /\ restarts \in Nat /\ faults \in Nat
      /\ \A n \in Nat : SQLErrors(n) => faults' \in Nat /\ faults' = faults + n
  BY DEF SQLErrors, TypeOK
<1>1. ASSUME NEW m \in Msg, Accept(m) PROVE BudgetInv'
  <2>1. /\ UNCHANGED <<qstatus, pc, cur, result, restarts>> /\ faults' \in Nat /\ faults' >= faults
        /\ UNCHANGED status \/ status' = [status EXCEPT ![m] = "queued"]
    BY <1>0, <1>1 DEF Accept, relayVars
  <2>2. \A k \in Msg : status'[k] = "sent" => status[k] = "sent"
    BY <2>1 DEF TypeOK
  <2>3. \A k \in Msg : Budget(k)' >= Budget(k)
    <3>1. pc' = pc /\ cur' = cur
      BY <2>1
    <3>2. \A k \in Msg : Judging(k)' <=> Judging(k)
      BY <3>1 DEF Judging
    <3>3. ASSUME NEW k \in Msg
          PROVE  \/ Budget(k) = restarts + faults + 1 /\ Budget(k)' = restarts' + faults' + 1
                 \/ Budget(k) = restarts + faults + 0 /\ Budget(k)' = restarts' + faults' + 0
      BY <3>2 DEF Budget
    <3> QED
      BY <1>0, <2>1, <3>3
  <2>4. SentIsServed'
    BY <2>1 DEF BudgetInv, SentIsServed
  <2> QED
    BY <1>0, <2>1, <2>2, <2>3, <2>4, BudgetQuiet
<1>2. CASE \/ \E m \in Msg : Respond(m)
           \/ GenerateKey \/ DeleteDomain \/ Elapse \/ UNCHANGED vars
  <2>1. UNCHANGED <<qstatus, status, pc, cur, result, restarts, faults>>
    BY <1>2 DEF Respond, GenerateKey, DeleteDomain, Elapse, vars, dbVars, relayVars
  <2>2. \A k \in Msg : Budget(k)' = Budget(k) /\ Budget(k) \in Int
    BY <1>0, <2>1 DEF Budget, Judging
  <2>3. SentIsServed'
    BY <2>1 DEF BudgetInv, SentIsServed
  <2> QED
    BY <1>0, <2>1, <2>2, <2>3, BudgetQuiet
<1>3. CASE Fetch \/ Compose \/ Deliver \/ \E q \in batch : Load(q)
  <2>1. /\ UNCHANGED <<qstatus, status, restarts>> /\ faults' \in Nat /\ faults' >= faults
        /\ pc \notin {"check", "mark"} /\ pc' \notin {"check", "mark"}
    <3>1. ASSUME Compose PROVE faults' \in Nat /\ faults' >= faults
      BY <1>0, <3>1 DEF Compose
    <3>2. ASSUME NEW q \in batch, Load(q) PROVE faults' \in Nat /\ faults' >= faults
      BY <1>0, <3>2 DEF Load
    <3>3. faults' \in Nat /\ faults' >= faults
      BY <1>0, <1>3, <3>1, <3>2 DEF Fetch, Deliver
    <3> QED
      BY <1>3, <3>3 DEF Fetch, Compose, Deliver, Load, Continue, dbVars
  <2>2. \A k \in Msg : Budget(k)' >= Budget(k)
    BY <1>0, <2>1 DEF Budget, Judging
  <2> QED
    BY <1>0, <2>1, <2>2, BudgetQuiet DEF SentIsServed
<1>4. CASE Restart
  <2>1. /\ UNCHANGED <<qstatus, status, faults>> /\ restarts' = restarts + 1 /\ pc' # "mark"
    BY <1>4 DEF Restart, Continue, dbVars
  <2>2. \A k \in Msg : Budget(k)' >= Budget(k)
    BY <1>0, <2>1 DEF Budget
  <2> QED
    BY <1>0, <2>1, <2>2, BudgetQuiet DEF SentIsServed
<1>5. ASSUME NEW e \in Entry, Enqueue(e) PROVE BudgetInv'
  <2>1. /\ UNCHANGED <<status, pc, cur, result, restarts>> /\ qstatus[e] = "none"
        /\ \/ qstatus' = [qstatus EXCEPT ![e] = "pending"] /\ faults' = faults
           \/ qstatus' = [qstatus EXCEPT ![e] = "lost"] /\ faults' = faults + 1
    BY <1>0, <1>5 DEF Enqueue, relayVars
  <2>2. /\ \A f \in Entry : f # e => qstatus'[f] = qstatus[f]
        /\ qstatus'[e] = "lost" => faults' = faults + 1
        /\ qstatus'[e] # "failed"
        /\ faults' \in Nat /\ faults' >= faults
    BY <1>0, <2>1 DEF TypeOK
  <2>3. \A k \in Msg : Budget(k)' - Budget(k) = faults' - faults /\ Budget(k) \in Int /\ Budget(k)' \in Int
    BY <1>0, <2>1, <2>2 DEF Budget, Judging
  <2>4. SentIsServed'
    <3>1. ASSUME NEW f \in Entry, qstatus'[f] = "failed" PROVE qstatus[f] = "failed"
      BY <2>2, <3>1
    <3> QED
      BY <2>1, <3>1 DEF BudgetInv, SentIsServed, EntriesOf
  <2>5. MsgOf[e] \in Msg
    OBVIOUS
  <2>6. /\ \A k \in Msg : Budget(k)' >= Budget(k)
        /\ qstatus'[e] \in {"failed", "lost"} => Budget(MsgOf[e])' >= Budget(MsgOf[e]) + 1
    BY <1>0, <2>2, <2>3, <2>5
  <2> QED
    BY <1>0, <2>1, <2>2, <2>4, <2>6, BudgetOneRow
<1>6. ASSUME NEW q \in batch, LoadFails(q) PROVE BudgetInv'
  <2>1. /\ UNCHANGED <<status, restarts>> /\ faults' \in Nat /\ faults' >= faults + 1
        /\ pc \notin {"check", "mark"} /\ pc' \notin {"check", "mark"}
    BY <1>0, <1>6 DEF LoadFails, Continue
  <2>2. /\ q.id \in Entry /\ qstatus[q.id] = "pending" /\ MsgOf[q.id] \in Msg
        /\ qstatus' = qstatus \/ qstatus' = [qstatus EXCEPT ![q.id] = "failed"]
    BY <1>6 DEF LoadFails, UpdateQueue, TypeOK, Snapshot, QueueInv, SnapshotsCurrent, Current
  <2>3. \A k \in Msg : Budget(k)' >= Budget(k) + 1 /\ Budget(k) \in Nat /\ Budget(k)' \in Nat
    BY <1>0, <2>1 DEF Budget, Judging
  <2>4. /\ \A f \in Entry : f # q.id => qstatus'[f] = qstatus[f]
        /\ qstatus'[q.id] # "lost"
    BY <2>2 DEF TypeOK
  <2>5. \A k \in Msg : Budget(k)' >= Budget(k)
    BY <2>3
  <2>6. SentIsServed' /\ faults' >= faults
    BY <1>0, <2>1 DEF SentIsServed
  <2> QED
    BY <2>1, <2>2, <2>3, <2>4, <2>5, <2>6, BudgetOneRow
<1>7. CASE Record
  <2> DEFINE st == Outcome(cur.attempts + 1, result)
  <2>0. PICK e \in Entry : e = cur.id
    BY <1>7 DEF Record, CurTyped, Snapshot
  <2>1. /\ MsgOf[e] \in Msg /\ cur.attempts + 1 \in Nat
        /\ pc = "record" /\ result \in {"ok", "error"} /\ qstatus[e] = "pending"
        /\ UNCHANGED <<status, restarts>> /\ pc' # "mark"
    BY <1>7, <2>0 DEF Record, Continue, CurTyped, ResultTyped, Snapshot, QueueInv,
                SnapshotsCurrent, InHand, Current
  <2>2. st \in {"pending", "sent", "failed"}
    BY <2>1, OutcomeType DEF QueueStatus
  <2>3. /\ \/ qstatus' = [qstatus EXCEPT ![e] = st] /\ faults' = faults
           \/ qstatus' = qstatus /\ faults' = faults + 1
        /\ st # "pending" => pc' = "check" /\ cur' = cur
    BY <1>0, <1>7, <2>0 DEF Record, UpdateQueue
  <2> HIDE DEF st
  <2>4. \A k \in Msg : Budget(k)' >= Budget(k) /\ Budget(k) \in Nat /\ Budget(k)' \in Nat
    BY <1>0, <2>1, <2>3 DEF Budget, Judging
  <2>5. /\ \A f \in Entry : f # e => qstatus'[f] = qstatus[f]
        /\ qstatus'[e] # "lost"
        /\ qstatus'[e] = "failed" => st = "failed"
        /\ faults' \in Nat /\ faults' >= faults
    BY <1>0, <2>1, <2>2, <2>3 DEF TypeOK
  <2>6. st = "failed" => Budget(MsgOf[e])' >= Budget(MsgOf[e]) + 1
    BY <1>0, <2>0, <2>1, <2>3 DEF Budget, Judging
  <2>7. SentIsServed'
    BY <2>1 DEF SentIsServed
  <2> QED
    BY <2>1, <2>4, <2>5, <2>6, <2>7, BudgetOneRow
<1> QED
  BY <1>1, <1>2, <1>3, <1>4, <1>5, <1>6, <1>7, BudgetJudged DEF Next, HandlerStep, RelayStep

\* A message that is called sent has no more recipients without it than there
\* were crashes and failing statements, and the one being judged: for any
\* number of recipients, crashes and failing statements.
THEOREM SentWithinBudget == Spec => []SentVerdictBudget
<1>1. BudgetInv => SentVerdictBudget
  BY DEF BudgetInv
<1> QED
  BY <1>1, TypeInit, TypeStep, QueueInit, QueueStep, VerdictInit, RowStep, BudgetInit, BudgetStep,
     PTL DEF Spec

-----------------------------------------------------------------------------
(* The verdict in the end. *)

\* A step that judges nobody and writes neither rows that matter nor a status.
LEMMA VerdictUntouched ==
  ASSUME TypeInv, QueueInv, RowInv, VerdictInv, [Next]_vars,
         UNCHANGED <<pc, cur, result, status, restarts>>, faults' = 0 => faults = 0,
         \A e \in Entry : \/ qstatus'[e] = qstatus[e]
                          \/ qstatus[e] = "none" /\ qstatus'[e] \in {"pending", "lost"}
  PROVE  VerdictInv'
<1> SUFFICES ASSUME restarts = 0, faults = 0, faults' = 0
             PROVE  VerdictInv'
  BY DEF VerdictInv
<1>1. \A e \in Entry : (qstatus'[e] = "failed" <=> qstatus[e] = "failed")
                       /\ (qstatus'[e] = "sent" <=> qstatus[e] = "sent")
  OBVIOUS
<1> QED
  BY <1>1 DEF VerdictInv, Judging, EntriesOf

\* Every step keeps the verdicts that nobody is about to change.
LEMMA VerdictStep == TypeInv /\ QueueInv /\ RowInv /\ CauseInv /\ VerdictInv /\ [Next]_vars => VerdictInv'
<1> SUFFICES ASSUME TypeInv, QueueInv, RowInv, CauseInv, VerdictInv, [Next]_vars,
                    restarts' = 0, faults' = 0
             PROVE  VerdictInv'
  BY DEF VerdictInv
<1> USE RelayAssumption DEF TypeInv
<1>0. /\ \A n \in Nat : SQLErrors(n) => faults = 0 /\ n = 0
      /\ ~Restart
  BY DEF SQLErrors, Restart, TypeOK
<1>1. ASSUME NEW m \in Msg, Accept(m) PROVE VerdictInv'
  <2>1. /\ UNCHANGED <<qstatus, pc, cur, result, restarts>> /\ faults = 0
        /\ status' = [status EXCEPT ![m] = "queued"] \/ UNCHANGED status
        /\ request[m] = "new"
    BY <1>0, <1>1 DEF Accept, relayVars
  <2>2. \A e \in EntriesOf(m) : qstatus[e] = "none"
    BY <2>1 DEF RowInv, EntriesOf
  <2>3. EntriesOf(m) # {}
    OBVIOUS
  <2> QED
    BY <2>1, <2>2, <2>3 DEF VerdictInv, Judging, EntriesOf, TypeOK
<1>2. CASE \/ \E m \in Msg : Respond(m)
           \/ \E e \in Entry : Enqueue(e)
           \/ GenerateKey \/ DeleteDomain \/ Elapse \/ UNCHANGED vars
  <2>1. UNCHANGED <<pc, cur, result, status, restarts>> /\ faults = 0
    BY <1>0, <1>2 DEF Respond, Enqueue, GenerateKey, DeleteDomain, Elapse, vars, dbVars, relayVars
  <2>2. \A e \in Entry : \/ qstatus'[e] = qstatus[e]
                         \/ qstatus[e] = "none" /\ qstatus'[e] \in {"pending", "lost"}
    BY <1>2 DEF Respond, Enqueue, GenerateKey, DeleteDomain, Elapse, vars, dbVars, TypeOK
  <2> QED
    BY <2>1, <2>2, VerdictUntouched
<1>3. CASE \/ Fetch \/ Compose \/ Deliver
           \/ \E q \in batch : Load(q)
  <2>1. /\ UNCHANGED <<qstatus, status, restarts>> /\ faults = 0
        /\ pc \notin {"check", "mark"} /\ pc' \notin {"check", "mark"}
    BY <1>0, <1>3 DEF Fetch, Compose, Deliver, Load, Continue, dbVars
  <2> QED
    BY <2>1 DEF VerdictInv, Judging, EntriesOf
<1>4. \A q \in batch : ~LoadFails(q)
  BY <1>0 DEF LoadFails
<1>5. CASE Record
  <2> DEFINE st == Outcome(cur.attempts + 1, result)
  <2>1. /\ cur.id \in Entry /\ MsgOf[cur.id] \in Msg /\ cur.attempts + 1 \in Nat
        /\ pc = "record" /\ faults = 0 /\ result \in {"ok", "error"}
        /\ UNCHANGED <<status, restarts>>
        /\ qstatus' = [qstatus EXCEPT ![cur.id] = st]
        /\ qstatus[cur.id] = "pending"
        /\ st # "pending" => pc' = "check" /\ cur' = cur
        /\ pc' # "mark"
    BY <1>0, <1>5 DEF Record, Continue, UpdateQueue, CurTyped, ResultTyped, Snapshot, QueueInv,
                      SnapshotsCurrent, InHand, Current
  <2> HIDE DEF st
  <2>2. CASE st = "pending"
    <3>1. qstatus' = qstatus
      BY <2>1, <2>2 DEF TypeOK
    <3> QED
      BY <2>1, <3>1 DEF VerdictInv, Judging, EntriesOf
  <2>3. CASE st # "pending"
    <3>1. \A m \in Msg : ~Judging(m)' => MsgOf[cur.id] # m /\ ~Judging(m)
      BY <2>1, <2>3 DEF Judging
    <3>2. \A e \in Entry : MsgOf[e] # MsgOf[cur.id] => qstatus'[e] = qstatus[e]
      BY <2>1 DEF TypeOK
    <3> QED
      BY <2>1, <2>3, <3>1, <3>2 DEF VerdictInv, EntriesOf
  <2> QED
    BY <2>2, <2>3
<1>6. CASE Check
  <2> DEFINE m == MsgOf[cur.id]
  <2>1. /\ UNCHANGED <<qstatus, status, restarts>> /\ faults = 0
        /\ pc = "check" /\ cur.id \in Rows(m) /\ m \in Msg
    BY <1>0, <1>6 DEF Check, dbVars, CurTyped, Snapshot, RowInv, Rows, EntriesOf
  <2>2. \A e \in EntriesOf(m) \ Rows(m) : qstatus[e] \notin Settled
    BY <2>1 DEF Rows, QueueStatus, Settled
  <2>3. CASE ~AllSent(m) /\ ~AnyFailed(m) /\ Continue
    <3>1. ~(\E e \in EntriesOf(m) : qstatus[e] = "failed") /\ ~(\A e \in EntriesOf(m) : qstatus[e] = "sent")
      BY <2>2, <2>3 DEF AllSent, AnyFailed, Rows, Settled
    <3>2. \A k \in Msg : k # m => ~Judging(k)
      BY DEF Judging
    <3> QED
      BY <2>1, <2>3, <3>1, <3>2 DEF VerdictInv, Continue, EntriesOf
  <2>4. CASE /\ AllSent(m) \/ AnyFailed(m)
             /\ result' = IF AllSent(m) THEN "sent" ELSE "failed"
             /\ pc' = "mark" /\ UNCHANGED cur
    <3>1. result' = "sent" => \A e \in EntriesOf(m) : qstatus[e] # "failed"
      BY <2>2, <2>4 DEF AllSent, Rows, Settled
    <3>2. \A k \in Msg : Judging(k)' <=> Judging(k)
      BY <2>1, <2>4 DEF Judging
    <3> QED
      BY <2>1, <2>4, <3>1, <3>2 DEF VerdictInv, EntriesOf
  <2> QED
    BY <1>0, <1>6, <2>3, <2>4 DEF Check
<1>7. CASE Mark
  <2> DEFINE m == MsgOf[cur.id]
  <2>1. /\ cur.id \in Entry /\ m \in Msg /\ pc = "mark" /\ result \in Settled
        /\ status' = [status EXCEPT ![m] = result]
        /\ UNCHANGED <<qstatus, restarts>> /\ faults = 0
        /\ pc' \notin {"check", "mark"}
    BY <1>0, <1>7 DEF Mark, Continue, CurTyped, ResultTyped, Snapshot
  <2>2. /\ \E e \in EntriesOf(m) : qstatus[e] = result
        /\ result = "sent" => \A e \in EntriesOf(m) : qstatus[e] # "failed"
    BY <2>1 DEF CauseInv, VerdictInv
  <2>3. \A k \in Msg : k # m => ~Judging(k) /\ status'[k] = status[k]
    BY <2>1 DEF Judging, TypeOK
  <2>4. status'[m] = result
    BY <2>1 DEF TypeOK
  <2>5. /\ (\E e \in EntriesOf(m) : qstatus[e] = "failed") => result = "failed"
        /\ (\A e \in EntriesOf(m) : qstatus[e] = "sent") => result = "sent"
    BY <2>1, <2>2 DEF Settled
  <2> QED
    BY <2>1, <2>3, <2>4, <2>5 DEF VerdictInv, EntriesOf
<1> QED
  BY <1>0, <1>1, <1>2, <1>3, <1>4, <1>5, <1>6, <1>7 DEF Next, HandlerStep, RelayStep

\* Without crashes and SQL errors the status of a message whose recipients
\* are all settled is "sent" exactly if all of them were, for any number of
\* recipients and any interleaving of the relay with StoreOutbound.
THEOREM FinalVerdict == Spec => []SettledVerdict
<1>1. TypeInv /\ VerdictInv => SettledVerdict
  <2> SUFFICES ASSUME TypeInv, VerdictInv, restarts = 0, faults = 0, NEW m \in Msg,
                      \A e \in EntriesOf(m) : IsSettled(e),
                      ~Judging(m)
               PROVE  /\ status[m] = "sent" <=> \A e \in EntriesOf(m) : qstatus[e] = "sent"
                      /\ status[m] \in Settled
    BY DEF SettledVerdict
  <2>1. ~Judging(m)
    BY DEF Judging
  <2> QED
    BY <2>1 DEF VerdictInv, IsSettled, Settled
<1> QED
  BY <1>1, TypeInit, TypeStep, QueueInit, QueueStep, VerdictInit, RowStep, CauseStep, VerdictStep,
     PTL DEF Spec

=============================================================================
