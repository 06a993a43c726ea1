------------------------------- MODULE Relay -------------------------------
(***************************************************************************)
(* Outbound mail: the relay goroutine (internal/relay), the part of the    *)
(* store it works on (messages, outbound_queue, the DKIM key of a domain)  *)
(* and the HTTP handlers that feed it.                                     *)
(*                                                                         *)
(* Concurrent parties: one handler per send request, the single relay      *)
(* goroutine, the administrator's DKIM and delete handlers, the clock, and *)
(* the container runtime that restarts the process.  SQLite is opened with *)
(* one connection (db.Open), so each SQL statement is one atomic step; no  *)
(* transaction spans two of them, so anything may happen in between.       *)
(*                                                                         *)
(* Time is in minutes.  Instead of a clock that grows, wait[e] is          *)
(* next_retry minus now: the entry is due when wait[e] <= 0.               *)
(***************************************************************************)
EXTENDS Integers, FiniteSets

CONSTANTS
  Msg,          \* outbound messages that clients ask to send
  Entry,        \* outbound_queue rows: one per recipient in To and Cc
  MsgOf,        \* MsgOf[e] is the message_id of row e
  Silent,       \* rows whose MX host takes the connection and never answers
  NoEntry,      \* the relay's loop variable outside its loop
  MaxAttempts,  \* maxAttempts
  BatchLimit,   \* the limit processQueue gives to PendingQueue
  MaxKeys,      \* bound: DKIM keys an administrator generates
  MaxRestarts,  \* bound: stops and crashes of the process
  MaxFaults,    \* bound: SQL statements that return an error
  Overdue       \* bound: minutes past next_retry that are told apart

EntriesOf(m) == {e \in Entry : MsgOf[e] = m}

ASSUME RelayAssumption ==
  /\ MsgOf \in [Entry -> Msg]
  /\ IsFiniteSet(Entry)
  /\ \A m \in Msg : EntriesOf(m) # {}     \* handleSend insists on a To
  /\ Silent \subseteq Entry
  /\ NoEntry \notin [id : Entry, attempts : Nat]
  /\ MaxAttempts \in Nat \ {0}
  /\ BatchLimit \in Nat \ {0}
  /\ {MaxKeys, MaxRestarts, MaxFaults, Overdue} \subseteq Nat

VARIABLES
  (* the database *)
  status,    \* messages.status, "absent" before the INSERT
  raw,       \* messages.raw_data
  qstatus,   \* outbound_queue.status; "none": not inserted yet, "lost": the INSERT failed
  attempts,  \* outbound_queue.attempts
  wait,      \* outbound_queue.next_retry, relative to now
  dkim,      \* number of the domain's current DKIM key, 0 for none
  domain,    \* whether the domain's row is still there
  (* the send handlers *)
  request,   \* progress of the request that sends m
  (* the relay goroutine *)
  pc,        \* the statement of processQueue it is at
  batch,     \* entries it has fetched and not yet looked at
  cur,       \* entry: the loop variable
  copy,      \* raw: the bytes it is about to send
  result,    \* what deliver or AllQueueDone told it
  (* the outside world, and what has gone wrong *)
  mailbox,   \* mailbox[e]: the copies the recipient's host has accepted
  tries,     \* tries[e]: calls of deliver for e
  composed,  \* composed[m]: calls of composeMessage for m
  restarts,
  faults

dbVars    == <<status, raw, qstatus, attempts, wait, dkim, domain>>
relayVars == <<pc, batch, cur, copy, result>>
worldVars == <<mailbox, tries>>
vars == <<dbVars, request, relayVars, worldVars, composed, restarts, faults>>

QueueStatus == {"pending", "sent", "failed"}
Settled     == {"sent", "failed"}

\* A composed message: which call of composeMessage made it (Date and MIME
\* boundary make each one different) and the key that signed it, 0 for none.
Copy   == [id : Nat, key : Nat]
NoCopy == [id |-> 0, key |-> 0]

\* What PendingQueue returns of a row: the copy of attempts may grow stale.
Snapshot == [id : Entry, attempts : Nat]

TypeOK ==
  /\ status \in [Msg -> {"absent", "queued", "sent", "failed"}]
  /\ raw \in [Msg -> Copy]
  /\ qstatus \in [Entry -> {"none", "lost"} \union QueueStatus]
  /\ attempts \in [Entry -> Nat]
  /\ wait \in [Entry -> Int]
  /\ dkim \in Nat
  /\ domain \in BOOLEAN
  /\ request \in [Msg -> {"new", "enqueue", "201", "500", "aborted"}]
  /\ pc \in {"idle", "loop", "compose", "deliver", "record", "check", "mark"}
  /\ batch \subseteq Snapshot
  /\ cur \in Snapshot \union {NoEntry}
  /\ copy \in Copy
  /\ result \in {"none", "ok", "error", "sent", "failed"}
  /\ mailbox \in [Entry -> SUBSET Copy]
  /\ tries \in [Entry -> Nat]
  /\ composed \in [Msg -> Nat]
  /\ restarts \in Nat
  /\ faults \in Nat

Init ==
  /\ status = [m \in Msg |-> "absent"]
  /\ raw = [m \in Msg |-> NoCopy]
  /\ qstatus = [e \in Entry |-> "none"]
  /\ attempts = [e \in Entry |-> 0]
  /\ wait = [e \in Entry |-> 0]
  /\ dkim = 0
  /\ domain = TRUE
  /\ request = [m \in Msg |-> "new"]
  /\ pc = "idle"
  /\ batch = {}
  /\ cur = NoEntry
  /\ copy = NoCopy
  /\ result = "none"
  /\ mailbox = [e \in Entry |-> {}]
  /\ tries = [e \in Entry |-> 0]
  /\ composed = [m \in Msg |-> 0]
  /\ restarts = 0
  /\ faults = 0

\* n of the SQL statements of this step return an error.
SQLErrors(n) ==
  /\ faults + n <= MaxFaults
  /\ faults' = faults + n

-----------------------------------------------------------------------------
(* The send handlers: StoreOutbound, once handleSend or handleHelloSend    *)
(* has let the request through.                                            *)

\* INSERT INTO messages.  An error is answered with 500.
Accept(m) ==
  /\ request[m] = "new"
  /\ \/ /\ SQLErrors(0)
        /\ status' = [status EXCEPT ![m] = "queued"]
        /\ request' = [request EXCEPT ![m] = "enqueue"]
     \/ /\ SQLErrors(1)
        /\ request' = [request EXCEPT ![m] = "500"]
        /\ UNCHANGED status
  /\ UNCHANGED <<raw, qstatus, attempts, wait, dkim, domain, relayVars,
                 worldVars, composed, restarts>>

\* INSERT INTO outbound_queue for one recipient, due at once.  The result of
\* this Exec is dropped.  (The order of the recipients is left open.)
Enqueue(e) ==
  /\ request[MsgOf[e]] = "enqueue"
  /\ qstatus[e] = "none"
  /\ \/ SQLErrors(0) /\ qstatus' = [qstatus EXCEPT ![e] = "pending"]
     \/ SQLErrors(1) /\ qstatus' = [qstatus EXCEPT ![e] = "lost"]
  /\ UNCHANGED <<status, raw, attempts, wait, dkim, domain, request, relayVars,
                 worldVars, composed, restarts>>

\* The loop over the recipients is over: 201 with the stored message.
Respond(m) ==
  /\ request[m] = "enqueue"
  /\ \A e \in EntriesOf(m) : qstatus[e] # "none"
  /\ request' = [request EXCEPT ![m] = "201"]
  /\ UNCHANGED <<dbVars, relayVars, worldVars, composed, restarts, faults>>

-----------------------------------------------------------------------------
(* The administrator. *)

\* handleDKIMGenerate: SetDKIM overwrites the key of the domain.
GenerateKey ==
  /\ domain
  /\ dkim < MaxKeys
  /\ dkim' = dkim + 1
  /\ UNCHANGED <<status, raw, qstatus, attempts, wait, domain, request,
                 relayVars, worldVars, composed, restarts, faults>>

\* handleDomainDelete: only the row of the domain goes, its messages and
\* their queue stay.  (The driver ignores the _foreign_keys parameter.)
DeleteDomain ==
  /\ domain
  /\ domain' = FALSE
  /\ UNCHANGED <<status, raw, qstatus, attempts, wait, dkim, request,
                 relayVars, worldVars, composed, restarts, faults>>

-----------------------------------------------------------------------------
(* The relay goroutine: processQueue.  Definitions marked "Slip" are not    *)
(* part of the model: each is a mistake one could make in the definition   *)
(* after it, kept to show which property would notice.                     *)

\* Slip: PendingQueue without status='pending'.
IsDueAnyStatus(e) == qstatus[e] \in QueueStatus /\ wait[e] <= 0

\* Slip: next_retry is written in a format that never compares as due.
IsDueOnce(e) == qstatus[e] = "pending" /\ wait[e] <= 0 /\ attempts[e] = 0

IsDue(e) == qstatus[e] = "pending" /\ wait[e] <= 0

\* PendingQueue: at most BatchLimit due rows, the longest overdue first.
Batches ==
  LET due == {e \in Entry : IsDue(e)}
  IN  {b \in SUBSET due :
         /\ Cardinality(b) <= BatchLimit
         /\ b # due => Cardinality(b) = BatchLimit
         /\ \A e \in b, f \in due \ b : wait[e] <= wait[f]}

\* The next turn of the loop over the fetched entries, or the end of it.
Continue ==
  /\ pc' = IF batch' = {} THEN "idle" ELSE "loop"
  /\ cur' = NoEntry
  /\ copy' = NoCopy
  /\ result' = "none"

\* The ticker fires.  (When the query fails processQueue just returns.)
Fetch ==
  /\ pc = "idle"
  /\ \E b \in Batches : batch' = {[id |-> e, attempts |-> attempts[e]] : e \in b}
  /\ Continue
  /\ UNCHANGED <<dbVars, request, worldVars, composed, restarts, faults>>

\* The next fetched entry, in the order of the query.
NextOf(q) == q \in batch /\ \A r \in batch : wait[q.id] <= wait[r.id]

\* UpdateQueue(id, attempts, next_retry, _, status)
UpdateQueue(e, n, st, w) ==
  /\ attempts' = [attempts EXCEPT ![e] = n]
  /\ qstatus' = [qstatus EXCEPT ![e] = st]
  /\ wait' = [wait EXCEPT ![e] = w]

\* Slip: every attempt composes the message again.
GetRawMessageNever(m) == NoCopy

GetRawMessage(m) == raw[m]

\* GetMessage and GetRawMessage.  An error of the second reads as raw == "".
Load(q) ==
  /\ pc = "loop"
  /\ NextOf(q)
  /\ batch' = batch \ {q}
  /\ cur' = q
  /\ \/ SQLErrors(0) /\ copy' = GetRawMessage(MsgOf[q.id])
     \/ SQLErrors(1) /\ copy' = NoCopy
  /\ pc' = IF copy' = NoCopy THEN "compose" ELSE "deliver"
  /\ UNCHANGED <<dbVars, request, result, worldVars, composed, restarts>>

\* GetMessage fails: the entry is failed as "message not found", without a
\* checkMessageDone, unless that UPDATE fails too.
LoadFails(q) ==
  /\ pc = "loop"
  /\ NextOf(q)
  /\ batch' = batch \ {q}
  /\ Continue
  /\ \/ SQLErrors(1) /\ UpdateQueue(q.id, q.attempts + 1, "failed", 0)
     \/ SQLErrors(2) /\ UNCHANGED <<attempts, qstatus, wait>>
  /\ UNCHANGED <<status, raw, dkim, domain, request, worldVars, composed, restarts>>

\* composeMessage, GetDomain, signDKIM, SetRawMessage.  A failed GetDomain
\* leaves the message unsigned, a failed SetRawMessage leaves it unsaved.
Compose ==
  /\ pc = "compose"
  /\ \E found, saved \in BOOLEAN :
       LET m == MsgOf[cur.id]
           k == IF found /\ domain THEN dkim ELSE 0
       IN  /\ SQLErrors((IF found THEN 0 ELSE 1) + (IF saved THEN 0 ELSE 1))
           /\ composed' = [composed EXCEPT ![m] = @ + 1]
           /\ copy' = [id |-> composed[m] + 1, key |-> k]
           /\ raw' = IF saved THEN [raw EXCEPT ![m] = copy'] ELSE raw
  /\ pc' = "deliver"
  /\ UNCHANGED <<status, qstatus, attempts, wait, dkim, domain, request, batch,
                 cur, result, worldVars, restarts>>

\* Slip: deliver loses the error of the last MX host.
MayReportAny(accepted, ok) == TRUE

\* SendMail returns nil only after the host has said 250 to the data.
MayReport(accepted, ok) == ok => accepted

\* deliver: every MX host in turn until one takes the message.  SendMail may
\* report an error after the host has accepted (the connection broke before
\* the reply, or QUIT failed), so an error does not mean "not received".  It
\* sets no deadline: with a silent host this call does not return.
Deliver ==
  /\ pc = "deliver"
  /\ cur.id \notin Silent
  /\ tries' = [tries EXCEPT ![cur.id] = @ + 1]
  /\ \E accepted, ok \in BOOLEAN :
       /\ MayReport(accepted, ok)
       /\ mailbox' = IF accepted THEN [mailbox EXCEPT ![cur.id] = @ \union {copy}]
                                 ELSE mailbox
       /\ result' = IF ok THEN "ok" ELSE "error"
  /\ pc' = "record"
  /\ UNCHANGED <<dbVars, request, batch, cur, copy, composed, restarts, faults>>

\* attempts*attempts minutes.
Backoff(n) == n * n

\* Slips: one attempt too many, one too few, and deliver's answer stored as is.
OutcomeOneMore(n, res) ==
  IF res = "ok" THEN "sent" ELSE IF n > MaxAttempts THEN "failed" ELSE "pending"
OutcomeOneLess(n, res) ==
  IF res = "ok" THEN "sent" ELSE IF n + 1 >= MaxAttempts THEN "failed" ELSE "pending"
OutcomeUnmapped(n, res) ==
  IF res = "ok" \/ n >= MaxAttempts THEN res ELSE "pending"

\* The status processQueue gives an entry after its n-th attempt.
Outcome(n, res) ==
  IF res = "ok" THEN "sent" ELSE IF n >= MaxAttempts THEN "failed" ELSE "pending"

\* The UpdateQueue after deliver; its error is dropped.
Record ==
  LET n  == cur.attempts + 1
      st == Outcome(n, result)
  IN  /\ pc = "record"
      /\ \/ SQLErrors(0) /\ UpdateQueue(cur.id, n, st, IF st = "pending" THEN Backoff(n) ELSE 0)
         \/ SQLErrors(1) /\ UNCHANGED <<attempts, qstatus, wait>>
      /\ IF st = "pending"
           THEN UNCHANGED batch /\ Continue
           ELSE pc' = "check" /\ result' = "none" /\ UNCHANGED <<batch, cur, copy>>
      /\ UNCHANGED <<status, raw, dkim, domain, request, worldVars, composed, restarts>>

\* AllQueueDone's two answers, over the rows that are in the table.
Rows(m) == {e \in EntriesOf(m) : qstatus[e] \in QueueStatus}

\* Slips: a failed row counts as done; a pending row counts as failed; a
\* failed row is not reported.
NonePending(m)    == \A e \in Rows(m) : qstatus[e] # "pending"
AnyUnsent(m)      == \E e \in Rows(m) : qstatus[e] # "sent"
AnyFailedNever(m) == FALSE

AllSent(m)   == \A e \in Rows(m) : qstatus[e] \notin {"pending", "failed"}
AnyFailed(m) == \E e \in Rows(m) : qstatus[e] = "failed"

\* checkMessageDone, its SELECT.
Check ==
  LET m == MsgOf[cur.id]
  IN  /\ pc = "check"
      /\ UNCHANGED batch
      /\ \/ /\ SQLErrors(0)
            /\ AllSent(m) \/ AnyFailed(m)
            /\ result' = IF AllSent(m) THEN "sent" ELSE "failed"
            /\ pc' = "mark"
            /\ UNCHANGED <<cur, copy>>
         \/ SQLErrors(0) /\ ~AllSent(m) /\ ~AnyFailed(m) /\ Continue
         \/ SQLErrors(1) /\ Continue
      /\ UNCHANGED <<dbVars, request, worldVars, composed, restarts>>

\* checkMessageDone, its UPDATE: SetMessageDelivered or UpdateMessageStatus.
Mark ==
  /\ pc = "mark"
  /\ \/ SQLErrors(0) /\ status' = [status EXCEPT ![MsgOf[cur.id]] = result]
     \/ SQLErrors(1) /\ UNCHANGED status
  /\ UNCHANGED batch
  /\ Continue
  /\ UNCHANGED <<raw, qstatus, attempts, wait, dkim, domain, request, worldVars,
                 composed, restarts>>

-----------------------------------------------------------------------------
(* The clock and the container runtime. *)

\* A minute passes.
Elapse ==
  /\ \E e \in Entry : qstatus[e] = "pending" /\ wait[e] > -Overdue
  /\ wait' = [e \in Entry |-> IF qstatus[e] = "pending" /\ wait[e] > -Overdue
                                THEN wait[e] - 1 ELSE wait[e]]
  /\ UNCHANGED <<status, raw, qstatus, attempts, dkim, domain, request, relayVars,
                 worldVars, composed, restarts, faults>>

\* The process ends, by a crash or by SIGTERM (serve returns without waiting
\* for the relay or for handlers), and docker starts it again: what was only
\* in memory is gone.
Restart ==
  /\ restarts < MaxRestarts
  /\ restarts' = restarts + 1
  /\ batch' = {}
  /\ Continue
  /\ request' = [m \in Msg |-> IF request[m] = "enqueue" THEN "aborted" ELSE request[m]]
  /\ UNCHANGED <<dbVars, worldVars, composed, faults>>

-----------------------------------------------------------------------------
HandlerStep == \/ \E m \in Msg : Respond(m)
               \/ \E e \in Entry : Enqueue(e)

RelayStep == \/ Fetch
             \/ \E q \in batch : Load(q) \/ LoadFails(q)
             \/ Compose \/ Deliver \/ Record \/ Check \/ Mark

Next == \/ \E m \in Msg : Accept(m)
        \/ HandlerStep
        \/ GenerateKey \/ DeleteDomain
        \/ RelayStep
        \/ Elapse
        \/ Restart

Spec == Init /\ [][Next]_vars

\* The ticker goes on firing, a handler that was started goes on, time passes;
\* nobody has to send, to generate a key or to delete.
Fairness ==
  /\ WF_vars(RelayStep)
  /\ WF_vars(HandlerStep)
  /\ WF_vars(Elapse)

FairSpec == Spec /\ Fairness

-----------------------------------------------------------------------------
(* Safety. *)

IsSettled(e) == qstatus[e] \in Settled

\* A recipient is marked "sent" only if its host really took the message,
\* whatever fails or restarts between deliver and UpdateQueue (processQueue).
SentWasAccepted == \A e \in Entry : qstatus[e] = "sent" => mailbox[e] # {}

\* maxAttempts bounds the deliveries of one recipient: each crash between
\* deliver and UpdateQueue, and each lost UPDATE, can cost one more, and
\* nothing else can (the attempts that processQueue read at fetch time and
\* writes back later never undo a count).
AttemptBudget == \A e \in Entry : tries[e] <= MaxAttempts + restarts + faults

\* Without SQL errors a recipient is given up only after maxAttempts real
\* deliveries were reported as failed, over any number of restarts.
GivesUpOnlyAtLimit ==
  faults = 0 => \A e \in Entry :
    qstatus[e] = "failed" => attempts[e] = MaxAttempts /\ tries[e] >= MaxAttempts

\* Without SQL errors every recipient, and every retry after a crash, gets the
\* same bytes (Date, boundary and signature) as long as the message exists:
\* processQueue stores what it composed before it sends it, and a new DKIM key
\* or a deleted domain does not change a message that is under way.
SameBytes ==
  faults = 0 => \A e, f \in Entry : MsgOf[e] = MsgOf[f] =>
    \A c \in mailbox[e], d \in mailbox[f] : c = d

\* A message is never called sent or failed without a recipient that was
\* (checkMessageDone acts on counts it read in an earlier statement).
StatusHasCause ==
  \A m \in Msg : status[m] \in Settled =>
    \E e \in EntriesOf(m) : qstatus[e] = status[m]

\* A message that is called sent has hardly a recipient that was given up or has
\* no row: while checkMessageDone is under way for it there may be one, and only
\* a crash or an SQL error can leave another behind (between UpdateQueue and the
\* verdict, in one of checkMessageDone's statements, in StoreOutbound's INSERT
\* or in GetMessage).
Unserved(m) == {e \in EntriesOf(m) : qstatus[e] \in {"failed", "lost"}}
Judging(m) == pc \in {"check", "mark"} /\ MsgOf[cur.id] = m
SentVerdictBudget ==
  \A m \in Msg : status[m] = "sent" =>
    Cardinality(Unserved(m)) <= restarts + faults + IF Judging(m) THEN 1 ELSE 0

\* When nothing crashed or failed and all the recipients of an answered
\* request are settled, the last checkMessageDone has left the right verdict,
\* although earlier ones ran while StoreOutbound was still inserting rows and
\* may have written a wrong one.
SettledVerdict ==
  restarts = 0 /\ faults = 0 =>
    \A m \in Msg :
      /\ request[m] = "201"
      /\ \A e \in EntriesOf(m) : IsSettled(e)
      /\ ~Judging(m)
      => (status[m] = "sent" <=> \A e \in EntriesOf(m) : qstatus[e] = "sent")
         /\ status[m] \in Settled

\* A settled recipient is never tried again, never changes its status and its
\* host is never offered another copy (PendingQueue's WHERE against the stale
\* rows processQueue holds).
SettledIsFinal ==
  [][\A e \in Entry : IsSettled(e) =>
       UNCHANGED <<qstatus[e], tries[e], mailbox[e]>>]_vars

(* Liveness. *)

\* Every recipient whose host answers is settled in the end, over restarts and
\* SQL errors, in spite of the batch limit and the back-off (FairSpec).
EverySettles == \A e \in Entry : qstatus[e] = "pending" ~> IsSettled(e)

\* If nothing crashes or fails every accepted message leaves "queued".
EventuallyAnswered == \A m \in Msg : status[m] = "queued" ~> status[m] \in Settled

\* What the queue promises its clients, see Outbox: restarts are no part of it.
Promise == INSTANCE Outbox WITH
  outcome <- [e \in Entry |-> IF qstatus[e] = "lost" THEN "none" ELSE qstatus[e]],
  got <- mailbox,
  Copy <- [id : 1..(1 + MaxFaults), key : 0..MaxKeys]

RefinesOutbox == Promise!LiveSpec

(* What documents or comments say and the code does not do. *)

\* store.go:502 "AllQueueDone checks if all queue entries for a message are
\* terminal": so checkMessageDone, which asks it, would call a message sent or
\* failed only when none of its recipients is still waiting for an attempt.
VerdictMeansTerminal ==
  \A m \in Msg : status[m] \in Settled => \A e \in Rows(m) : IsSettled(e)

\* README.md:110 "delivers via SMTP with automatic retry": a recipient whose
\* host answers is served, whatever the hosts of others do.
AnsweringHostsServed ==
  \A e \in Entry \ Silent : qstatus[e] = "pending" ~> IsSettled(e)
=============================================================================
