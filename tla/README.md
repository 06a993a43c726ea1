# mailr: specifications, model checks and proofs

mailr is a mail relay for programs. It accepts mail to be sent over an HTTP
API and delivers it to the recipients' MX hosts; it receives mail over SMTP and
hands it out by polling or WebSocket. It is one Go process with one SQLite
database. This directory holds TLA+ models of its parts, TLC configurations
that check them, and proofs that TLAPS checks.

    tlc -workers 2 -config relay_faults.cfg MCRelay     # one run
    tlapm RelayProofs.tla                               # the proofs of a module

`PROJECT.json` lists the parts of the system, the runs, for each definition the
lines of source it models, and the hazards with the properties that cover them.

## The system

`serve` (`internal/cli/root.go`) starts three things in one process that share
the store: the HTTP server, the SMTP server and the relay goroutine. They do
not talk to each other but through the tables of the database, with one
exception: `StoreInbound` starts `pushInbound` in a goroutine.

`db.Open` allows one connection, so SQL statements run one at a time, and no
operation of the store but the migrations uses a transaction. **Every
statement is therefore an atomic step, and between any two statements anything
else may happen.** All models take this as their grain.

| Part | State | Operations | What is hard | Correct means |
|---|---|---|---|---|
| Relay, `internal/relay`, queue half of `internal/store` | `outbound_queue`, status and `raw_data` of outbound `messages`, the loop of `processQueue` | `StoreOutbound`, `processQueue`, `deliver`, `checkMessageDone` | crashes between delivery and UPDATE, dropped SQL errors, rows inserted while the relay runs, stale snapshots, hosts that take a mail and report an error | no recipient is called sent without having it, is given up early, or is sent to after it is settled; bounded duplicates; the same bytes each time; the right verdict in the end |
| Directory, `domains` and `addresses`, their HTTP handlers | the two tables | create, delete, `ValidateAddress`, `HasAddresses` | two-statement operations, names that are used again, rows left behind | an address belongs to the domain it names; a new domain starts empty |
| SMTP server, `internal/smtp`, inbound half of the store | the sessions, inbound `messages`, the pollers | `Rcpt`, `Data`, `storeRaw`, `StoreInbound`, `PollInbound`, `AckMessages` | three statements to decide on a recipient, look-ups repeated at DATA, partial failure, broken connections | what was confirmed is stored, once per domain, and is read; what was refused is not stored |
| Submission, `handleSend`, `handleHelloSend` | requests in progress | the checks on the from address | checks in several statements against a changing directory, a name compared without case here and exactly there | who may send is decided as at one moment of the request |
| WebSocket push, `handleWS`, `pushInbound` | `subs`, one goroutine per connection and per push | subscribe, push, ack, ping | a map read without its lock, two writers of one connection, order | each connected subscriber gets each message |
| Migrations, `internal/db` | `_migrations`, the schema | `Migrate` | a crash or an error inside a migration | each is applied and recorded once, or not at all |
| DKIM, in `internal/relay` | none | canonicalisation, header choice, signing | empty and trailing lines, bare line feeds and indentation in text and HTML, no-break spaces in the client's headers | what is signed is what a verifier computes |
| Backup, restore, update, `internal/cli/manage.go`, `ssh.go` | remote files, the service | sequences of ssh commands | ignored errors in the middle, files left by earlier runs | a reported backup is today's; a reported restore happened |
| Deployment and teardown, `internal/cli/deploy.go` | cloud resources | ensure, create, destroy | failures half-way, resources that are reused | nothing is left that a teardown will not find |
| Configuration, `config.go`, `setup.go` | a file, the environment | precedence of flags | none to speak of | |

## Plan

| Order | Module | State |
|---|---|---|
| 1 | `Relay`, with the abstract `Outbox` it implements; `RelayProofs` | done |
| 2 | `Directory`; `DirectoryProofs` | done |
| 3 | `Inbound`, which extends `Directory`; `InboundProofs`, `StoredProofs` | done |
| 4 | `Submission`, which extends `Directory`; `SubmissionProofs`. Its accepted requests are the `Accept` of `Relay` | done |
| 5 | `WSPush`; `PushProofs` | done |
| 6 | `Migrate`, and `Host`, which extends it by the commands that manage a server, with the abstract `Database` they implement; `HostProofs` | done |
| 7 | `DKIM`; `DKIMProofs` | done |
| 8 | Deployment | left out, see "What is not modelled" |
| 9 | An abstract maildrop for `Inbound` | left out: it would say no more than `AcceptedIsStored`, `OneCopyPerTry`, `RefusedIsNotStored` and `StoredIsRead` say together |

`MCRelay`, `MCInbound`, `MCSubmission`, `MCWSPush` and `MCDKIM` only hold the
values of constants for the runs; `Host` needs none.

## Conventions

* Names follow the source. An action is one SQL statement, or one call that
  leaves the process, with all the code up to the next one.
* `SQLErrors(n)` in an action says that `n` of its statements return an error;
  without faults left it must be `SQLErrors(0)`.
* **Slips.** Definitions marked "Slip" are no part of a model: each is a mistake
  one could make in the definition that follows it. With the slip in its place
  TLC must find the property violated that `PROJECT.json` names, which shows
  that the property depends on that line.
* Bounds are CONSTANTS called `Max...`, and `Overdue`, the minutes past
  `next_retry` that are told apart (only their order matters); they appear
  in guards and in no property but `AttemptBudget` (where `MaxAttempts` is a
  constant of the program).

## Relay

| TLA+ | Code |
|---|---|
| `status`, `raw` | columns of `messages` |
| `qstatus`, `attempts`, `wait` | columns of `outbound_queue`; `wait` is `next_retry` minus now, in minutes |
| `dkim`, `domain` | the key in the `domains` row, and whether there is a row |
| `request` | how far the handler that runs `StoreOutbound` is |
| `pc`, `batch`, `cur`, `copy`, `result` | the point `processQueue` is at and its locals; `batch` holds the rows as they were read |
| `mailbox`, `tries`, `composed` | what hosts have accepted, calls of `deliver` and of `composeMessage`: observed, read by no guard |
| `Accept`, `Enqueue`, `Respond` | `StoreOutbound`: the message, its rows one by one, the answer |
| `Fetch`, `Load`, `LoadFails`, `Compose`, `Deliver`, `Record`, `Check`, `Mark` | `processQueue` and `checkMessageDone`, one statement or one SMTP delivery each |
| `GenerateKey`, `DeleteDomain` | the administrator's handlers, as far as the relay sees them |
| `Elapse`, `Restart` | the clock; the end of the process, by crash or SIGTERM, and its start |

The text of a message is the pair of the call of `composeMessage` that made it
and the key that signed it: each call sets a new Date and boundary, so that is
all `SameBytes` needs to tell apart. `Deliver` stands for the whole loop over MX
hosts. It may report an error although the host has the message. A host in
`Silent` never answers, and `SendMail` has no deadline.

`Outbox` says what a queue promises one recipient: nothing is sent before it is
queued; each transmission is of the same copy; it ends as sent with a copy at
the host, or as failed; it does end. `Relay` implements it with
`outcome <- qstatus`, `got <- mailbox`; restarts do not show in it.

| Run | Question | Bounds |
|---|---|---|
| `relay_faults` | any two SQL statements fail and the process ends once, at any point; what does a message that is called sent leave behind (`SentVerdictBudget`)? Every queued recipient settles (liveness) | two recipients of one message in batches of one; two attempts, so there is a retry and a last attempt; a row is due as soon as its wait is over |
| `relay_promise` | the message gets its verdict, all copies are the same bytes, and `Outbox` is implemented, with liveness | two recipients in batches of two, two keys, a deleted domain; no crash, no error: with one a verdict can be lost for good |
| `relay_early_verdict` | `AllQueueDone` does not wait for all entries | violated |
| `relay_silent` | a silent host stops the queue for another message, too; deadlock checking is off because the system then does stop | violated |

`SentVerdictBudget` is what holds of a message's status with crashes and errors.
`checkMessageDone` counts the rows there are, once, right after an UPDATE whose
error was dropped: a crash in between, a failed statement there or in the
enqueue loop each can leave one recipient that failed, or has no row, behind a
message that stays "sent". The property says that nothing else can, and that
each of these costs one recipient; without any one of its three terms TLC
finds it violated. `SettledVerdict`, `EventuallyAnswered`, `GivesUpOnlyAtLimit`
and `SameBytes` do not hold with errors (the first two not with a crash either)
and are stated without.

Two recipients are the fewest of which one can settle while the other waits, is
still being inserted, or stands behind it in the batch. Batches of one make the
rows compete for the limit; batches of two make the second row of a batch older
than what the first one's delivery did. Rows of different messages meet only in
the batch and in the wait for the one goroutine, which `relay_silent` has; the
proofs cover any number of both.

Fairness is weak fairness of `RelayStep` (the ticker fires every 15 s and
nothing but a silent host stops the loop), of `HandlerStep` (Go runs the
goroutine of a request that has started) and of `Elapse` (time passes). Nobody
has to send, to generate a key or to delete.

## Directory

`domain[n]` is the id of the row with name `n`, `addresses` the rows of the
other table, `creating` the calls of `CreateAddress` between `GetDomain` and the
INSERT. Ids are numbers in the order of creation, because the code's are random
and never come twice. `DeleteDomain` deletes one row: the `_foreign_keys`
parameter in `db.Open` belongs to another driver and has no effect with
modernc.org/sqlite, so the references of the schema are not enforced.

The actions of `Directory` are steps of `Inbound`, and its properties are checked
in the run `inbound_directory`; that `Inbound` implements `Directory` is proved.

## Inbound

| TLA+ | Code |
|---|---|
| `session[m]` | the goroutine of a connection: `at` and `pos` say where it is, `look` what `ValidateAddress` has found, `to` and `seen` are the fields and locals of that name, `try` counts the sender's attempts |
| `stored`, `acked` | inbound rows of `messages`, and those with status `delivered` |
| `held` | what a poller has in hand |
| `allowed` | whether the mailbox was acceptable since its RCPT began: observed |
| `LookupDomain`, `LookupAddress`, `Check` | the statements of `ValidateAddress` and `HasAddresses`, used by `Rcpt` and again by `Data` |
| `Insert`, `InsertRaw` | `StoreInbound` from `Data` and from `storeRaw` |
| `Connect`, `Reply`, `Break` | the sender and go-smtp: a connection may break at any command or before the reply, and the sender then tries again |
| `Poll`, `Ack` | `handlePoll`; each UPDATE of `AckMessages` |

All actions of `Directory` interleave with the sessions. A sender that knows its
mail was not taken, or that a recipient was refused, does nothing more in the
model. Headers and bodies are not modelled; a mail can be parsed or not. Neither
are the limits on size and recipients that the server is configured with
(`MaxMessageBytes`, `MaxRecipients`): what they refuse, `Rcpt` and `Data` do not
see, but for the error of `ReadAll`, which ends `Data` before it has done anything.
The order of a poll is by seconds, so the model lets any messages come first:
more behaviours than the code has, fine for the safety properties and
for `StoredIsRead`.

| Run | Question | Bounds |
|---|---|---|
| `inbound_directory` | one mail for three mailboxes in two domains, while domains and addresses come and go between any two statements of the session, with a break or a restart anywhere and an SQL error anywhere | three rows ever made: enough to create a domain twice, or a domain and two addresses, or two domains and an address; two tries |
| `inbound_read` | two mails, one of which cannot be parsed, polls of one, two pollers, an acknowledgement that fails (liveness) | one domain and one mailbox |
| `inbound_lost_insert` | a failing INSERT in `Data`, answered 250 | violated |
| `inbound_shared` | of two recipients in a domain the second never finds the mail under its address | violated |

Fairness: a session that has a command to execute goes on; each agent goes on
polling and acknowledging. A sender need not connect, or connect again.

## Submission

| TLA+ | Code |
|---|---|
| `call[r]` | what the request says: the mailbox in `from`, the domain in the URL, and whether it is one to `/api/send` (`hello`) |
| `send[r]` | the handler: the statement it is at, the domain it will store under, what `GetDomainByName` has found, the answer |
| `bound` | rows of `addresses` whose `ethereum_address` is the signer's |
| `seen[r]` | whether the sender was registered, its domain open, or neither, at each moment of the request: observed |
| `Authorize` | `requireDomainToken` and the checks of `handleSend` up to `HasAddresses` |
| `VerifyHello` | `handleHelloSend` up to `ValidateAddress` |
| `CountAddresses`, `FindDomain`, `FindRow` | `HasAddresses`, the two statements of `ValidateAddress` |
| `Store` | the INSERT of `StoreOutbound` |
| `DirectoryChange` | any step of `Directory`, which interleaves with the handlers |

Tokens and signatures are right or wrong, requests complete or not (400).

`handleSend` compares the domain in `from` with the name of the token's domain by
`EqualFold`, and `ValidateAddress` looks it up exactly. So `Name` holds spellings:
`Fold` says which are one name but for their case, `FromMatches` compares by
`Fold`, `FindDomain` looks up by the name as it is written, and may find another
row than the one of the URL, or none. `Standing` follows the code where the
spelling decides: a sender is registered in the spelling it writes.

"Allowed" is defined from the tables at one moment (`Standing`), not from what
the handler does, so the property compares the handler's several reads with a
decision made at once.

| Run | Question | Bounds |
|---|---|---|
| `send` | one request of either kind with a right or wrong credential, while domains and addresses come and go | `MCSubmission`: three names, of which two are spellings of one; two mailboxes in one spelling and one in the other (the two may change places: symmetry); four rows ever made: both spellings and an address in each, or a domain that is deleted and created again with an address |

Requests do not see each other, so one is enough. Nothing is claimed of a
message when the domain it is stored under, or the one its mailbox was looked up
in, is gone by the time it is answered; the code claims nothing.

## WebSocket push

| TLA+ | Code |
|---|---|
| `client[c]` | a connection and its handler: before the subscription (`hello`), in the two writes of the handler (`greet`, `pong`), in `ReadJSON` (`read`), returned |
| `subs`, `made` | `s.subs`, and which of its maps exist |
| `push[x]` | a goroutine of `pushInbound`: whom it found (`must`), has written to (`sent`), is writing to (`to`) |
| `Subscribe`, `Leave` | the two sections of `handleWS` under `s.mu` |
| `TakeConns` | the section of `pushInbound` under `s.mu`; the loop after it holds no lock |
| `Visit`, `FinishWrite`, `EndPush` | the loop: the next entry, `WriteJSON`, the end |
| `MapRace`, `Clash` | the data races: on the map, and on a connection |
| `ProcessEnds` | a fatal error, a panic in a push, or `Kill` |

A Go map that is ranged over while it changes may or may not yield what is
added, and does not yield what is deleted; or the runtime notices and ends the
process. Two goroutines that write to one connection garble what arrives, or the
library notices and panics: in a handler `net/http` recovers it, in a push it
ends the process. These are choices of the model; a connection two goroutines
wrote to at once counts as `bad`, and no more is promised of it.

| Run | Question | Bounds |
|---|---|---|
| `push` | two clients, one of which may stall, with all the races | two domains; three messages, so that two pushes meet in a domain and a third is in the other; deadlock checking is off, since all messages may have been pushed |

The process may also end once for no reason of its own (`MaxKills`). Fairness:
the steps of a push go on, and a write to a client that is not in `Stalled`
ends. It is Go's scheduler and TCP; nobody has to connect, to ping or to leave.

## DKIM

`DKIM` has no concurrency: it takes every message up to a size, signs it as
`composeMessage` and `signDKIM` do, sends it as `net/smtp` does, and lets a
receiver verify it that is written from RFC 6376, position by position and with
none of the code's operators. Texts are sequences of tokens (see the
module). The text, the HTML and the headers From, To, Cc and Subject are the
client's, any of them; the two headers that mailr writes are visible text.
Hashes and RSA are identities.

| Run | Question | Bounds |
|---|---|---|
| `dkim` | for which messages does the signature verify? | every body of up to three tokens, alone or beside any HTML of up to two; any HTML of up to three; subjects of one to three with any From, To and Cc of one, with and without Cc: each boundary (empty, white space and line ends at either end, two in a row) fits into three; deadlock checking is off, as the run of a message ends |

Not modelled are a client's CRs without LF and headers it spreads over lines.

## Migrations and the commands of an operator

| TLA+ | Code |
|---|---|
| `db`, `journal` | `mailr.db` and `mailr.db-journal`: the rows, the columns that migrations made, their records, and whether the file is half-written |
| `proc` | the process: its point in `Migrate`, the loop's variable, its transaction |
| `image`, `source` | the number of migrations of the program in the image, and in the remote directory |
| `Open`, `Apply`, `Record`, `Commit`, `EndCommit`, `Ready` | `db.Open` and `Migrate`, statement by statement; a commit takes two steps, so it may be cut off |
| `Insert` | any change the store commits |
| `container` | of `docker compose`; `restart: unless-stopped` |
| `tmpBackup`, `tmpRestore`, `saved` | the files of `backup` and `restore`, on the server and at the operator's |
| `Script`, `Checked`, `cmd` | the steps of each command, those whose error it returns, and the command in progress |
| `Up`, `DownAll`, `StopOne`, ... | one remote step each; `Reports` lets it work but report an error, `Fails` lets it fail; `PullFails` is the `git pull` whose error `update` ignores, with or without effect |

SQLite's recovery and docker are modelled from how the code uses them and are
marked external. The driver does not know the `_journal_mode` of `db.Open`, so
the journal is a rollback journal. A process whose database is replaced while it
runs (a `stop` failed) is taken as ended, and the file as possibly damaged. What
`domain` edits in `.env` before it restarts is no state here. `cleanup` prunes
anonymous volumes, and the database is in a named one, so all the model has of it
is that an image may have to be built anew.

| Run | Question | Bounds |
|---|---|---|
| `ops` | any sequence of commands on a server that commits, crashes and is updated; `Database` is implemented | two migrations, so that one can be applied and the next not, and an older program can meet a newer file; two rows; one crash; one step that fails or loses its answer |

`Database` says what the file is to those who use it, without journal, process or
container: one state that changes by one transaction at a time (a row of the
store, or a migration with its record), whatever ends, starts or fails, and that
only a restore takes back, to a state some file is in, or damages. `Host`
implements it (`RefinesDatabase`) with `data` as what a process finds that opens
the file, after a journal is played back, and `copies` as the states of all files
there are. So a torn write does not show, a migration does not show before its
record is committed, and an older program leaves the schema of a newer file alone.

Fairness: docker restarts the process of a running container, and its steps up
to serving go on (`WF` of `Serve(StartStep)`). The operator need not do anything.

## What is proved

For every value of the constants, from the assumptions that `Relay`,
`Directory`, `Inbound`, `Submission`, `WSPush`, `DKIM`, `Migrate` and `Host` make
of them alone (types, that bounds are natural numbers, and that there are
finitely many recipients, which `SentVerdictBudget` counts):

| Theorem | Says | Argument |
|---|---|---|
| `TypeCorrect` | types of `Relay` | by action |
| `SentOnlyIfAccepted` | a sent recipient's host has the message | `result = "ok"` in `record` implies a copy in the mailbox of `cur` |
| `AttemptsBounded` | deliveries per recipient at most `maxAttempts`, plus one per crash and per failed statement | `attempts + restarts + faults` bounds the tries, one delivery in progress set apart |
| `NotGivenUpEarly` | without SQL errors a recipient fails only after `maxAttempts` deliveries | the same invariant from the other side |
| `SettledStaysSettled` | no step touches a settled recipient | `SnapshotsCurrent`: a fetched row is pending, and has the attempts that were read, until the relay itself writes it |
| `OneLetter` | all copies of a message are the same bytes | the stored copy, the one in hand and those delivered agree from the first save on |
| `ImplementsOutbox` | without SQL errors `Relay` implements the safety part of `Outbox`, whatever crashes | each action maps to an action of `Outbox` for `cur`'s recipient, or to a stutter |
| `VerdictHasCause` | no message is called sent or failed without a recipient that was | the result in hand at `mark` has a settled row behind it, and settled rows stay |
| `SentWithinBudget` | a sent message leaves behind at most one recipient per crash and failing statement, and the one being judged (`SentVerdictBudget`) | `BudgetInv`: rows are lost by failed statements only; when the relay is about to write "sent" no row of the message has failed; and a step that takes a recipient from a sent message is judged next, or pays |
| `FinalVerdict` | without crashes and errors the last `checkMessageDone` is right | once all rows are settled, either the relay is still to check this message or its last check saw them all |
| `DirectoryTypes`, `AddressesKeepTheirDomain`, `NewDomainsStartEmpty` | types; `OwnDomain`; `StartsEmpty` | `IdInv`: ids in use were given out, and no two domains share one |
| `InboundUsesDirectory`, `InboundOwnDomain`, `InboundStartsEmpty` | `Inbound` implements `Directory`, so the same holds in it | sessions, agents and restarts are `DirRestart` or stutters |
| `InboundTypes` | types of `Inbound` | by action, with `PointInv`: what a session holds at each point |
| `OneCopyForEachTry` | one try leaves at most one copy in a domain | `TryInv`: a row of the current try has its domain in `seen`, and the one about to be inserted is another |
| `RefusedIsNowhere` | a mail that was refused is not stored | `TryInv`: a session with a row of its current try is on its way to a 250 |
| `ConfirmedIsThere` | what was confirmed is stored wherever the domain is still there (`AcceptedIsStored`) | `StoredOK`: what `Data` has done for the recipients behind `pos`, in terms of facts that no step undoes |
| `FirstIsAddressed` | the first recipient of each domain has the mail under the address `Rcpt` saw, if both are still there (`FirstRecipientAddressed`) | `AddrOK`, stated like `StoredOK`: a row that is deleted does not come back, and a domain in `seen` was an earlier recipient's |
| `AcceptedWasAcceptableAlways` | whom `Rcpt` accepts was acceptable at one moment of its statements (`AcceptedWasAcceptable`) | `WatchInv`: `allowed` has what was true when the row was found, and what is true now |
| `SubmissionTypes` | types of `Submission` | by action, from `DirectoryTypes`' invariant |
| `QueuedWasAllowedAlways` | what is answered 201 was allowed at some moment, however many spellings names have (`QueuedWasAllowed`) | `Reach`: at each point of a handler, what it has found has been in `seen`, unless the domain it holds is gone |
| `RegisteredIsServedAlways` | who stays registered, as it spells its domain, is not refused, whichever spelling lends the token (`RegisteredIsServed`) | the same invariant: a refusal needs a moment without the row |
| `SubmissionUsesDirectory`, `SubmissionStartsEmpty`, `SubmissionOwnDomain` | `Submission` implements `Directory`, so the same holds under requests | a request's statements are stutters of `Directory` |
| `PushTypes` | types of `WSPush` | by action |
| `SubsExact` | `subs` holds whom handlers serve, and such as broke in the greeting | it is inductive with the types |
| `AllServed` | a push that ends has written to all it found who are still connected | `MustInv`: who was in the map when a push took it is in it still, or has no open connection |
| `BodyMatches` | what `canonicalizeBody` hashes is what the receiver hashes if and only if the body has no bare LF, no run of white space and something visible | both are filters of the text: the positions `Kept`, and the positions `Staying` |
| `HeaderMatches` | the same of `relaxHeaderValue`, if and only if the value has no no-break space | the fields that `strings.Fields` has found so far, joined, are what the receiver has so far, less a space at the end |
| `SurvivesIffPlain` | a signature verifies for the messages that are `Plain`, and for no other, with texts, HTML and headers of any length (`VerifiesIffPlain`) | `OnItsWay`: what each stage has made of the client's message |
| `HostTypes` | types of `Migrate` and `Host` | by action |
| `SchemaAlwaysMatches` | a migration is applied and recorded, or neither | `FilesInv`, `ProcInv`: the same of each copy of the file there is, and what the transaction holds at each point of `Migrate` |
| `DataSurvivesAlways` | only a restore takes a committed row away | `ProcInv`: a commit's file has the rows of its journal, or one more |
| `BackupHasAllAlways` | a backup whose steps worked has every row there was | `BackupInv`: how far the backup has come, and that nothing runs from its stop to its start |
| `RestoreIsExactAlways` | a restore whose steps worked leaves what was saved | `RestoreInv`, the same for a restore |
| `ServiceBackAlways` | a command whose steps worked leaves the server running | which step each command is at, by the types |
| `ImplementsDatabase` | `Host` implements `Database` (`RefinesDatabase`) | `TxInv`: the transaction that is open or half-written is one step ahead of what a crash would go back to |

`SnapshotsCurrent` is the heart of the relay's proofs. It holds because one
goroutine writes the queue rows once they are inserted; it would be lost with a
second relay, or a second process on the database, and the invariants with it.

`PointInv` and `TryInv` are what the sessions need: `OneCopyPerTry` says nothing
of the session that is about to insert, so it is not inductive by itself. For
`AcceptedIsStored` the difficulty is that the directory changes under a session
in mid-loop. A domain id that is gone never comes back, an id that lives belongs
to the same name, and a stored row stays: `StoredOK` is stated over these three
sets, which only grow, so no change of the directory can break it, and each
session step has to be looked at once, against a directory at rest. `AddrOK`
does the same for the addresses, with the rows that are lost, what a row can
only be the row of, and the addresses a mail is filed under.

For `Submission` the difficulty is that a handler reads in several statements
what others change in between. `Fits` carries it: ids are given out once, so the
two ids a handler holds (of the token's domain, and of the one it looked the
mailbox up in) either still mean the names the request gives or mean nothing any
more; and a mailbox has at most one row in a domain
(`OneRow`, the unique index), so the row that was found is the one that counted.
What was true at the moment of a read is then in `seen`, whatever came after.

In `Host` a property of one file is not inductive: a restore brings back a file
from long ago. `FilesInv` says of every copy (the database, its journal, the two
in `/tmp`, the operator's) what `SchemaMatches` needs of the one that is served.
`Quiet` and `HoldsAll` say that between the stop and the start of a command
nothing writes, so that the copy has what the file has.

In `DKIM` the two sides compute the same text in ways that have nothing in common:
the signer splits, trims, joins and loops over lines and fields, the receiver looks
at one position at a time. Texts are of any length, so this takes an induction, and
the library's induction theorems cannot be used (they take a predicate as a
parameter). `NatSet` is induction for a set of numbers in place of a predicate,
from the fact that strict inclusion is well-founded on finite sets. `FoldRuns` and
`FoldPrefixes` give each fold a *run*, the function from the number of elements
seen to what the fold has by then, and each helper of the code has the equations
of its run (`IsLines`, `IsJoin`, `IsRelaxHeader`, `IsRelaxed`). Runs are compared
prefix by prefix. That a message which is not `Plain` never verifies is shown from
the outputs: the receiver's text has no bare LF, no two spaces in a row, and ends
in one line end, and the signer's keeps whatever was wrong (`Rough`).

Only model-checked: all liveness (`EverySettles`, `EventuallyAnswered`,
`StoredIsRead`, `PushEnds`, `ComesUp`, the liveness in `RefinesOutbox`), which is
out of the prover's reach. Every safety property of a passing run has a theorem.

## What the checks found

Four disagreements between what a document or comment says and what the code
does have a violation run; `PROJECT.json` quotes the line.

1. `AllQueueDone` answers "failed" as soon as one recipient failed and "sent" as
   soon as the rows inserted so far are sent: clients see wrong statuses on the
   way, though the last one is right (`SettledVerdict`).
2. `SendMail` has no deadline: one silent host stops all outbound mail.
3. `Data` answers 250 when storing failed.
4. Two registered recipients in one domain share one message, filed under the
   first.

The models show more of the kind, which have no run of their own.

*In `Relay`, `Inbound` and `Directory`.* A failed
INSERT into `outbound_queue` is dropped, and the client gets 201. The back-off
is quadratic, not exponential. Foreign keys are not enforced, so addresses
outlive their domain. `storeRaw` stores for the first recipient only. `Rcpt` can
refuse a mailbox at the moment it is registered, because it asks for the address
before it asks whether there are any. A failing `HasAddresses` reads as "no
addresses".

*In `Submission`.* A sender whose address is the last of its domain, and is
deleted between `HasAddresses` and `ValidateAddress`, is refused, although it was
registered before and the domain is open to everyone after. A registered sender
that writes its domain in letters of another case passes the first check, and is
refused (403) or looked up among the addresses of another row. If there are rows
for two spellings of a name, the token of one lets an address of the other send,
although server.go:308 says that a domain with registered addresses has "the from
address ... one of them"; and if that other row is deleted before the answer, the
message has been let pass by an address no longer there, which is why
`QueuedWasAllowed` asks for both to be live.

*In `WSPush`.* A subscription or a disconnection during a push may end the
process, as may two messages that arrive at once for one subscriber, or a message
and a ping; otherwise a connection may be garbled. A subscriber that stops
reading holds up the push for those behind it in the map, one goroutine for each
message. A panic while a connection is being greeted leaves its entry in `subs`
for good (the second case in `SubscribedWhileServed`).

*In `DKIM`.* A signature does not verify if the text or the HTML has a bare LF
(what a JSON `"\n"` is), indentation, runs of spaces or a tab inside of a line, so
hardly any HTML that is written by hand; if there is nothing visible in plain
text; or if From, To, Cc or Subject has a no-break space.

*In `Host`.* `rm` of the backup on the server is not run with `sudo`, and may
leave `/tmp/mailr-backup.db`; a later backup whose copy fails downloads that old
file and reports success. `backup` does not copy a hot journal, and `restore`
leaves one there to be played back into the restored file. `start mailr` cannot
bring back what `down` removed. An `update` whose build fails has taken the
service down.

The properties concerned say so in their preconditions (`faults = 0`,
`m \in Parseable`, `Completes`, `~cmd.cut`, `net = "open"`). Where that leaves out
the very thing a hazard is about, the hazard's note in `PROJECT.json` says so, and
what the property then shows: that nothing but that thing can break it.

## What is not modelled

*Deployment and teardown* (`deploy.go`, and the parts of `setup.go` and `ssh.go`
it uses). One operator runs one sequence of calls of the AWS or DigitalOcean
command line after the other. What could be shown (an instance is left running
by a failure half-way, a second run makes another) depends on how the clouds
name, list and delete resources, which no code here says; a model would be of
them. Read without a model: the health check asks for port 4802, which
`docker-compose.yml` does not publish, so it never succeeds.

*Configuration* is a precedence of flags, environment and file.

*Text that no property is about*: MIME bodies, decoding of headers, listings,
log lines, the output of commands. Reads that return rows as they are (lists of
domains, addresses, messages) change nothing and are left out, except polls.
