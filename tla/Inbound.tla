------------------------------ MODULE Inbound ------------------------------
(***************************************************************************)
(* Inbound mail: the SMTP sessions (internal/smtp), StoreInbound,          *)
(* PollInbound and AckMessages (internal/store) and the agents that poll,  *)
(* on top of the domains and addresses of Directory, which change at any   *)
(* time.                                                                   *)
(*                                                                         *)
(* Each session is a goroutine of go-smtp; every SQL statement it executes *)
(* is a step, with nothing held from one to the next but what the session  *)
(* remembers.  A sender whose connection breaks before it has the reply    *)
(* sends the mail again, as SMTP has it do; what it does about a recipient *)
(* that was refused is another Mail.                                       *)
(***************************************************************************)
EXTENDS Directory, Sequences

CONSTANTS
  Mail,        \* transactions senders want to make
  RcptsOf,     \* RcptsOf[m]: the mailboxes of its RCPT commands, in order
  Parseable,   \* the mail that mail.ReadMessage can parse
  Agent,       \* pollers: of a domain (a Name) or of one address in it (a Box)
  PollLimit,   \* the limit they poll with
  MaxBreaks,   \* bound: broken connections and restarts of the process
  MaxFaults    \* bound: SQL statements that return an error

ASSUME InboundAssumption ==
  /\ RcptsOf \in [Mail -> Seq(Box)]
  /\ \A m \in Mail : RcptsOf[m] # <<>>
  /\ Parseable \subseteq Mail
  /\ Agent \subseteq Name \union Box
  /\ PollLimit \in Nat \ {0}
  /\ MaxBreaks \in Nat /\ MaxFaults \in Nat

VARIABLES
  session,  \* session[m]: the transaction of m, see Session
  stored,   \* the inbound rows of messages
  acked,    \* those with status 'delivered'; the others are 'received'
  held,     \* held[a]: polled by agent a and not acknowledged yet
  allowed,  \* allowed[m]: what Acceptable has been since the RCPT command in
            \* progress began (observation only)
  breaks,
  faults

inVars == <<session, stored, acked, held, breaks, faults>>
vars   == <<dirVars, inVars, allowed>>

\* id is drawn at the INSERT: at most one per mail, try and recipient.
Message == [mail : Mail, try : Nat \ {0}, box : Box, dom : Nat \ {None}, addr : Nat]

RcptSteps  == {"rcpt", "rcptaddr", "check"}
StoreSteps == {"store", "storeaddr", "insert", "raw", "rawinsert"}

\* An accepted recipient.  The session keeps the mailbox only: dom and addr are
\* what Rcpt saw (observation).
Recipient == [box : Box, dom : Nat \ {None}, addr : Nat]

\* look is what ValidateAddress has found so far.
Session ==
  [at    : {"new", "reply", "done"} \union RcptSteps \union StoreSteps,
   pos   : Nat \ {0},
   look  : [dom : Nat, addr : Nat],
   to    : Seq(Recipient),
   seen  : SUBSET (Nat \ {None}),
   reply : {"none", "250", "554", "refused"},
   try   : Nat \ {0}]

NotFound == [dom |-> None, addr |-> None]
NewSession(t) == [at |-> "new", pos |-> 1, look |-> NotFound, to |-> <<>>,
                  seen |-> {}, reply |-> "none", try |-> t]

TypeOK ==
  /\ DirTypeOK
  /\ session \in [Mail -> Session]
  /\ stored \subseteq Message
  /\ acked \subseteq stored
  /\ held \in [Agent -> SUBSET stored]
  /\ allowed \in [Mail -> SUBSET BOOLEAN]
  /\ breaks \in 0..MaxBreaks
  /\ faults \in 0..MaxFaults

Init ==
  /\ DirInit
  /\ session = [m \in Mail |-> NewSession(1)]
  /\ stored = {}
  /\ acked = {}
  /\ held = [a \in Agent |-> {}]
  /\ allowed = [m \in Mail |-> {}]
  /\ breaks = 0
  /\ faults = 0

SQLErrors(n) ==
  /\ faults + n <= MaxFaults
  /\ faults' = faults + n

-----------------------------------------------------------------------------
(* Moving a session on. *)

Goto(m, s) == session' = [session EXCEPT ![m] = s]

\* The mailbox of the RCPT command in progress, or of the turn of Data's loop.
Current(m) == IF session[m].at \in RcptSteps THEN RcptsOf[m][session[m].pos]
                                             ELSE session[m].to[session[m].pos].box

\* The answer to a RCPT is given, `to` is who has been accepted so far.  After
\* the last RCPT the sender gives up, or sends the data and Data parses it.
RcptAnswered(m, to) ==
  LET s == session[m]
  IN  IF s.pos < Len(RcptsOf[m])
        THEN [s EXCEPT !.at = "rcpt", !.pos = @ + 1, !.look = NotFound, !.to = to]
      ELSE IF to = <<>>
        THEN [s EXCEPT !.at = "done", !.look = NotFound, !.reply = "refused"]
      ELSE [s EXCEPT !.at = IF m \in Parseable THEN "store" ELSE "raw",
                     !.pos = 1, !.look = NotFound, !.to = to]

Answer(m, r) == [session[m] EXCEPT !.at = "reply", !.reply = r, !.look = NotFound]

\* The next turn of Data's loop over s.to; after the last one Data returns nil.
NextTurn(m) ==
  IF session[m].pos = Len(session[m].to)
    THEN Answer(m, "250")
    ELSE [session[m] EXCEPT !.at = "store", !.pos = @ + 1, !.look = NotFound]

\* No domain was found, or a lookup failed: Rcpt refuses the recipient, Data's
\* loop skips it, storeRaw returns nil.
Unhandled(m) ==
  CASE session[m].at \in RcptSteps            -> RcptAnswered(m, session[m].to)
    [] session[m].at \in {"store", "storeaddr"} -> NextTurn(m)
    [] session[m].at = "raw"                  -> Answer(m, "250")

\* A mailbox that Rcpt should accept: its domain d is handled, and it has a row
\* there or nothing has (store.go:290).
Acceptable(b, d, rows) ==
  d # None /\ ((\E a \in rows : a.dom = d) => \E a \in rows : a.dom = d /\ a.box = b)

\* The observation every step makes.
Watch ==
  allowed' = [m \in Mail |->
    IF session'[m].at \notin RcptSteps THEN {}
    ELSE LET b == RcptsOf[m][session'[m].pos]
         IN  {Acceptable(b, domain'[NameOf[b]], addresses')} \union
             IF session[m].at \in RcptSteps /\ session'[m].pos = session[m].pos
               THEN allowed[m] ELSE {}]

-----------------------------------------------------------------------------
(* The session's steps. *)

\* A sender connects: MAIL, and the first RCPT.
Connect(m) ==
  /\ session[m].at = "new"
  /\ Goto(m, [session[m] EXCEPT !.at = "rcpt"])
  /\ UNCHANGED <<dirVars, stored, acked, held, breaks, faults>>
  /\ Watch

\* Slip: the test for a nil domain is forgotten.
HandledAny(d) == TRUE

Handled(d) == d # None

\* GetDomainByName, of ValidateAddress and of storeRaw.
LookupDomain(m) ==
  LET d == domain[NameOf[Current(m)]]
      next == [rcpt |-> "rcptaddr", store |-> "storeaddr", raw |-> "rawinsert"]
  IN  /\ session[m].at \in DOMAIN next
      /\ \/ /\ SQLErrors(0)
            /\ Handled(d)
            /\ Goto(m, [session[m] EXCEPT !.at = next[@],
                                          !.look = [dom |-> d, addr |-> None]])
         \/ SQLErrors(0) /\ ~Handled(d) /\ Goto(m, Unhandled(m))
         \/ SQLErrors(1) /\ Goto(m, Unhandled(m))
      /\ UNCHANGED <<dirVars, stored, acked, held, breaks>>
      /\ Watch

\* Slips: Data dedupes all recipients; or none.
SeenAny(m)   == session[m].seen # {}
SeenNever(m) == FALSE

\* Data's "dedupe by domain".
Seen(m) == session[m].look.dom \in session[m].seen

\* The address row of ValidateAddress, under the domain id found before.
LookupAddress(m) ==
  LET s == session[m]
      look == [s.look EXCEPT !.addr = RowId(s.look.dom, Current(m))]
  IN  /\ s.at \in {"rcptaddr", "storeaddr"}
      /\ \/ /\ SQLErrors(0)
            /\ s.at = "rcptaddr"
            /\ Goto(m, [s EXCEPT !.at = "check", !.look = look])
         \/ /\ SQLErrors(0)
            /\ s.at = "storeaddr" /\ ~Seen(m)
            /\ Goto(m, [s EXCEPT !.at = "insert", !.look = look,
                                 !.seen = @ \union {s.look.dom}])
         \/ SQLErrors(0) /\ s.at = "storeaddr" /\ Seen(m) /\ Goto(m, NextTurn(m))
         \/ SQLErrors(1) /\ Goto(m, Unhandled(m))
      /\ UNCHANGED <<dirVars, stored, acked, held, breaks>>
      /\ Watch

\* Slip: Rcpt takes any mailbox of a known domain.
MayAcceptAny(m, has) == TRUE

\* Rcpt's rule, given what HasAddresses said.
MayAccept(m, has) == has => session[m].look.addr # None

\* HasAddresses, in a statement of its own.  Its error is dropped: false.
Check(m) ==
  LET s == session[m]
      rcpt == [box |-> Current(m), dom |-> s.look.dom, addr |-> s.look.addr]
  IN  /\ s.at = "check"
      /\ \E has \in BOOLEAN :
           /\ \/ SQLErrors(0) /\ has = HasAddresses(s.look.dom)
              \/ SQLErrors(1) /\ ~has
           /\ Goto(m, RcptAnswered(m, IF MayAccept(m, has) THEN Append(s.to, rcpt) ELSE s.to))
      /\ UNCHANGED <<dirVars, stored, acked, held, breaks>>
      /\ Watch

\* Slip: the address is never resolved.
AddressOfNobody(m) == None

\* msg.AddressID: the row Data has just looked up, storeRaw sets none.
AddressOf(m) == session[m].look.addr

StoreInbound(m) ==
  stored' = stored \union {[mail |-> m, try |-> session[m].try, box |-> Current(m),
                            dom |-> session[m].look.dom, addr |-> AddressOf(m)]}

\* Slip: Data returns the error of a failed INSERT at once.
AfterFailedInsertStrict(m) == Answer(m, "554")

\* Data only logs that the INSERT failed.
AfterFailedInsert(m) == NextTurn(m)

\* StoreInbound, in Data's loop.
Insert(m) ==
  /\ session[m].at = "insert"
  /\ \/ SQLErrors(0) /\ StoreInbound(m) /\ Goto(m, NextTurn(m))
     \/ SQLErrors(1) /\ UNCHANGED stored /\ Goto(m, AfterFailedInsert(m))
  /\ UNCHANGED <<dirVars, acked, held, breaks>>
  /\ Watch

\* StoreInbound, in storeRaw, which does return the error.
InsertRaw(m) ==
  /\ session[m].at = "rawinsert"
  /\ \/ SQLErrors(0) /\ StoreInbound(m) /\ Goto(m, Answer(m, "250"))
     \/ SQLErrors(1) /\ UNCHANGED stored /\ Goto(m, Answer(m, "554"))
  /\ UNCHANGED <<dirVars, acked, held, breaks>>
  /\ Watch

\* The sender has the reply to the data.
Reply(m) ==
  /\ session[m].at = "reply"
  /\ Goto(m, [session[m] EXCEPT !.at = "done"])
  /\ UNCHANGED <<dirVars, stored, acked, held, breaks, faults>>
  /\ Watch

\* The connection breaks (or ReadTimeout strikes) between two commands or
\* before the reply: the sender will try again.  Data does not notice.
Break(m) ==
  /\ breaks < MaxBreaks
  /\ breaks' = breaks + 1
  /\ session[m].at \in RcptSteps \union {"reply"}
  /\ Goto(m, NewSession(session[m].try + 1))
  /\ UNCHANGED <<dirVars, stored, acked, held, faults>>
  /\ Watch

\* The process ends and is started again: sessions and handlers are gone.
Restart ==
  /\ breaks < MaxBreaks
  /\ breaks' = breaks + 1
  /\ session' = [m \in Mail |-> IF session[m].at \in {"new", "done"} THEN session[m]
                                ELSE NewSession(session[m].try + 1)]
  /\ DirRestart
  /\ UNCHANGED <<stored, acked, held, faults>>
  /\ Watch

-----------------------------------------------------------------------------
(* The agents. *)

\* Slip: PollInbound without status='received'.
UnreadAny == stored

Unread == stored \ acked

\* PollInbound's WHERE.  A poller of an address uses the id of its row.
Matching(a) ==
  IF a \in Name THEN {x \in Unread : x.dom = domain[a]}
                ELSE {x \in Unread : /\ x.dom = domain[NameOf[a]]
                                     /\ x.addr # None
                                     /\ x.addr = RowId(x.dom, a)}

\* handlePoll.  received_at has a resolution of a second, so among messages
\* that arrive together any may come first; the model lets all arrive together.
Poll(a) ==
  /\ held[a] = {}
  /\ \E b \in SUBSET Matching(a) :
       /\ b # {}
       /\ Cardinality(b) <= PollLimit
       /\ b # Matching(a) => Cardinality(b) = PollLimit
       /\ held' = [held EXCEPT ![a] = b]
  /\ UNCHANGED <<dirVars, session, stored, acked, breaks, faults>>
  /\ Watch

\* One UPDATE of AckMessages.  It is skipped on an error, and not reached when
\* the domain is gone (requireDomainToken answers 404).
Ack(a, x) ==
  /\ x \in held[a]
  /\ held' = [held EXCEPT ![a] = @ \ {x}]
  /\ \/ SQLErrors(0) /\ Live(x.dom) /\ acked' = acked \union {x}
     \/ SQLErrors(0) /\ ~Live(x.dom) /\ UNCHANGED acked
     \/ SQLErrors(1) /\ UNCHANGED acked
  /\ UNCHANGED <<dirVars, session, stored, breaks>>
  /\ Watch

-----------------------------------------------------------------------------
DirectoryStep == DirHandler /\ UNCHANGED inVars /\ Watch

SessionStep(m) ==
  \/ LookupDomain(m) \/ LookupAddress(m) \/ Check(m)
  \/ Insert(m) \/ InsertRaw(m) \/ Reply(m)

AgentStep(a) == Poll(a) \/ \E x \in held[a] : Ack(a, x)

Next == \/ DirectoryStep
        \/ \E m \in Mail : Connect(m) \/ SessionStep(m) \/ Break(m)
        \/ \E a \in Agent : AgentStep(a)
        \/ Restart

Spec == Init /\ [][Next]_vars

\* A session goes on; an agent goes on polling and acknowledging.
FairSpec ==
  /\ Spec
  /\ \A m \in Mail : WF_vars(SessionStep(m))
  /\ \A a \in Agent : WF_vars(AgentStep(a))

-----------------------------------------------------------------------------
(* Safety. *)

Confirmed(m) == session[m].at = "done" /\ session[m].reply = "250"
ToOf(m)      == {session[m].to[k] : k \in DOMAIN session[m].to}

\* A sender that was told 250 can forget the mail: each domain it was accepted
\* for, if it still exists, has it, although domains and addresses changed
\* between RCPT and DATA and the connection may have broken before.  Of mail
\* that cannot be parsed only the first recipient's domain can say so.
AcceptedIsStored ==
  faults = 0 => \A m \in Mail : Confirmed(m) =>
    \A t \in IF m \in Parseable THEN ToOf(m) ELSE {session[m].to[1]} :
      Live(t.dom) => \E x \in stored : x.mail = m /\ x.dom = t.dom

\* A domain gets a mail once, however many of its mailboxes it is for, and only
\* a sender that had to send it again makes another copy (Data's seen).
OneCopyPerTry ==
  \A x, y \in stored : x.mail = y.mail /\ x.try = y.try /\ x.dom = y.dom => x = y

\* A sender that was told that the mail was not taken, and so reports it
\* undeliverable, is right: no part of it is stored.
RefusedIsNotStored ==
  \A m \in Mail :
    session[m].reply \in {"554", "refused"} /\ session[m].try = 1 =>
      \A x \in stored : x.mail # m

\* The first recipient of each domain gets the mail under its own address:
\* what Rcpt saw and what Data looks up again agree as long as the row is there.
FirstRecipientAddressed ==
  faults = 0 => \A m \in Parseable : Confirmed(m) =>
    \A k \in DOMAIN session[m].to :
      LET t == session[m].to[k]
      IN  /\ Live(t.dom)
          /\ \E a \in addresses : a.id = t.addr
          /\ \A j \in 1..(k - 1) : NameOf[session[m].to[j].box] # NameOf[t.box]
          => \E x \in stored : x.mail = m /\ x.dom = t.dom /\ x.addr = t.addr

\* The step answers m's RCPT command with 250.
Accepts(m) ==
  /\ session[m].at \in RcptSteps
  /\ session'[m].try = session[m].try
  /\ session'[m].to # session[m].to

\* A recipient that is accepted was acceptable at some moment of its RCPT
\* command, or its domain went while it was looked at (Rcpt's three statements).
AcceptedWasAcceptable ==
  [][\A m \in Mail :
       faults' = 0 /\ Accepts(m) /\ Live(session[m].look.dom) => TRUE \in allowed[m]]_vars

(* Liveness. *)

\* The messages of m that wait for an agent.
Waiting(m) == {x \in Unread : x.mail = m /\ Live(x.dom)}

\* What is stored is read: the poller of the domain acknowledges it in the end,
\* although it takes PollLimit messages at a time, shares them with pollers of
\* an address, and an acknowledgement may fail unseen (FairSpec).
StoredIsRead == \A m \in Mail : Waiting(m) # {} ~> Waiting(m) = {}

(* What documents or comments say and the code does not do. *)

\* README.md:109 "inbound SMTP arrives at port 25, stored and available via
\* poll or WebSocket": what was answered with 250 is stored.
ConfirmedIsStored ==
  \A m \in Parseable : Confirmed(m) =>
    \A t \in ToOf(m) : Live(t.dom) => \E x \in stored : x.mail = m /\ x.dom = t.dom

\* smtp/server.go:105 "Store per recipient, resolving address" and README.md:346
\* "Poll for just that agent's mail": mail accepted for a registered address is
\* found by polling for that address.
EveryRecipientAddressed ==
  faults = 0 => \A m \in Parseable : Confirmed(m) =>
    \A t \in ToOf(m) :
      Live(t.dom) /\ (\E a \in addresses : a.id = t.addr) =>
        \E x \in stored : x.mail = m /\ x.dom = t.dom /\ x.addr = t.addr
=============================================================================
