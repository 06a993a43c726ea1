----------------------------- MODULE Submission -----------------------------
(***************************************************************************)
(* Who may send: requireDomainToken, handleSend and handleHelloSend        *)
(* (internal/api) up to StoreOutbound, on top of the domains and addresses *)
(* of Directory.  What becomes of the message is Relay's matter.           *)
(*                                                                         *)
(* A handler is a goroutine; each SQL statement is a step, and domains and *)
(* addresses change between any two of them.                               *)
(***************************************************************************)
EXTENDS Directory

CONSTANTS
  Request,   \* send requests
  Fold       \* Fold[n] is the name n without the case of its letters

\* Names are compared exactly (the tables) or by their Fold (strings.EqualFold).
ASSUME SubmissionAssumption == DOMAIN Fold = Name

VARIABLES
  call,    \* call[r]: what the client sends, see Call
  send,    \* send[r]: the handler of r
  bound,   \* ids of the rows whose ethereum_address is the client's
  seen     \* seen[r]: what Standing has been since its first statement (observation only)

sendVars == <<call, send, bound>>
subVars  == <<dirVars, sendVars, seen>>

\* A request names its mailbox, in the client's spelling: Names that differ in
\* the case of letters are names of their own, and so are their mailboxes.  It is
\* one to /api/send, signed with the client's Ethereum key, or it uses the id
\* and token of the domain called url.  (A hello request names no domain.)
Call == {c \in [from : Box, url : Name, hello : BOOLEAN] : c.hello => c.url = NameOf[c.from]}

Replies == {"none", "201", "400", "401", "403", "404", "500"}

\* dom is the domain the message will be stored under, look what GetDomainByName found.
Handler ==
  [at : {"new", "count", "name", "row", "store", "done"}, dom : Nat, look : Nat, reply : Replies]

SubTypeOK ==
  /\ DirTypeOK
  /\ call \in [Request -> Call]
  /\ send \in [Request -> Handler]
  /\ bound \subseteq 1..issued
  /\ seen \in [Request -> SUBSET {"registered", "open", "barred"}]
  /\ \A r \in Request :
       /\ send[r].at = "row" => send[r].look # None
       /\ send[r].at \in {"count", "store"} => send[r].dom # None

SubInit ==
  /\ DirInit
  /\ call \in [Request -> Call]
  /\ send = [r \in Request |-> [at |-> "new", dom |-> None, look |-> None, reply |-> "none"]]
  /\ bound = {}
  /\ seen = [r \in Request |-> {}]

-----------------------------------------------------------------------------
(* What a request is entitled to.  Its mailbox is registered, in the very  *)
(* spelling it writes (and bound to the signer, for a hello request); or   *)
(* the domain whose token it shows is open, having no addresses at all; or *)
(* it is barred.  A token is good for the domain's name in any spelling.   *)

Own(r) == NameOf[call[r].from]

Standing(r, dom, rows, bnd) ==
  LET mine == {a \in rows : a.dom = dom[Own(r)] /\ a.box = call[r].from}
      url  == dom[call[r].url]
  IN  IF Fold[Own(r)] # Fold[call[r].url] THEN "barred"
      ELSE IF dom[Own(r)] # None /\ \E a \in mine : call[r].hello => a.id \in bnd
           THEN "registered"
      ELSE IF ~call[r].hello /\ url # None /\ \A a \in rows : a.dom # url THEN "open"
      ELSE "barred"

\* The observation every step makes: of a request that is under way.
Watch ==
  seen' = [r \in Request |->
    IF send'[r].at \in {"new", "done"} THEN {}
    ELSE seen[r] \union {Standing(r, domain', addresses', bound')}]

Goto(r, s) == send' = [send EXCEPT ![r] = s]
Answered(r, code) == [send[r] EXCEPT !.at = "done", !.reply = code]

\* Slip: the error is ignored.
FailsOn(r) == Goto(r, [send[r] EXCEPT !.at = "row"])

\* A SELECT of the handler that fails is answered with 500.
Fails(r) == Goto(r, Answered(r, "500"))

-----------------------------------------------------------------------------
(* The handlers' statements. *)

\* Slips: the domain of "from" is not compared, or compared exactly.
FromMatchesAny(r)   == TRUE
FromMatchesExact(r) == Own(r) = call[r].url

\* "from address must belong to domain": its name is that of the row found, in
\* any spelling.  ValidateAddress will look it up as it is spelled.
FromMatches(r) == Fold[Own(r)] = Fold[call[r].url]

\* requireDomainToken's GetDomain and the checks up to HasAddresses.  The id
\* in the URL is that of the domain called url, or of none that is there, the
\* token may be wrong and the request incomplete.
Authorize(r) ==
  LET d == domain[call[r].url]
  IN  /\ send[r].at = "new" /\ ~call[r].hello
      /\ \/ \E code \in {"400", "401", "404"} : Goto(r, Answered(r, code))
         \/ d # None /\ ~FromMatches(r) /\ Goto(r, Answered(r, "403"))
         \/ d # None /\ FromMatches(r) /\ Goto(r, [send[r] EXCEPT !.at = "count", !.dom = d])
         \/ Fails(r)
      /\ UNCHANGED <<dirVars, call, bound>>
      /\ Watch

\* handleHelloSend up to ValidateAddress: the signature is valid or it is not,
\* the request complete or not.
VerifyHello(r) ==
  /\ send[r].at = "new" /\ call[r].hello
  /\ \/ Goto(r, [send[r] EXCEPT !.at = "name"])
     \/ \E code \in {"400", "401"} : Goto(r, Answered(r, code))
  /\ UNCHANGED <<dirVars, call, bound>>
  /\ Watch

\* HasAddresses: a domain without addresses lets any sender pass.
CountAddresses(r) ==
  /\ send[r].at = "count"
  /\ \/ Goto(r, [send[r] EXCEPT !.at = IF HasAddresses(send[r].dom) THEN "name" ELSE "store"])
     \/ Fails(r)
  /\ UNCHANGED <<dirVars, call, bound>>
  /\ Watch

\* ValidateAddress's GetDomainByName, by the exact name.  For a token request
\* that may be another domain than the one in the URL, or none.
FindDomain(r) ==
  LET d == domain[Own(r)]
  IN  /\ send[r].at = "name"
      /\ \/ d = None /\ Goto(r, Answered(r, "403"))
         \/ d # None /\ Goto(r, [send[r] EXCEPT !.at = "row", !.look = d])
         \/ Fails(r)
      /\ UNCHANGED <<dirVars, call, bound>>
      /\ Watch

\* What the handler makes of the row ValidateAddress returns.
MaySend(r, i) == i # None /\ (call[r].hello => i \in bound)

\* ValidateAddress's address row.  handleHelloSend stores under the domain
\* found here, handleSend under the id of the URL.
FindRow(r) ==
  LET s == send[r]
      i == RowId(s.look, call[r].from)
  IN  /\ s.at = "row"
      /\ \/ /\ MaySend(r, i)
            /\ Goto(r, [s EXCEPT !.at = "store", !.dom = IF call[r].hello THEN s.look ELSE @])
         \/ ~MaySend(r, i) /\ Goto(r, Answered(r, "403"))
         \/ Fails(r)
      /\ UNCHANGED <<dirVars, call, bound>>
      /\ Watch

\* StoreOutbound's INSERT, whether the domain is still there or not.
Store(r) ==
  /\ send[r].at = "store"
  /\ Goto(r, Answered(r, "201")) \/ Fails(r)
  /\ UNCHANGED <<dirVars, call, bound>>
  /\ Watch

-----------------------------------------------------------------------------
(* Directory's handlers; an address is created with an Ethereum address or *)
(* without.  The process may end, too: its requests are never answered.    *)

DirectoryChange ==
  /\ \/ DirHandler /\ UNCHANGED send
     \/ DirRestart /\ send' = [r \in Request |->
                        IF send[r].at = "new" THEN send[r] ELSE [send[r] EXCEPT !.at = "done"]]
  /\ \/ bound' = bound
     \/ issued' = issued + 1 /\ addresses' # addresses /\ bound' = bound \union {NewId}
  /\ UNCHANGED call
  /\ Watch

RequestStep(r) ==
  \/ Authorize(r) \/ VerifyHello(r) \/ CountAddresses(r)
  \/ FindDomain(r) \/ FindRow(r) \/ Store(r)

SubNext == DirectoryChange \/ \E r \in Request : RequestStep(r)

SubSpec == SubInit /\ [][SubNext]_subVars

-----------------------------------------------------------------------------
(* Properties. *)

\* The step answers r with the code.
Answers(r, code) == send[r].reply = "none" /\ send'[r].reply = code

\* A message that is answered 201 was allowed at some moment of the request:
\* its mailbox was registered (and bound to the signer) or the domain of its
\* token open, whatever came and went between the statements that decide it.
\* Only when the domain it is stored under, or the one its mailbox was looked up
\* in, is deleted meanwhile does the answer mean nothing.
QueuedWasAllowed ==
  [][\A r \in Request :
       /\ Answers(r, "201")
       /\ \A d \in {send[r].dom, send[r].look} : d # None => Live(d)
       => seen[r] \intersect {"registered", "open"} # {}]_subVars

\* A sender that stays registered throughout its request, in the spelling it
\* writes, is not refused, however many other addresses and domains come and
\* go, and whichever spelling of its domain lends the token.
RegisteredIsServed ==
  [][\A r \in Request :
       Answers(r, "403") =>
         seen[r] \union {Standing(r, domain, addresses, bound)} # {"registered"}]_subVars
=============================================================================
