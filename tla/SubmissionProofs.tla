-------------------------- MODULE SubmissionProofs --------------------------
(***************************************************************************)
(* Who may send: theorems about Submission, for any requests, names,       *)
(* mailboxes and number of rows.                                           *)
(*                                                                         *)
(* A handler decides in several statements about a directory that moves    *)
(* under it.  What saves it is that ids are given out once: a domain id it *)
(* holds still means the domain of the name it was read for, the URL's or  *)
(* the mailbox's, or none (Fits).                                          *)
(***************************************************************************)
EXTENDS Submission, DirectoryProofs, TLAPS

\* The id d was given out, and is that of no domain but the one called k.
Fits(k, d) == d <= issued /\ \A n \in Name : domain[n] = d => n = k

\* The domains that the handler of r holds, if any, are there.
AllLive(r) == \A d \in {send[r].dom, send[r].look} : d # None => Live(d)

Now(r) == Standing(r, domain, addresses, bound)

\* What the handler of r has established, by where it is.
Reach(r) ==
  /\ send[r].dom <= issued /\ send[r].look <= issued
  /\ send[r].at = "count" => ~call[r].hello
  /\ send[r].at \in {"count", "name", "row"} /\ ~call[r].hello =>
       Fits(call[r].url, send[r].dom) /\ send[r].dom # None
  /\ send[r].at = "row" => Fits(Own(r), send[r].look)
  /\ send[r].at = "row" /\ seen[r] = {"registered"} => domain[Own(r)] = send[r].look
  /\ send[r].at \notin {"new", "done"} => Fold[Own(r)] = Fold[call[r].url]
  /\ send[r].at = "store" /\ AllLive(r) => seen[r] \intersect {"registered", "open"} # {}
  /\ send[r].at \notin {"new", "done"} => Now(r) \in seen[r]

SubInv == DirInv /\ OneRow /\ SubTypeOK /\ \A r \in Request : Reach(r)

-----------------------------------------------------------------------------
(* What the directory's handlers do to what a request has read. *)

LEMMA Aging ==
  ASSUME DirInv, DirNext
  PROVE  /\ issued \in Nat /\ issued' \in Nat /\ issued <= issued'
         /\ \A n \in Name : domain[n] \in Nat /\ domain'[n] \in Nat
         /\ \A n \in Name : domain'[n] \in {domain[n], None, issued + 1}
         /\ \A n \in Name : domain[n] # None /\ domain'[n] # None => domain'[n] = domain[n]
<1>1. issued \in Nat /\ issued' \in Nat
  BY DirStepInv, DirectoryAssumption DEF DirInv, DirTypeOK
<1>2. \A n \in Name : domain[n] \in Nat /\ domain'[n] \in Nat
  BY DirStepInv DEF DirInv, DirTypeOK
<1> USE DirectoryAssumption, <1>1, <1>2
<1>3. ASSUME NEW k \in Name, CreateDomain(k) \/ DeleteDomain(k)
      PROVE  /\ issued <= issued'
             /\ \A n \in Name : domain'[n] \in {domain[n], None, issued + 1}
             /\ \A n \in Name : domain[n] # None /\ domain'[n] # None => domain'[n] = domain[n]
  BY <1>3 DEF CreateDomain, DeleteDomain, DirInv, DirTypeOK, NewId
<1>4. ASSUME domain' = domain, issued' \in {issued, issued + 1}
      PROVE  /\ issued <= issued'
             /\ \A n \in Name : domain'[n] \in {domain[n], None, issued + 1}
             /\ \A n \in Name : domain[n] # None /\ domain'[n] # None => domain'[n] = domain[n]
  BY <1>4
<1>5. CASE \/ \E b \in Box : StartAddress(b)
           \/ \E c \in creating : InsertAddress(c)
           \/ \E a \in addresses : DeleteAddress(a)
           \/ DirRestart
  <2>1. domain' = domain /\ issued' \in {issued, issued + 1}
    BY <1>5 DEF StartAddress, InsertAddress, DeleteAddress, DirRestart
  <2> QED BY <1>4, <2>1
<1> QED BY <1>3, <1>5 DEF DirNext, DirHandler

\* What fits goes on to fit, and no id that was given out comes to life again.
LEMMA FitsOn ==
  ASSUME DirInv, DirNext, NEW d \in Nat, d <= issued
  PROVE  /\ d <= issued'
         /\ d # None /\ Live(d)' => Live(d)
         /\ \A k \in Name : Fits(k, d) /\ d # None => Fits(k, d)'
<1>1. \A n \in Name : domain'[n] = d /\ d # None => domain[n] = d
  BY Aging DEF None
<1> QED BY Aging, <1>1 DEF Fits, Live

\* A domain that is there and fits is the one of the name.
LEMMA FitsLive ==
  ASSUME NEW k \in Name, NEW d, Fits(k, d), Live(d)
  PROVE  domain[k] = d
BY DEF Fits, Live

-----------------------------------------------------------------------------
(* A step of a request. *)

LEMMA Moves ==
  ASSUME SubInv, NEW r \in Request, NEW s \in Handler, send' = [send EXCEPT ![r] = s],
         UNCHANGED <<dirVars, call, bound>>, Watch,
         s.at = "row" => s.look # None, s.at \in {"count", "store"} => s.dom # None,
         s.dom <= issued, s.look <= issued,
         s.at = "count" => ~call[r].hello,
         s.at \in {"count", "name", "row"} /\ ~call[r].hello =>
           Fits(call[r].url, s.dom) /\ s.dom # None,
         s.at = "row" => Fits(Own(r), s.look) /\ domain[Own(r)] = s.look,
         s.at # "done" => Fold[Own(r)] = Fold[call[r].url],
         s.at = "store" /\ (\A d \in {s.dom, s.look} : d # None => Live(d)) =>
           Now(r) \in {"registered", "open"}
  PROVE  SubInv'
<1>1. DirInv' /\ OneRow'
  BY DirStepInv DEF SubInv, OneRow, dirVars
<1>2. \A q \in Request : send'[q] = IF q = r THEN s ELSE send[q]
  BY DEF SubInv, SubTypeOK
<1>3. ASSUME NEW q \in Request
      PROVE  /\ Now(q)' = Now(q) /\ Standing(q, domain', addresses', bound') = Now(q)
             /\ Now(q) \in {"registered", "open", "barred"}
  BY DEF Now, Standing, Own, dirVars
<1>4. \A q \in Request : seen'[q] = IF send'[q].at \in {"new", "done"} THEN {}
                                    ELSE seen[q] \union {Now(q)}
  BY <1>3 DEF Watch
<1>5. SubTypeOK'
  <2>1. DirTypeOK' /\ call' \in [Request -> Call] /\ bound' \subseteq 1..issued'
    BY <1>1 DEF DirInv, SubInv, SubTypeOK, dirVars
  <2>2. send' \in [Request -> Handler]
    BY DEF SubInv, SubTypeOK
  <2>3. \A q \in Request : seen'[q] \in SUBSET {"registered", "open", "barred"}
    <3>1. ASSUME NEW q \in Request
          PROVE  /\ Now(q) \in {"registered", "open", "barred"}
                 /\ seen[q] \in SUBSET {"registered", "open", "barred"}
      BY <1>3 DEF SubInv, SubTypeOK
    <3>2. ASSUME NEW q \in Request PROVE seen'[q] \in {{}, seen[q] \union {Now(q)}}
      BY <1>4
    <3> QED BY <3>1, <3>2
  <2>4. seen' \in [Request -> SUBSET {"registered", "open", "barred"}]
    BY <2>3 DEF Watch
  <2> QED BY <1>2, <2>1, <2>2, <2>4 DEF SubTypeOK, SubInv
<1>6. ASSUME NEW q \in Request PROVE Reach(q)'
  <2>0. /\ Own(q)' = Own(q) /\ call'[q] = call[q] /\ issued' = issued
        /\ \A k, d : Fits(k, d)' <=> Fits(k, d)
        /\ \A d : Live(d)' <=> Live(d)
        /\ domain'[Own(q)] = domain[Own(q)]
    <3>1. Own(q)' = Own(q) /\ call'[q] = call[q]
      BY DEF Own
    <3>2. issued' = issued /\ domain' = domain
      BY DEF dirVars
    <3>3. ASSUME NEW k, NEW d PROVE Fits(k, d)' <=> Fits(k, d)
      BY <3>2 DEF Fits
    <3>4. ASSUME NEW d PROVE Live(d)' <=> Live(d)
      BY <3>2 DEF Live
    <3> QED BY <3>1, <3>2, <3>3, <3>4
  <2>1. CASE q # r
    <3>1. Reach(q) /\ send'[q] = send[q] /\ AllLive(q)' = AllLive(q)
      BY <1>2, <2>0, <2>1 DEF SubInv, AllLive
    <3>2. send[q].at \notin {"new", "done"} => seen'[q] = seen[q] /\ Now(q)' \in seen'[q]
      BY <1>3, <1>4, <3>1 DEF Reach
    <3> QED BY <2>0, <3>1, <3>2 DEF Reach
  <2>2. CASE q = r
    <3>1. send'[q] = s
      BY <1>2, <2>2
    <3>2. s.at \notin {"new", "done"} => Now(q) \in seen'[q] /\ Now(q)' = Now(q)
      BY <1>3, <1>4, <3>1
    <3>3. s.at = "store" /\ AllLive(q)' => seen'[q] \intersect {"registered", "open"} # {}
      BY <2>0, <2>2, <3>1, <3>2 DEF AllLive
    <3>4. s.at # "new" /\ s.at # "done" => Fold[Own(q)] = Fold[call[q].url]
      BY <2>2
    <3> QED BY <2>0, <2>2, <3>1, <3>2, <3>3, <3>4 DEF Reach
  <2> QED BY <2>1, <2>2
<1> QED BY <1>1, <1>5, <1>6 DEF SubInv

LEMMA AnswerKeeps ==
  ASSUME SubInv, NEW r \in Request, NEW code \in Replies, Goto(r, Answered(r, code)),
         UNCHANGED <<dirVars, call, bound>>, Watch
  PROVE  SubInv'
<1>1. send[r] \in Handler /\ send[r].dom <= issued /\ send[r].look <= issued
  BY DEF SubInv, SubTypeOK, Reach
<1> DEFINE s == Answered(r, code)
<1>2. s \in Handler /\ s.at = "done" /\ s.dom = send[r].dom /\ s.look = send[r].look
  BY <1>1 DEF Answered, Handler
<1>3. send' = [send EXCEPT ![r] = s]
  BY DEF Goto
<1> HIDE DEF s
<1> QED BY <1>1, <1>2, <1>3, Moves

\* The domain that has the name has an id that fits.
LEMMA OwnFits ==
  ASSUME SubInv, NEW k \in Name
  PROVE  domain[k] # None => Fits(k, domain[k])
BY DEF SubInv, DirInv, IdInv, Fits, None

\* A hello request names no other domain than its own.
LEMMA HelloNamesOwn ==
  ASSUME SubInv, NEW r \in Request
  PROVE  /\ Own(r) \in Name /\ call[r].url \in Name
         /\ call[r].hello => call[r].url = Own(r)
BY DirectoryAssumption DEF SubInv, SubTypeOK, Call, Own

LEMMA RequestKeeps ==
  ASSUME SubInv, NEW r \in Request, RequestStep(r)
  PROVE  SubInv'
<1>0. /\ send[r] \in Handler /\ Reach(r) /\ Own(r) \in Name /\ call[r].url \in Name
      /\ call[r].hello => call[r].url = Own(r)
      /\ \A n \in Name : domain[n] \in Nat
  BY HelloNamesOwn DEF SubInv, SubTypeOK, DirTypeOK
<1>1. UNCHANGED <<dirVars, call, bound>> /\ Watch
  BY DEF RequestStep, Authorize, VerifyHello, CountAddresses, FindDomain, FindRow, Store
<1>2. CASE \E code \in Replies : Goto(r, Answered(r, code))
  BY <1>1, <1>2, AnswerKeeps
<1>3. CASE Authorize(r)
  <2> DEFINE s == [send[r] EXCEPT !.at = "count", !.dom = domain[call[r].url]]
  <2>1. \/ \E code \in Replies : Goto(r, Answered(r, code))
        \/ domain[call[r].url] # None /\ FromMatches(r) /\ Goto(r, s)
    BY <1>3 DEF Authorize, Fails, Replies
  <2>2. CASE domain[call[r].url] # None /\ FromMatches(r) /\ Goto(r, s)
    <3>1. /\ s \in Handler /\ s.at = "count" /\ s.dom = domain[call[r].url]
          /\ s.look = send[r].look
      BY <1>0, <2>2 DEF Handler
    <3>2. send' = [send EXCEPT ![r] = s]
      BY <2>2 DEF Goto
    <3>3. Fits(call[r].url, s.dom) /\ s.dom <= issued /\ s.look <= issued /\ s.dom # None
      BY <1>0, <2>2, <3>1, OwnFits DEF Fits, Reach
    <3>4. ~call[r].hello /\ Fold[Own(r)] = Fold[call[r].url]
      BY <1>3, <2>2 DEF Authorize, FromMatches
    <3> HIDE DEF s
    <3> QED BY <1>1, <3>1, <3>2, <3>3, <3>4, Moves
  <2> QED BY <1>2, <2>1, <2>2
<1>4. CASE VerifyHello(r)
  <2> DEFINE s == [send[r] EXCEPT !.at = "name"]
  <2>1. (\E code \in Replies : Goto(r, Answered(r, code))) \/ Goto(r, s)
    BY <1>4 DEF VerifyHello, Replies
  <2>2. CASE Goto(r, s)
    <3>1. s \in Handler /\ s.at = "name" /\ s.dom = send[r].dom /\ s.look = send[r].look
      BY <1>0 DEF Handler
    <3>2. send' = [send EXCEPT ![r] = s]
      BY <2>2 DEF Goto
    <3>3. s.dom <= issued /\ s.look <= issued /\ call[r].hello
      BY <1>0, <1>4, <3>1 DEF Reach, VerifyHello
    <3>4. Fold[Own(r)] = Fold[call[r].url]
      BY <1>0, <3>3
    <3> HIDE DEF s
    <3> QED BY <1>1, <3>1, <3>2, <3>3, <3>4, Moves
  <2> QED BY <1>2, <2>1, <2>2
<1>5. CASE CountAddresses(r)
  <2>0. /\ send[r].at = "count" /\ ~call[r].hello /\ send[r].dom # None
        /\ Fits(call[r].url, send[r].dom) /\ Fold[Own(r)] = Fold[call[r].url]
        /\ send[r].dom <= issued /\ send[r].look <= issued
    BY <1>0, <1>5 DEF CountAddresses, Reach
  <2> DEFINE s == [send[r] EXCEPT !.at = IF HasAddresses(send[r].dom) THEN "name" ELSE "store"]
  <2>1. (\E code \in Replies : Goto(r, Answered(r, code))) \/ Goto(r, s)
    BY <1>5 DEF CountAddresses, Fails, Replies
  <2>2. CASE Goto(r, s)
    <3>1. /\ s \in Handler /\ s.dom = send[r].dom /\ s.look = send[r].look
          /\ s.at = IF HasAddresses(send[r].dom) THEN "name" ELSE "store"
      BY <1>0 DEF Handler
    <3>2. send' = [send EXCEPT ![r] = s]
      BY <2>2 DEF Goto
    <3>3. ASSUME s.at = "store", \A d \in {s.dom, s.look} : d # None => Live(d)
          PROVE  Now(r) \in {"registered", "open"}
      <4>1. domain[call[r].url] = send[r].dom
        BY <1>0, <2>0, <3>1, <3>3, FitsLive
      <4>2. \A a \in addresses : a.dom # send[r].dom
        BY <3>1, <3>3 DEF HasAddresses
      <4> QED BY <2>0, <4>1, <4>2 DEF Now, Standing
    <3> HIDE DEF s
    <3> QED BY <1>1, <2>0, <3>1, <3>2, <3>3, Moves
  <2> QED BY <1>2, <2>1, <2>2
<1>6. CASE FindDomain(r)
  <2> DEFINE s == [send[r] EXCEPT !.at = "row", !.look = domain[Own(r)]]
  <2>1. \/ \E code \in Replies : Goto(r, Answered(r, code))
        \/ domain[Own(r)] # None /\ Goto(r, s)
    BY <1>6 DEF FindDomain, Fails, Replies
  <2>2. CASE domain[Own(r)] # None /\ Goto(r, s)
    <3>1. s \in Handler /\ s.dom = send[r].dom /\ s.at = "row" /\ s.look = domain[Own(r)]
      BY <1>0 DEF Handler
    <3>2. send' = [send EXCEPT ![r] = s]
      BY <2>2 DEF Goto
    <3>3. Fits(Own(r), s.look) /\ s.look # None /\ s.dom <= issued /\ s.look <= issued
      BY <1>0, <2>2, <3>1, OwnFits DEF Reach, Fits
    <3>4. ~call[r].hello => Fits(call[r].url, s.dom) /\ s.dom # None
      BY <1>0, <1>6, <3>1 DEF Reach, FindDomain
    <3>5. Fold[Own(r)] = Fold[call[r].url]
      BY <1>0, <1>6 DEF Reach, FindDomain
    <3> HIDE DEF s
    <3> QED BY <1>1, <3>1, <3>2, <3>3, <3>4, <3>5, Moves
  <2> QED BY <1>2, <2>1, <2>2
<1>7. CASE FindRow(r)
  <2> DEFINE i == RowId(send[r].look, call[r].from)
             s == [send[r] EXCEPT !.at = "store",
                                  !.dom = IF call[r].hello THEN send[r].look ELSE @]
  <2>0. /\ send[r].at = "row" /\ send[r].look # None /\ Fits(Own(r), send[r].look)
        /\ Fold[Own(r)] = Fold[call[r].url]
        /\ send[r].dom <= issued /\ send[r].look <= issued
        /\ ~call[r].hello => send[r].dom # None
    BY <1>0, <1>7 DEF FindRow, Reach, SubInv, SubTypeOK
  <2>1. \/ \E code \in Replies : Goto(r, Answered(r, code))
        \/ MaySend(r, i) /\ Goto(r, s)
    BY <1>7 DEF FindRow, Fails, Replies
  <2>2. CASE MaySend(r, i) /\ Goto(r, s)
    <3>1. /\ s \in Handler /\ s.at = "store" /\ s.look = send[r].look
          /\ s.dom = IF call[r].hello THEN send[r].look ELSE send[r].dom
      BY <1>0 DEF Handler
    <3>2. send' = [send EXCEPT ![r] = s]
      BY <2>2 DEF Goto
    <3>3. s.dom <= issued /\ s.look <= issued /\ s.dom # None
      BY <2>0, <3>1
    <3>4. PICK a \in addresses : a.dom = send[r].look /\ a.box = call[r].from /\ a.id = i
      BY <2>2 DEF MaySend, RowId, RowsOf, None
    <3>5. ASSUME \A d \in {s.dom, s.look} : d # None => Live(d)
          PROVE  Now(r) \in {"registered", "open"}
      <4>1. domain[Own(r)] = send[r].look
        BY <1>0, <2>0, <3>1, <3>5, FitsLive
      <4>2. call[r].hello => a.id \in bound
        BY <2>2, <3>4 DEF MaySend
      <4> QED BY <2>0, <3>4, <4>1, <4>2 DEF Now, Standing
    <3> HIDE DEF s
    <3> QED BY <1>1, <2>0, <3>1, <3>2, <3>3, <3>5, Moves
  <2> QED BY <1>2, <2>1, <2>2
<1>8. CASE Store(r)
  BY <1>2, <1>8 DEF Store, Fails, Replies
<1> QED BY <1>3, <1>4, <1>5, <1>6, <1>7, <1>8 DEF RequestStep

-----------------------------------------------------------------------------
(* A step of the directory's handlers, or an end of the process. *)

LEMMA DirectoryKeeps ==
  ASSUME SubInv, DirectoryChange
  PROVE  SubInv'
<1>0. DirInv /\ OneRow /\ DirNext /\ call' = call /\ Watch
  BY DEF SubInv, DirectoryChange, DirNext
<1>1. DirInv' /\ OneRow'
  BY <1>0, DirStepInv, OneRowStep
<1>2. \A r \in Request : send[r] \in Handler /\ Reach(r)
  BY DEF SubInv, SubTypeOK
<1>3. ASSUME NEW r \in Request
      PROVE  send'[r] = send[r] \/ send'[r] = [send[r] EXCEPT !.at = "done"]
  BY DEF DirectoryChange
<1>4. ASSUME NEW r \in Request
      PROVE  /\ Standing(r, domain', addresses', bound') = Now(r)'
             /\ Now(r)' \in {"registered", "open", "barred"}
  BY <1>0 DEF Now, Standing, Own
<1>5. \A r \in Request : seen'[r] = IF send'[r].at \in {"new", "done"} THEN {}
                                    ELSE seen[r] \union {Now(r)'}
  BY <1>0, <1>4 DEF Watch
<1>6. SubTypeOK'
  <2>1. send' \in [Request -> Handler]
    <3>1. send' = [r \in Request |-> send'[r]]
      BY DEF DirectoryChange, SubInv, SubTypeOK
    <3>2. \A r \in Request : send'[r] \in Handler
      BY <1>2, <1>3 DEF Handler
    <3> QED BY <3>1, <3>2
  <2>2. bound' \subseteq 1..issued'
    <3>1. bound \subseteq 1..issued /\ issued \in Nat /\ issued' \in Nat /\ issued <= issued'
      BY <1>0, Aging DEF SubInv, SubTypeOK
    <3>2. bound' = bound \/ (bound' = bound \union {issued + 1} /\ issued' = issued + 1)
      BY DEF DirectoryChange, NewId
    <3>3. 1..issued \subseteq 1..issued'
      BY <3>1
    <3>4. issued' = issued + 1 => issued + 1 \in 1..issued'
      BY <3>1
    <3> QED BY <3>1, <3>2, <3>3, <3>4
  <2>3. seen' \in [Request -> SUBSET {"registered", "open", "barred"}]
    <3>1. \A r \in Request : seen'[r] \in SUBSET {"registered", "open", "barred"}
      BY <1>4, <1>5 DEF SubInv, SubTypeOK
    <3> QED BY <1>0, <3>1 DEF Watch
  <2>4. ASSUME NEW r \in Request
        PROVE  /\ send'[r].at = "row" => send'[r].look # None
               /\ send'[r].at \in {"count", "store"} => send'[r].dom # None
    <3>1. CASE send'[r] = send[r]
      BY <3>1 DEF SubInv, SubTypeOK
    <3>2. CASE send'[r] = [send[r] EXCEPT !.at = "done"]
      BY <1>2, <3>2 DEF Handler
    <3> QED BY <1>3, <3>1, <3>2
  <2>5. DirTypeOK' /\ call' \in [Request -> Call]
    BY <1>0, <1>1 DEF DirInv, SubInv, SubTypeOK
  <2> QED BY <2>1, <2>2, <2>3, <2>4, <2>5 DEF SubTypeOK
<1>7. ASSUME NEW r \in Request PROVE Reach(r)'
  <2>1. /\ Reach(r) /\ send[r] \in Handler
        /\ Own(r)' = Own(r) /\ Own(r) \in Name
        /\ call[r].url \in Name /\ call'[r] = call[r]
    BY <1>0, <1>2, HelloNamesOwn DEF Own
  <2>2. CASE send'[r].at \in {"new", "done"}
    <3>1. send'[r].dom = send[r].dom /\ send'[r].look = send[r].look
      BY <1>3, <2>1 DEF Handler
    <3>2. send'[r].dom <= issued' /\ send'[r].look <= issued'
      BY <1>0, <2>1, <3>1, Aging DEF Reach, Handler
    <3> QED BY <2>2, <3>2 DEF Reach
  <2>3. CASE send'[r].at \notin {"new", "done"}
    <3>0. PICK s \in Handler : s = send[r]
      BY <2>1
    <3>1. send'[r] = s
      BY <1>3, <2>1, <2>3, <3>0 DEF Handler
    <3>2. seen'[r] = seen[r] \union {Now(r)'}
      BY <1>5, <2>3
    <3>3. /\ s.dom \in Nat /\ s.look \in Nat
          /\ s.dom <= issued /\ s.look <= issued
      BY <2>1, <3>0 DEF Handler, Reach
    <3>4. /\ s.dom <= issued' /\ s.look <= issued'
          /\ s.dom # None /\ Live(s.dom)' => Live(s.dom)
          /\ s.look # None /\ Live(s.look)' => Live(s.look)
          /\ Fits(call[r].url, s.dom) /\ s.dom # None => Fits(call[r].url, s.dom)'
      BY <1>0, <2>1, <3>3, FitsOn
    <3>5. s.at = "row" => Fits(Own(r), s.look) /\ s.look # None
      BY <2>1, <3>0 DEF Reach, SubInv, SubTypeOK
    <3>6. s.at = "row" => Fits(Own(r), s.look)'
      BY <1>0, <2>1, <3>3, <3>5, FitsOn
    <3>7. ASSUME s.at = "row", seen'[r] = {"registered"}
          PROVE  domain'[Own(r)] = s.look
      <4>1. Now(r) \in seen[r]
        BY <2>1, <3>0, <3>7 DEF Reach
      <4>2. seen[r] = {"registered"} /\ Now(r)' = "registered"
        BY <3>2, <3>7, <4>1
      <4>3. domain[Own(r)] = s.look
        BY <2>1, <3>0, <3>7, <4>2 DEF Reach
      <4>4. domain'[Own(r)] # None
        BY <2>1, <4>2 DEF Now, Standing
      <4> QED BY <1>0, <2>1, <3>5, <3>7, <4>3, <4>4, Aging
    <3>8. Now(r)' \in seen'[r]
      BY <3>2
    <3>9. /\ s.at = "count" => ~call[r].hello
          /\ s.at \in {"count", "name", "row"} /\ ~call[r].hello =>
               Fits(call[r].url, s.dom) /\ s.dom # None
          /\ Fold[Own(r)] = Fold[call[r].url]
      BY <2>1, <2>3, <3>0, <3>1 DEF Reach
    <3>10. s.at = "store" /\ AllLive(r)' => seen'[r] \intersect {"registered", "open"} # {}
      BY <2>1, <3>0, <3>1, <3>2, <3>4 DEF Reach, AllLive
    <3> QED BY <2>1, <3>1, <3>4, <3>6, <3>7, <3>8, <3>9, <3>10 DEF Reach
  <2> QED BY <2>2, <2>3
<1> QED BY <1>1, <1>6, <1>7 DEF SubInv

-----------------------------------------------------------------------------
(* The theorems. *)

LEMMA SubInductive == SubSpec => []SubInv
<1>1. SubInit => SubInv
  <2> SUFFICES ASSUME SubInit PROVE SubInv
    OBVIOUS
  <2>1. DirInv /\ OneRow /\ issued = 0
    BY DirInitInv DEF SubInit, OneRow, DirInit
  <2>2. \A r \in Request :
          send[r] = [at |-> "new", dom |-> None, look |-> None, reply |-> "none"]
    BY DEF SubInit
  <2>3. SubTypeOK
    BY <2>1, <2>2 DEF SubInit, SubTypeOK, DirInv, Handler, Replies, None
  <2>4. \A r \in Request : Reach(r)
    BY <2>1, <2>2 DEF Reach, None
  <2> QED BY <2>1, <2>3, <2>4 DEF SubInv
<1>2. SubInv /\ [SubNext]_subVars => SubInv'
  <2> SUFFICES ASSUME SubInv, [SubNext]_subVars PROVE SubInv'
    OBVIOUS
  <2>1. CASE UNCHANGED subVars
    <3>1. DirInv' /\ OneRow'
      BY <2>1, DirStepInv DEF SubInv, OneRow, subVars, dirVars
    <3>2. SubTypeOK'
      BY <2>1, <3>1 DEF SubInv, SubTypeOK, DirInv, subVars, sendVars, dirVars
    <3>3. \A r \in Request : Reach(r)'
      BY <2>1 DEF SubInv, Reach, Fits, AllLive, Live, Own, Now, Standing, subVars, sendVars, dirVars
    <3> QED BY <3>1, <3>2, <3>3 DEF SubInv
  <2> QED BY <2>1, DirectoryKeeps, RequestKeeps DEF SubNext
<1> QED BY <1>1, <1>2, PTL DEF SubSpec

\* Types: and that a handler which is to look for an address row holds the id of
\* a domain, and so does one that is to store.
THEOREM SubmissionTypes == SubSpec => []SubTypeOK
<1>1. SubInv => SubTypeOK
  BY DEF SubInv
<1> QED BY <1>1, SubInductive, PTL

\* Only one step answers a request, and this is the place it does it from.
LEMMA AnswersAt ==
  ASSUME SubInv, SubNext, NEW r \in Request, NEW code \in {"201", "403"}, Answers(r, code)
  PROVE  RequestStep(r)
<1>1. ASSUME DirectoryChange PROVE FALSE
  <2>1. send'[r].reply = send[r].reply
    BY <1>1 DEF DirectoryChange, SubInv, SubTypeOK, Handler
  <2> QED BY <2>1 DEF Answers
<1>2. PICK q \in Request : RequestStep(q)
  BY <1>1 DEF SubNext
<1>3. \E s : send' = [send EXCEPT ![q] = s]
  BY <1>2 DEF RequestStep, Authorize, VerifyHello, CountAddresses, FindDomain, FindRow, Store,
              Fails, Goto
<1>4. q # r => send'[r] = send[r]
  BY <1>3 DEF SubInv, SubTypeOK
<1> QED BY <1>2, <1>4 DEF Answers

\* What r is answered, and where: the four places that say 201 or 403.
LEMMA ReplyOf ==
  ASSUME SubInv, NEW r \in Request, RequestStep(r)
  PROVE  \/ send'[r].reply \in {send[r].reply, "400", "401", "404", "500"}
         \/ send'[r].reply = "201" /\ Store(r)
         \/ send'[r].reply = "403" /\ Authorize(r) /\ ~FromMatches(r)
         \/ send'[r].reply = "403" /\ FindDomain(r) /\ domain[Own(r)] = None
         \/ send'[r].reply = "403" /\ FindRow(r) /\ ~MaySend(r, RowId(send[r].look, call[r].from))
<1>1. \A s : Goto(r, s) => send'[r] = s
  BY DEF Goto, SubInv, SubTypeOK
<1>2. send[r] \in Handler
  BY DEF SubInv, SubTypeOK
<1>3. \A code : Goto(r, Answered(r, code)) => send'[r].reply = code
  BY <1>1, <1>2 DEF Answered, Handler
<1>4. \A at, d, k : /\ [send[r] EXCEPT !.at = at].reply = send[r].reply
                    /\ [send[r] EXCEPT !.at = at, !.dom = d].reply = send[r].reply
                    /\ [send[r] EXCEPT !.at = at, !.look = k].reply = send[r].reply
  BY <1>2 DEF Handler
<1>5. CASE Authorize(r)
  <2> DEFINE s == [send[r] EXCEPT !.at = "count", !.dom = domain[call[r].url]]
  <2>1. s.reply = send[r].reply
    BY <1>4
  <2>2. \/ Goto(r, s) \/ Fails(r)
        \/ \E code \in {"400", "401", "404"} : Goto(r, Answered(r, code))
        \/ ~FromMatches(r) /\ Goto(r, Answered(r, "403"))
    BY <1>5 DEF Authorize
  <2> HIDE DEF s
  <2> QED BY <1>1, <1>3, <1>5, <2>1, <2>2 DEF Fails
<1>6. CASE VerifyHello(r)
  BY <1>1, <1>3, <1>4, <1>6 DEF VerifyHello
<1>7. CASE CountAddresses(r)
  BY <1>1, <1>3, <1>4, <1>7 DEF CountAddresses, Fails
<1>8. CASE FindDomain(r)
  <2> DEFINE s == [send[r] EXCEPT !.at = "row", !.look = domain[Own(r)]]
  <2>1. s.reply = send[r].reply
    BY <1>4
  <2>2. \/ Goto(r, s) \/ Fails(r)
        \/ domain[Own(r)] = None /\ Goto(r, Answered(r, "403"))
    BY <1>8 DEF FindDomain
  <2> HIDE DEF s
  <2> QED BY <1>1, <1>3, <1>8, <2>1, <2>2 DEF Fails
<1>9. CASE FindRow(r)
  <2> DEFINE s == [send[r] EXCEPT !.at = "store",
                                  !.dom = IF call[r].hello THEN send[r].look ELSE @]
  <2>1. s.reply = send[r].reply
    BY <1>2 DEF Handler
  <2>2. \/ Goto(r, s) \/ Fails(r)
        \/ ~MaySend(r, RowId(send[r].look, call[r].from)) /\ Goto(r, Answered(r, "403"))
    BY <1>9 DEF FindRow
  <2> HIDE DEF s
  <2> QED BY <1>1, <1>3, <1>9, <2>1, <2>2 DEF Fails
<1>10. CASE Store(r)
  BY <1>3, <1>10 DEF Store, Fails
<1> QED BY <1>5, <1>6, <1>7, <1>8, <1>9, <1>10 DEF RequestStep

\* A message that is answered 201 was allowed at some moment of the request, if
\* its domain is still there, whatever came and went meanwhile.
THEOREM QueuedWasAllowedAlways == SubSpec => QueuedWasAllowed
<1>1. SubInv /\ [SubNext]_subVars =>
        [\A r \in Request :
           /\ Answers(r, "201")
           /\ \A d \in {send[r].dom, send[r].look} : d # None => Live(d)
           => seen[r] \intersect {"registered", "open"} # {}]_subVars
  <2> SUFFICES ASSUME SubInv, SubNext, NEW r \in Request, Answers(r, "201"), AllLive(r)
               PROVE  seen[r] \intersect {"registered", "open"} # {}
    BY DEF AllLive
  <2>1. RequestStep(r)
    BY AnswersAt
  <2>2. send[r].at = "store"
    BY <2>1, ReplyOf DEF Answers, Store
  <2>3. Reach(r)
    BY DEF SubInv
  <2> QED BY <2>2, <2>3 DEF Reach
<1> QED BY <1>1, SubInductive, PTL DEF SubSpec, QueuedWasAllowed

\* A sender that stays registered throughout its request, as it spells itself, is
\* not refused.
THEOREM RegisteredIsServedAlways == SubSpec => RegisteredIsServed
<1>1. SubInv /\ [SubNext]_subVars =>
        [\A r \in Request :
           Answers(r, "403") =>
             seen[r] \union {Standing(r, domain, addresses, bound)} # {"registered"}]_subVars
  <2> SUFFICES ASSUME SubInv, SubNext, NEW r \in Request, Answers(r, "403"),
                      seen[r] \union {Now(r)} = {"registered"}
               PROVE  FALSE
    BY DEF Now
  <2>0. send[r] \in Handler /\ send[r].reply = "none" /\ send'[r].reply = "403" /\ Reach(r)
    BY DEF SubInv, SubTypeOK, Answers
  <2>1. RequestStep(r)
    BY AnswersAt
  <2>2. \/ Authorize(r) /\ ~FromMatches(r)
        \/ FindDomain(r) /\ domain[Own(r)] = None
        \/ FindRow(r) /\ ~MaySend(r, RowId(send[r].look, call[r].from))
    BY <2>0, <2>1, ReplyOf
  <2>3. FindRow(r) => send[r].at = "row" /\ seen[r] = {"registered"}
    BY <2>0 DEF FindRow, Reach
  <2>4. Now(r) = "registered"
    OBVIOUS
  <2>5. CASE domain[Own(r)] = None
    BY <2>4, <2>5 DEF Now, Standing
  <2>6. CASE FindRow(r) /\ ~MaySend(r, RowId(send[r].look, call[r].from))
    <3>1. domain[Own(r)] = send[r].look
      BY <2>0, <2>6 DEF FindRow, Reach
    <3>2. PICK a \in addresses : /\ a.dom = send[r].look /\ a.box = call[r].from
                                 /\ call[r].hello => a.id \in bound
      <4> DEFINE mine == {a \in addresses : a.dom = domain[Own(r)] /\ a.box = call[r].from}
      <4>1. \E a \in mine : call[r].hello => a.id \in bound
        BY <2>4 DEF Now, Standing
      <4> QED BY <3>1, <4>1
    <3>3. RowsOf(send[r].look, call[r].from) = {a}
      BY <3>2 DEF RowsOf, SubInv, OneRow
    <3>4. RowId(send[r].look, call[r].from) = a.id
      BY <3>3 DEF RowId
    <3>5. a.id # None
      BY DEF SubInv, DirInv, DirTypeOK, Address
    <3>6. MaySend(r, a.id)
      BY <3>2, <3>5 DEF MaySend
    <3> QED BY <2>6, <3>4, <3>6
  <2>7. CASE Authorize(r) /\ ~FromMatches(r)
    BY <2>4, <2>7 DEF Now, Standing, FromMatches
  <2> QED BY <2>2, <2>5, <2>6, <2>7
<1> QED BY <1>1, SubInductive, PTL DEF SubSpec, RegisteredIsServed

-----------------------------------------------------------------------------
(* The directory under the requests. *)

LEMMA SubNextDirNext == [SubNext]_subVars => [DirNext]_dirVars
<1> SUFFICES ASSUME SubNext PROVE DirNext \/ UNCHANGED dirVars
  BY DEF subVars
<1>1. CASE DirectoryChange
  BY <1>1 DEF DirectoryChange, DirNext
<1>2. CASE \E r \in Request : RequestStep(r)
  BY <1>2 DEF RequestStep, Authorize, VerifyHello, CountAddresses, FindDomain, FindRow, Store
<1> QED
  BY <1>1, <1>2 DEF SubNext

\* Requests read the directory and leave it to its handlers, so what holds of
\* Directory holds under them.
THEOREM SubmissionUsesDirectory == SubSpec => DirSpec
<1>1. SubInit => DirInit
  BY DEF SubInit
<1> QED
  BY <1>1, SubNextDirNext, PTL DEF SubSpec, DirSpec

\* A domain that is created again lets nobody send by the addresses of the one
\* that was deleted, whatever requests are under way: it has none of them.
THEOREM SubmissionStartsEmpty == SubSpec => StartsEmpty
  BY SubmissionUsesDirectory, NewDomainsStartEmpty, PTL

\* The row that ValidateAddress finds is in the domain its mailbox names.
THEOREM SubmissionOwnDomain == SubSpec => []OwnDomain
  BY SubmissionUsesDirectory, AddressesKeepTheirDomain, PTL
=============================================================================
