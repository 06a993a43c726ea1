----------------------------- MODULE StoredProofs -----------------------------
(***************************************************************************)
(* AcceptedIsStored, FirstRecipientAddressed and AcceptedWasAcceptable,    *)
(* for any mail, recipients and changes of the directory.                  *)
(*                                                                         *)
(* The argument is about what cannot be undone.  Once a domain id is gone  *)
(* it stays gone; an id belongs to the mailboxes of one name as long as it *)
(* lives; a domain that has a mail keeps it.  So what Data has done for    *)
(* the recipients behind pos stays done, while the directory changes, and  *)
(* StoredOK, which says what that is, is monotone in the three sets below. *)
(***************************************************************************)
EXTENDS InboundProofs

\* Domain ids that are gone for good.
Gone == {d \in 1..issued : ~Live(d)}

\* Domains that have mail m, or need it no more.
Served(m) == {d \in 1..issued : Live(d) => \E x \in stored : x.mail = m /\ x.dom = d}

\* Ids and mailboxes whose name is the only one the id can have.
Home == {p \in (1..issued) \X Box : \A n \in Name : domain[n] = p[1] => n = NameOf[p[2]]}

LoopSteps == {"store", "storeaddr", "insert"}

\* Current, of a session s of m.
BoxAt(m, s) == IF s.at \in RcptSteps THEN RcptsOf[m][s.pos] ELSE s.to[s.pos].box

\* What session s of m has to show for the sets S, G and H above.
StoredOK(m, s, S, G, H) ==
  /\ s.at \in {"new"} \union RcptSteps => s.seen = {}
  /\ s.at \in LoopSteps => m \in Parseable
  /\ s.at \in {"raw", "rawinsert"} => m \notin Parseable /\ s.pos = 1
  /\ \A k \in DOMAIN s.to : <<s.to[k].dom, s.to[k].box>> \in H
  /\ s.at \in Looked => <<s.look.dom, BoxAt(m, s)>> \in H
  /\ s.at \in {"storeaddr", "insert", "rawinsert"} =>
       s.look.dom = s.to[s.pos].dom \/ s.to[s.pos].dom \in G
  /\ s.at \in LoopSteps => \A k \in 1..(s.pos - 1) : s.to[k].dom \in S
  /\ \A d \in s.seen : d \in S \/ (s.at = "insert" /\ d = s.look.dom)
  /\ s.reply = "250" =>
       \A k \in IF m \in Parseable THEN DOMAIN s.to ELSE {1} : s.to[k].dom \in S

AllOK == \A m \in Mail : StoredOK(m, session[m], Served(m), Gone, Home)

StoredInv == faults = 0 => AllOK

-----------------------------------------------------------------------------
(* What cannot be undone. *)

LEMMA DomainSteps ==
  ASSUME DirInv, [DirNext]_dirVars
  PROVE  /\ issued \in Nat /\ issued' \in Nat /\ issued <= issued'
         /\ \A n \in Name : domain'[n] \in {domain[n], 0, issued + 1}
<1>1. issued \in Nat /\ domain \in [Name -> Nat]
  BY DEF DirInv, DirTypeOK
<1> QED
  BY <1>1 DEF DirNext, DirHandler, DirRestart, CreateDomain, DeleteDomain, StartAddress,
              InsertAddress, DeleteAddress, NewId, None, dirVars

LEMMA Grow ==
  ASSUME DirInv, [DirNext]_dirVars, stored \subseteq stored'
  PROVE  /\ Gone \subseteq Gone'
         /\ Home \subseteq Home'
         /\ \A m \in Mail : Served(m) \subseteq Served(m)'
<1>1. /\ issued \in Nat /\ issued' \in Nat /\ issued <= issued'
      /\ \A n \in Name : domain'[n] \in {domain[n], 0, issued + 1}
  BY DomainSteps
<1>2. ASSUME NEW d \in 1..issued, NEW n \in Name, domain'[n] = d PROVE domain[n] = d
  BY <1>1, <1>2
<1>3. 1..issued \subseteq 1..issued'
  BY <1>1
<1>4. ASSUME NEW d \in 1..issued, Live(d)' PROVE Live(d)
  BY <1>2, <1>4 DEF Live
<1>5. Gone \subseteq Gone'
  BY <1>3, <1>4 DEF Gone
<1>6. Home \subseteq Home'
  <2> SUFFICES ASSUME NEW p \in Home PROVE p \in Home'
    OBVIOUS
  <2>1. /\ p \in (1..issued) \X Box /\ p[1] \in 1..issued
        /\ \A n \in Name : domain[n] = p[1] => n = NameOf[p[2]]
    BY DEF Home
  <2>2. p \in (1..issued') \X Box
    BY <2>1, <1>3
  <2>3. \A n \in Name : domain'[n] = p[1] => n = NameOf[p[2]]
    BY <2>1, <1>2
  <2> QED
    BY <2>2, <2>3 DEF Home
<1>7. ASSUME NEW m \in Mail PROVE Served(m) \subseteq Served(m)'
  BY <1>3, <1>4 DEF Served
<1> QED
  BY <1>5, <1>6, <1>7

LEMMA StoredOKGrows ==
  ASSUME NEW m, NEW s, NEW S, NEW G, NEW H, NEW S2, NEW G2, NEW H2,
         S \subseteq S2, G \subseteq G2, H \subseteq H2, StoredOK(m, s, S, G, H)
  PROVE  StoredOK(m, s, S2, G2, H2)
BY DEF StoredOK

\* The domain row that a look-up of mailbox b finds, against the one that was
\* found when b was accepted.
LEMMA LookupHome ==
  ASSUME DirInv, NEW b \in Box
  PROVE  /\ domain[NameOf[b]] # None => <<domain[NameOf[b]], b>> \in Home
         /\ \A d : <<d, b>> \in Home /\ d # domain[NameOf[b]] => d \in Gone
<1>1. /\ NameOf[b] \in Name /\ issued \in Nat
      /\ \A n \in Name : domain[n] \in Nat
  BY DirectoryAssumption DEF DirInv, DirTypeOK
<1>2. ASSUME domain[NameOf[b]] # None PROVE <<domain[NameOf[b]], b>> \in Home
  <2> DEFINE d == domain[NameOf[b]]
  <2>1. d \in 1..issued
    BY <1>1, <1>2 DEF DirInv, IdInv, None
  <2>2. \A n \in Name : domain[n] = d => n = NameOf[b]
    BY <1>1, <1>2 DEF DirInv, IdInv
  <2> HIDE DEF d
  <2>3. <<d, b>> \in Home
    BY <2>1, <2>2 DEF Home
  <2> QED
    BY <2>3 DEF d
<1>3. ASSUME NEW d, <<d, b>> \in Home, d # domain[NameOf[b]] PROVE d \in Gone
  <2>1. d \in 1..issued /\ \A n \in Name : domain[n] = d => n = NameOf[b]
    BY <1>3 DEF Home
  <2> QED
    BY <1>3, <2>1 DEF Gone, Live
<1> QED
  BY <1>2, <1>3

-----------------------------------------------------------------------------
(* How a session moves on. *)

LEMMA RcptAnsweredStored ==
  ASSUME NEW m \in Mail, NEW S, NEW G, NEW H,
         session[m] \in Session, PointOK(m, session[m]), session[m].at \in RcptSteps,
         StoredOK(m, session[m], S, G, H), NEW to \in Seq(Recipient),
         \A k \in DOMAIN to : <<to[k].dom, to[k].box>> \in H
  PROVE  StoredOK(m, RcptAnswered(m, to), S, G, H)
<1> DEFINE s == session[m]
           r == RcptAnswered(m, to)
<1>1. s.seen = {} /\ s.reply = "none" /\ s.to \in Seq(Recipient)
  BY DEF StoredOK, PointOK, Session
<1>2. \A k \in DOMAIN s.to : <<s.to[k].dom, s.to[k].box>> \in H
  BY DEF StoredOK
<1>3. /\ r.seen = {}
      /\ r.to = to \/ r.to = s.to
      /\ r.reply # "250"
      /\ \/ r.at \in {"rcpt", "done"}
         \/ r.at = "store" /\ m \in Parseable /\ r.pos = 1
         \/ r.at = "raw" /\ m \notin Parseable /\ r.pos = 1
  BY <1>1 DEF RcptAnswered, Session
<1> HIDE DEF r
<1>4. \A k \in DOMAIN r.to : <<r.to[k].dom, r.to[k].box>> \in H
  BY <1>2, <1>3
<1>5. r.at \notin Looked
  BY <1>3 DEF Looked
<1>6. r.at \in LoopSteps => m \in Parseable /\ 1..(r.pos - 1) = {}
  BY <1>3 DEF LoopSteps
<1>7. r.at \in {"raw", "rawinsert"} => m \notin Parseable /\ r.pos = 1
  BY <1>3
<1>8. StoredOK(m, r, S, G, H)
  BY <1>3, <1>4, <1>5, <1>6, <1>7 DEF StoredOK, Looked
<1> QED
  BY <1>8 DEF r

\* Data is done with the recipient at pos.
LEMMA NextTurnStored ==
  ASSUME NEW m \in Mail, NEW S, NEW G, NEW H,
         session[m] \in Session, PointOK(m, session[m]), session[m].at \in LoopSteps,
         StoredOK(m, session[m], S, G, H) \/ session[m].at = "insert",
         m \in Parseable,
         \A k \in DOMAIN session[m].to : <<session[m].to[k].dom, session[m].to[k].box>> \in H,
         \A k \in 1..session[m].pos : session[m].to[k].dom \in S,
         session[m].seen \subseteq S
  PROVE  StoredOK(m, NextTurn(m), S, G, H)
<1> DEFINE s == session[m]
           r == NextTurn(m)
<1>1. /\ s.pos \in Nat \ {0} /\ s.to \in Seq(Recipient) /\ s.reply = "none"
      /\ DOMAIN s.to = 1..Len(s.to) /\ Len(s.to) \in Nat
  BY DEF PointOK, Session, LoopSteps, StoreSteps
<1>2. /\ r.seen = s.seen
      /\ r.to = s.to
      /\ \/ r.at = "store" /\ r.pos = s.pos + 1 /\ r.reply = "none"
         \/ r.at = "reply" /\ r.reply = "250" /\ s.pos = Len(s.to)
  BY <1>1 DEF NextTurn, Answer, Session
<1> HIDE DEF r
<1>3. ASSUME r.at = "store" PROVE StoredOK(m, r, S, G, H)
  <2>1. \A k \in 1..(r.pos - 1) : r.to[k].dom \in S
    BY <1>1, <1>2, <1>3
  <2>2. r.at \notin RcptSteps /\ r.at \notin Looked
    BY <1>3 DEF RcptSteps, Looked
  <2> QED
    BY <1>1, <1>2, <1>3, <2>1, <2>2 DEF StoredOK
<1>4. ASSUME r.at = "reply" PROVE StoredOK(m, r, S, G, H)
  <2>1. r.at \notin RcptSteps /\ r.at \notin Looked /\ r.at \notin LoopSteps
    BY <1>4 DEF RcptSteps, Looked, LoopSteps
  <2>2. \A k \in DOMAIN r.to : r.to[k].dom \in S
    BY <1>1, <1>2, <1>4
  <2> QED
    BY <1>2, <1>4, <2>1, <2>2 DEF StoredOK
<1>5. StoredOK(m, r, S, G, H)
  BY <1>2, <1>3, <1>4
<1> QED
  BY <1>5 DEF r

\* A domain that is gone is served.
LEMMA GoneIsServed == \A m \in Mail : Gone \subseteq Served(m)
BY DEF Gone, Served

\* The lookup found nothing, or, in Data, nothing that was there before.
LEMMA UnhandledStored ==
  ASSUME NEW m \in Mail, NEW S, NEW G, NEW H, G \subseteq S,
         session[m] \in Session, PointOK(m, session[m]),
         session[m].at \in RcptSteps \union {"store", "raw"},
         StoredOK(m, session[m], S, G, H),
         session[m].at \in {"store", "raw"} => session[m].to[session[m].pos].dom \in G
  PROVE  StoredOK(m, Unhandled(m), S, G, H)
<1> DEFINE s == session[m]
<1>1. s.to \in Seq(Recipient) /\ s.pos \in Nat \ {0}
  BY DEF Session
<1>2. CASE s.at \in RcptSteps
  <2>1. Unhandled(m) = RcptAnswered(m, s.to)
    BY <1>2 DEF Unhandled, RcptSteps
  <2>2. \A k \in DOMAIN s.to : <<s.to[k].dom, s.to[k].box>> \in H
    BY DEF StoredOK
  <2> QED
    BY <1>1, <1>2, <2>1, <2>2, RcptAnsweredStored
<1>3. CASE s.at = "store"
  <2>1. Unhandled(m) = NextTurn(m)
    BY <1>3 DEF Unhandled, RcptSteps
  <2>2. /\ m \in Parseable
        /\ \A k \in DOMAIN s.to : <<s.to[k].dom, s.to[k].box>> \in H
        /\ \A k \in 1..(s.pos - 1) : s.to[k].dom \in S
        /\ s.to[s.pos].dom \in S
        /\ s.seen \subseteq S
    BY <1>3 DEF StoredOK, LoopSteps
  <2>3. \A k \in 1..s.pos : s.to[k].dom \in S
    <3>1. ASSUME NEW k \in 1..s.pos PROVE k = s.pos \/ k \in 1..(s.pos - 1)
      BY <1>1
    <3> QED
      BY <2>2, <3>1
  <2>4. s.at \in LoopSteps
    BY <1>3 DEF LoopSteps
  <2> QED
    BY <2>1, <2>2, <2>3, <2>4, NextTurnStored
<1>4. CASE s.at = "raw"
  <2> DEFINE r == Answer(m, "250")
  <2>1. Unhandled(m) = r
    BY <1>4 DEF Unhandled, RcptSteps
  <2>2. r.at = "reply" /\ r.to = s.to /\ r.seen = s.seen
    BY DEF Answer, Session
  <2>3. m \notin Parseable /\ s.pos = 1 /\ s.to[1].dom \in S
    BY <1>4 DEF StoredOK
  <2> HIDE DEF r
  <2>4. StoredOK(m, r, S, G, H)
    BY <1>4, <2>2, <2>3 DEF StoredOK, RcptSteps, LoopSteps, Looked
  <2> QED
    BY <2>1, <2>4
<1> QED
  BY <1>2, <1>3, <1>4

-----------------------------------------------------------------------------
(* The steps, without failing statements. *)

LEMMA OthersOK ==
  ASSUME SessionInv, [Next]_vars, AllOK, stored \subseteq stored',
         session' \in [Mail -> Session],
         \A m \in Mail : \/ session'[m] = session[m]
                         \/ StoredOK(m, session'[m], Served(m)', Gone', Home')
  PROVE  AllOK'
<1>1. /\ Gone \subseteq Gone'
      /\ Home \subseteq Home'
      /\ \A m \in Mail : Served(m) \subseteq Served(m)'
  BY Grow, NextDirNext DEF SessionInv, TypeOK, DirInv
<1>2. ASSUME NEW m \in Mail, session'[m] = session[m]
      PROVE  StoredOK(m, session'[m], Served(m)', Gone', Home')
  <2>1. StoredOK(m, session[m], Served(m), Gone, Home)
    BY DEF AllOK
  <2> QED
    BY <1>1, <1>2, <2>1, StoredOKGrows
<1> QED
  BY <1>2 DEF AllOK

\* A session goes to r, which nothing has to be stored for.
LEMMA GoesOK ==
  ASSUME SessionInv, [Next]_vars, AllOK, stored' = stored, NEW m \in Mail, NEW r, Goto(m, r),
         StoredOK(m, r, Served(m), Gone, Home)
  PROVE  AllOK'
<1>1. /\ Gone \subseteq Gone'
      /\ Home \subseteq Home'
      /\ Served(m) \subseteq Served(m)'
  BY Grow, NextDirNext DEF SessionInv, TypeOK, DirInv
<1>2. StoredOK(m, r, Served(m)', Gone', Home')
  BY <1>1, StoredOKGrows
<1>3. session \in [Mail -> Session] /\ session' = [session EXCEPT ![m] = r]
  BY DEF SessionInv, TypeOK, Goto
<1>4. session' \in [Mail -> Session]
  BY StepSessionInv DEF SessionInv, TypeOK
<1>5. \A k \in Mail : \/ session'[k] = session[k]
                      \/ StoredOK(k, session'[k], Served(k)', Gone', Home')
  BY <1>2, <1>3
<1> QED
  BY <1>4, <1>5, OthersOK

LEMMA SessionFacts ==
  ASSUME SessionInv, AllOK, NEW m \in Mail
  PROVE  /\ session[m] \in Session
         /\ PointOK(m, session[m])
         /\ StoredOK(m, session[m], Served(m), Gone, Home)
         /\ Gone \subseteq Served(m)
         /\ session[m].pos \in Nat \ {0}
         /\ session[m].to \in Seq(Recipient)
         /\ \A p \in Home : p[1] \in 1..issued /\ p[1] # None
         /\ Current(m) = BoxAt(m, session[m])
<1>1. /\ session[m] \in Session /\ PointOK(m, session[m])
      /\ StoredOK(m, session[m], Served(m), Gone, Home)
      /\ Gone \subseteq Served(m)
  BY GoneIsServed DEF SessionInv, TypeOK, PointInv, AllOK
<1>2. session[m].pos \in Nat \ {0} /\ session[m].to \in Seq(Recipient)
  BY <1>1 DEF Session
<1>3. issued \in Nat
  BY DEF SessionInv, TypeOK, DirTypeOK
<1>4. \A p \in Home : p[1] \in 1..issued /\ p[1] # None
  BY <1>3 DEF Home, None
<1>5. Current(m) = BoxAt(m, session[m])
  BY DEF Current, BoxAt
<1> QED
  BY <1>1, <1>2, <1>4, <1>5

LEMMA LookupDomainOK ==
  ASSUME SessionInv, [Next]_vars, AllOK, faults' = faults, NEW m \in Mail, LookupDomain(m)
  PROVE  AllOK'
<1> DEFINE s == session[m]
           b == Current(m)
           d == domain[NameOf[b]]
           p == [rcpt |-> "rcptaddr", store |-> "storeaddr", raw |-> "rawinsert"][s.at]
           t == s.to[s.pos]
<1>1. /\ s \in Session /\ PointOK(m, s)
      /\ StoredOK(m, s, Served(m), Gone, Home) /\ Gone \subseteq Served(m)
      /\ \A q \in Home : q[1] \in 1..issued /\ q[1] # None
      /\ b = BoxAt(m, s)
      /\ s.pos \in Nat \ {0} /\ s.to \in Seq(Recipient)
  BY SessionFacts
<1>2. s.at \in {"rcpt", "store", "raw"} /\ stored' = stored
  BY DEF LookupDomain
<1>3. b \in Box /\ DirInv
  BY <1>1, <1>2, BoxOfCurrent DEF RcptSteps, StoreSteps, SessionInv, TypeOK, DirInv
<1>4. /\ d # None => <<d, b>> \in Home
      /\ \A c : <<c, b>> \in Home /\ c # d => c \in Gone
  BY <1>3, LookupHome
<1>5. ASSUME s.at \in {"store", "raw"} PROVE <<t.dom, b>> \in Home
  <2>1. s.pos \in DOMAIN s.to
    BY <1>1, <1>5 DEF PointOK, StoreSteps
  <2>2. b = t.box
    BY <1>1, <1>5 DEF BoxAt, RcptSteps
  <2> QED
    BY <1>1, <2>1, <2>2 DEF StoredOK
<1>6. CASE d = None /\ Goto(m, Unhandled(m))
  <2>1. s.at \in {"store", "raw"} => t.dom \in Gone
    <3>1. ASSUME s.at \in {"store", "raw"} PROVE t.dom # None
      <4>1. <<t.dom, b>>[1] # None
        BY <1>1, <1>5, <3>1
      <4> QED
        BY <4>1
    <3> QED
      BY <1>4, <1>5, <1>6, <3>1
  <2>2. s.at \in RcptSteps \union {"store", "raw"}
    BY <1>2 DEF RcptSteps
  <2>3. StoredOK(m, Unhandled(m), Served(m), Gone, Home)
    BY <1>1, <2>1, <2>2, UnhandledStored
  <2> QED
    BY <1>2, <1>6, <2>3, GoesOK
<1>7. CASE /\ d # None
           /\ Goto(m, [s EXCEPT !.at = p, !.look = [dom |-> d, addr |-> None]])
  <2> DEFINE r == [s EXCEPT !.at = p, !.look = [dom |-> d, addr |-> None]]
  <2>1. /\ r.at = p /\ r.pos = s.pos /\ r.to = s.to /\ r.seen = s.seen
        /\ r.reply = s.reply /\ r.look.dom = d
    BY <1>1 DEF Session
  <2>2. /\ s.at = "rcpt" => p = "rcptaddr"
        /\ s.at = "store" => p = "storeaddr"
        /\ s.at = "raw" => p = "rawinsert"
    OBVIOUS
  <2>3. s.reply = "none"
    BY <1>1, <1>2 DEF PointOK, RcptSteps, StoreSteps
  <2>4. s.at \in {"store", "raw"} => t.dom = d \/ t.dom \in Gone
    BY <1>4, <1>5
  <2>5. s.at # "insert"
    BY <1>2
  <2> HIDE DEF r, p, d, b
  <2>6. BoxAt(m, r) = b
    BY <1>1, <1>2, <2>1, <2>2 DEF BoxAt, RcptSteps
  <2>7. StoredOK(m, r, Served(m), Gone, Home)
    BY <1>1, <1>2, <1>4, <1>7, <2>1, <2>2, <2>3, <2>4, <2>6
       DEF StoredOK, RcptSteps, LoopSteps, Looked
  <2>8. Goto(m, r)
    BY <1>7 DEF r
  <2> QED
    BY <1>2, <2>7, <2>8, GoesOK
<1>8. faults \in Nat
  BY InboundAssumption DEF SessionInv, TypeOK
<1> QED
  BY <1>6, <1>7, <1>8 DEF LookupDomain, Handled, SQLErrors

\* Data's look-up agrees with what Rcpt saw, or the domain is gone.
LEMMA TurnServed ==
  ASSUME NEW m \in Mail, NEW S, NEW G, NEW H, NEW s, G \subseteq S, StoredOK(m, s, S, G, H),
         s.at \in {"storeaddr", "insert"}, s.pos \in Nat \ {0}, s.look.dom \in S
  PROVE  /\ \A k \in 1..s.pos : s.to[k].dom \in S
         /\ s.seen \subseteq S
         /\ m \in Parseable
         /\ \A k \in DOMAIN s.to : <<s.to[k].dom, s.to[k].box>> \in H
<1>1. s.to[s.pos].dom \in S
  BY DEF StoredOK
<1>2. \A k \in 1..(s.pos - 1) : s.to[k].dom \in S
  BY DEF StoredOK, LoopSteps
<1>3. ASSUME NEW k \in 1..s.pos PROVE k = s.pos \/ k \in 1..(s.pos - 1)
  OBVIOUS
<1>4. \A k \in 1..s.pos : s.to[k].dom \in S
  BY <1>1, <1>2, <1>3
<1> QED
  BY <1>4 DEF StoredOK, LoopSteps

LEMMA LookupAddressOK ==
  ASSUME SessionInv, [Next]_vars, AllOK, faults' = faults, NEW m \in Mail, LookupAddress(m)
  PROVE  AllOK'
<1> DEFINE s == session[m]
           d == s.look.dom
           look == [s.look EXCEPT !.addr = RowId(d, Current(m))]
<1>1. /\ s \in Session /\ PointOK(m, s)
      /\ StoredOK(m, s, Served(m), Gone, Home) /\ Gone \subseteq Served(m)
      /\ s.pos \in Nat \ {0} /\ s.to \in Seq(Recipient)
  BY SessionFacts
<1>2. s.at \in {"rcptaddr", "storeaddr"} /\ stored' = stored
  BY DEF LookupAddress
<1>3. s.reply = "none"
  BY <1>1, <1>2 DEF PointOK, RcptSteps, StoreSteps
<1>4. look.dom = d
  BY <1>1 DEF Session
<1>5. CASE s.at = "storeaddr" /\ d \in s.seen /\ Goto(m, NextTurn(m))
  <2>1. s.look.dom \in Served(m) /\ s.at \in {"storeaddr", "insert"}
    BY <1>1, <1>5 DEF StoredOK
  <2>2. /\ \A k \in 1..s.pos : s.to[k].dom \in Served(m)
        /\ s.seen \subseteq Served(m)
        /\ m \in Parseable
        /\ \A k \in DOMAIN s.to : <<s.to[k].dom, s.to[k].box>> \in Home
    <3> HIDE DEF s
    <3> QED
      BY <1>1, <2>1, TurnServed
  <2>3. s.at \in LoopSteps
    BY <1>5 DEF LoopSteps
  <2>4. StoredOK(m, NextTurn(m), Served(m), Gone, Home)
    BY <1>1, <2>2, <2>3, NextTurnStored
  <2> QED
    BY <1>2, <1>5, <2>4, GoesOK
<1>6. CASE s.at = "rcptaddr" /\ Goto(m, [s EXCEPT !.at = "check", !.look = look])
  <2> DEFINE r == [s EXCEPT !.at = "check", !.look = look]
  <2>1. /\ r.at = "check" /\ r.pos = s.pos /\ r.to = s.to /\ r.seen = s.seen
        /\ r.reply = s.reply /\ r.look.dom = d
    BY <1>1, <1>4 DEF Session
  <2> HIDE DEF r
  <2>2. BoxAt(m, r) = BoxAt(m, s)
    BY <1>6, <2>1 DEF BoxAt, RcptSteps
  <2>3. StoredOK(m, r, Served(m), Gone, Home)
    BY <1>1, <1>3, <1>6, <2>1, <2>2 DEF StoredOK, RcptSteps, LoopSteps, Looked
  <2>4. Goto(m, r)
    BY <1>6 DEF r
  <2> QED
    BY <1>2, <2>3, <2>4, GoesOK
<1>7. CASE /\ s.at = "storeaddr"
           /\ Goto(m, [s EXCEPT !.at = "insert", !.look = look, !.seen = @ \union {d}])
  <2> DEFINE r == [s EXCEPT !.at = "insert", !.look = look, !.seen = @ \union {d}]
  <2>1. /\ r.at = "insert" /\ r.pos = s.pos /\ r.to = s.to /\ r.seen = s.seen \union {d}
        /\ r.reply = s.reply /\ r.look.dom = d
    BY <1>1, <1>4 DEF Session
  <2> HIDE DEF r
  <2>2. BoxAt(m, r) = BoxAt(m, s)
    BY <1>7, <2>1 DEF BoxAt, RcptSteps
  <2>3. StoredOK(m, r, Served(m), Gone, Home)
    BY <1>1, <1>3, <1>7, <2>1, <2>2 DEF StoredOK, RcptSteps, LoopSteps, Looked
  <2>4. Goto(m, r)
    BY <1>7 DEF r
  <2> QED
    BY <1>2, <2>3, <2>4, GoesOK
<1>8. faults \in Nat
  BY InboundAssumption DEF SessionInv, TypeOK
<1> QED
  BY <1>5, <1>6, <1>7, <1>8 DEF LookupAddress, Seen, SQLErrors

LEMMA CheckOK ==
  ASSUME SessionInv, [Next]_vars, AllOK, NEW m \in Mail, Check(m)
  PROVE  AllOK'
<1> DEFINE s == session[m]
           rcpt == [box |-> Current(m), dom |-> s.look.dom, addr |-> s.look.addr]
<1>1. /\ s \in Session /\ PointOK(m, s)
      /\ StoredOK(m, s, Served(m), Gone, Home)
      /\ s.to \in Seq(Recipient) /\ Current(m) = BoxAt(m, s)
  BY SessionFacts
<1>2. s.at = "check" /\ s.at \in RcptSteps /\ stored' = stored
  BY DEF Check, RcptSteps
<1>3. rcpt \in Recipient
  BY <1>1, <1>2, BoxOfCurrent DEF PointOK, Looked, Session, Recipient
<1>4. <<rcpt.dom, rcpt.box>> \in Home
  BY <1>1, <1>2 DEF StoredOK, Looked
<1>5. PICK to \in {s.to, Append(s.to, rcpt)} : Goto(m, RcptAnswered(m, to))
  BY DEF Check
<1> HIDE DEF rcpt
<1>6. to \in Seq(Recipient)
  <2>1. Append(s.to, rcpt) \in Seq(Recipient)
    BY <1>1, <1>3
  <2> QED
    BY <1>1, <1>5, <2>1
<1>7. \A k \in DOMAIN s.to : <<s.to[k].dom, s.to[k].box>> \in Home
  BY <1>1 DEF StoredOK
<1>8. ASSUME NEW k \in DOMAIN to PROVE <<to[k].dom, to[k].box>> \in Home
  <2>1. CASE to = s.to
    BY <1>7, <1>8, <2>1
  <2>2. CASE to = Append(s.to, rcpt)
    <3>1. k \in 1..(Len(s.to) + 1)
      BY <1>1, <1>3, <1>8, <2>2
    <3>2. to[k] = IF k \in DOMAIN s.to THEN s.to[k] ELSE rcpt
      BY <1>1, <1>3, <2>2, <3>1
    <3> QED
      BY <1>4, <1>7, <3>2
  <2> QED
    BY <1>5, <2>1, <2>2
<1>9. StoredOK(m, RcptAnswered(m, to), Served(m), Gone, Home)
  BY <1>1, <1>2, <1>6, <1>8, RcptAnsweredStored
<1> QED
  BY <1>2, <1>5, <1>9, GoesOK

\* A session stores its row and goes to r.
LEMMA StoresOK ==
  ASSUME SessionInv, [Next]_vars, AllOK, NEW m \in Mail, NEW r, Goto(m, r),
         StoreInbound(m), StoredOK(m, r, Served(m)', Gone', Home')
  PROVE  AllOK'
<1>1. session \in [Mail -> Session] /\ session' = [session EXCEPT ![m] = r]
  BY DEF SessionInv, TypeOK, Goto
<1>2. session' \in [Mail -> Session]
  BY StepSessionInv DEF SessionInv, TypeOK
<1>3. stored \subseteq stored'
  BY DEF StoreInbound
<1>4. \A k \in Mail : \/ session'[k] = session[k]
                      \/ StoredOK(k, session'[k], Served(k)', Gone', Home')
  BY <1>1
<1> QED
  BY <1>2, <1>3, <1>4, OthersOK

\* Once the row is stored the domain that was looked up is served.
LEMMA StoredIsServed ==
  ASSUME SessionInv, [Next]_vars, AllOK, NEW m \in Mail, StoreInbound(m),
         session[m].at \in {"insert", "rawinsert"}
  PROVE  /\ session[m].look.dom \in Served(m)'
         /\ Served(m) \subseteq Served(m)'
         /\ Gone' \subseteq Served(m)'
         /\ StoredOK(m, session[m], Served(m)', Gone', Home')
<1> DEFINE s == session[m]
           d == s.look.dom
<1>1. /\ StoredOK(m, s, Served(m), Gone, Home)
      /\ \A p \in Home : p[1] \in 1..issued /\ p[1] # None
  BY SessionFacts
<1>2. d \in 1..issued
  <2>1. <<d, BoxAt(m, s)>> \in Home
    BY <1>1 DEF StoredOK, Looked
  <2>2. <<d, BoxAt(m, s)>>[1] \in 1..issued
    BY <1>1, <2>1
  <2> QED
    BY <2>2
<1>3. /\ stored \subseteq stored'
      /\ \E x \in stored' : x.mail = m /\ x.dom = d
  <2> DEFINE row == [mail |-> m, try |-> s.try, box |-> Current(m), dom |-> d,
                     addr |-> AddressOf(m)]
  <2>1. stored' = stored \union {row}
    BY DEF StoreInbound
  <2>2. row.mail = m /\ row.dom = d
    OBVIOUS
  <2> HIDE DEF row
  <2> QED
    BY <2>1, <2>2
<1>4. /\ Gone \subseteq Gone' /\ Home \subseteq Home' /\ Served(m) \subseteq Served(m)'
  BY <1>3, Grow, NextDirNext DEF SessionInv, TypeOK, DirInv
<1>5. d \in 1..issued'
  <2>1. issued \in Nat /\ issued' \in Nat /\ issued <= issued'
    BY DomainSteps, NextDirNext DEF SessionInv, TypeOK, DirInv
  <2> QED
    BY <1>2, <2>1
<1>6. d \in Served(m)'
  BY <1>3, <1>5 DEF Served
<1>7. Gone' \subseteq Served(m)'
  BY DEF Gone, Served
<1>8. StoredOK(m, s, Served(m)', Gone', Home')
  BY <1>1, <1>4, StoredOKGrows
<1> QED
  BY <1>4, <1>6, <1>7, <1>8

LEMMA InsertOK ==
  ASSUME SessionInv, [Next]_vars, AllOK, faults' = faults, NEW m \in Mail, Insert(m)
  PROVE  AllOK'
<1> DEFINE s == session[m]
<1>1. s \in Session /\ PointOK(m, s) /\ s.pos \in Nat \ {0}
  BY SessionFacts
<1>2. faults \in Nat
  BY InboundAssumption DEF SessionInv, TypeOK
<1>3. s.at = "insert" /\ StoreInbound(m) /\ Goto(m, NextTurn(m))
  BY <1>2 DEF Insert, SQLErrors
<1>4. /\ s.look.dom \in Served(m)' /\ Gone' \subseteq Served(m)'
      /\ StoredOK(m, s, Served(m)', Gone', Home')
  BY <1>3, StoredIsServed
<1>5. s.at \in {"storeaddr", "insert"} /\ s.at \in LoopSteps
  BY <1>3 DEF LoopSteps
<1>6. /\ \A k \in 1..s.pos : s.to[k].dom \in Served(m)'
      /\ s.seen \subseteq Served(m)'
      /\ m \in Parseable
      /\ \A k \in DOMAIN s.to : <<s.to[k].dom, s.to[k].box>> \in Home'
  <2> HIDE DEF s
  <2> QED
    BY <1>1, <1>4, <1>5, TurnServed
<1>7. StoredOK(m, NextTurn(m), Served(m)', Gone', Home')
  BY <1>1, <1>4, <1>5, <1>6, NextTurnStored
<1> QED
  BY <1>3, <1>7, StoresOK

LEMMA InsertRawOK ==
  ASSUME SessionInv, [Next]_vars, AllOK, faults' = faults, NEW m \in Mail, InsertRaw(m)
  PROVE  AllOK'
<1> DEFINE s == session[m]
           r == Answer(m, "250")
<1>1. s \in Session
  BY SessionFacts
<1>2. faults \in Nat
  BY InboundAssumption DEF SessionInv, TypeOK
<1>3. s.at = "rawinsert" /\ StoreInbound(m) /\ Goto(m, r)
  BY <1>2 DEF InsertRaw, SQLErrors
<1>4. /\ s.look.dom \in Served(m)' /\ Gone' \subseteq Served(m)'
      /\ StoredOK(m, s, Served(m)', Gone', Home')
  BY <1>3, StoredIsServed
<1>5. m \notin Parseable /\ s.to[1].dom \in Served(m)'
  BY <1>3, <1>4 DEF StoredOK
<1>6. r.at = "reply" /\ r.to = s.to /\ r.seen = s.seen
  BY <1>1 DEF Answer, Session
<1> HIDE DEF r
<1>7. StoredOK(m, r, Served(m)', Gone', Home')
  BY <1>3, <1>4, <1>5, <1>6 DEF StoredOK, RcptSteps, LoopSteps, Looked
<1> QED
  BY <1>3, <1>7, StoresOK

LEMMA ConnectOrReplyOK ==
  ASSUME SessionInv, [Next]_vars, AllOK, NEW m \in Mail, Connect(m) \/ Reply(m)
  PROVE  AllOK'
<1> DEFINE s == session[m]
<1>1. s \in Session /\ PointOK(m, s) /\ StoredOK(m, s, Served(m), Gone, Home)
  BY SessionFacts
<1>2. stored' = stored
  BY DEF Connect, Reply
<1>3. CASE Connect(m)
  <2> DEFINE r == [s EXCEPT !.at = "rcpt"]
  <2>1. s.at = "new" /\ Goto(m, r)
    BY <1>3 DEF Connect
  <2>2. r.at = "rcpt" /\ r.to = s.to /\ r.seen = s.seen /\ r.reply = s.reply
    BY <1>1 DEF Session
  <2> HIDE DEF r
  <2>3. StoredOK(m, r, Served(m), Gone, Home)
    BY <1>1, <2>1, <2>2 DEF StoredOK, RcptSteps, LoopSteps, Looked
  <2> QED
    BY <1>2, <2>1, <2>3, GoesOK
<1>4. CASE Reply(m)
  <2> DEFINE r == [s EXCEPT !.at = "done"]
  <2>1. s.at = "reply" /\ Goto(m, r)
    BY <1>4 DEF Reply
  <2>2. r.at = "done" /\ r.to = s.to /\ r.seen = s.seen /\ r.reply = s.reply
    BY <1>1 DEF Session
  <2> HIDE DEF r
  <2>3. StoredOK(m, r, Served(m), Gone, Home)
    BY <1>1, <2>1, <2>2 DEF StoredOK, RcptSteps, LoopSteps, Looked
  <2> QED
    BY <1>2, <2>1, <2>3, GoesOK
<1> QED
  BY <1>3, <1>4

LEMMA NewSessionOK ==
  ASSUME NEW m, NEW t, NEW S, NEW G, NEW H
  PROVE  StoredOK(m, NewSession(t), S, G, H)
BY DEF StoredOK, NewSession, RcptSteps, LoopSteps, Looked

LEMMA RestartOK ==
  ASSUME SessionInv, [Next]_vars, AllOK, Restart
  PROVE  AllOK'
<1>1. session' = [m \in Mail |-> IF session[m].at \in {"new", "done"} THEN session[m]
                                 ELSE NewSession(session[m].try + 1)]
  BY DEF Restart
<1>2. session' \in [Mail -> Session] /\ stored' = stored
  BY StepSessionInv DEF SessionInv, TypeOK, Restart
<1>3. \A m \in Mail : \/ session'[m] = session[m]
                      \/ StoredOK(m, session'[m], Served(m)', Gone', Home')
  BY <1>1, NewSessionOK
<1> QED
  BY <1>2, <1>3, OthersOK

LEMMA StepAllOK ==
  ASSUME SessionInv, [Next]_vars, AllOK, faults' = faults
  PROVE  AllOK'
<1>1. CASE UNCHANGED <<session, stored>>
  <2>1. session' \in [Mail -> Session] /\ stored \subseteq stored'
    BY <1>1 DEF SessionInv, TypeOK
  <2> QED
    BY <1>1, <2>1, OthersOK
<1>2. ASSUME NEW m \in Mail, Connect(m) \/ SessionStep(m) \/ Break(m) PROVE AllOK'
  <2>1. CASE Break(m)
    BY <2>1, NewSessionOK, GoesOK DEF Break
  <2> QED
    BY <1>2, <2>1, ConnectOrReplyOK, LookupDomainOK, LookupAddressOK, CheckOK, InsertOK,
       InsertRawOK DEF SessionStep
<1>3. ASSUME NEW a \in Agent, AgentStep(a) PROVE UNCHANGED <<session, stored>>
  BY <1>3 DEF AgentStep, Poll, Ack
<1>4. CASE DirectoryStep
  BY <1>1, <1>4 DEF DirectoryStep, inVars
<1>5. CASE Restart
  BY <1>5, RestartOK
<1>6. CASE UNCHANGED vars
  BY <1>1, <1>6 DEF vars, inVars
<1> QED
  BY <1>1, <1>2, <1>3, <1>4, <1>5, <1>6 DEF Next

LEMMA StepStoredInv == SessionInv /\ StoredInv /\ [Next]_vars => StoredInv'
<1> SUFFICES ASSUME SessionInv, StoredInv, [Next]_vars, faults' = 0 PROVE AllOK'
  BY DEF StoredInv
<1>1. faults \in Nat
  BY InboundAssumption DEF SessionInv, TypeOK
<1>2. faults <= faults'
  BY CountsType DEF SessionInv
<1>3. faults = 0
  BY <1>1, <1>2
<1> QED
  BY <1>3, StepAllOK DEF StoredInv

LEMMA InitStoredInv == Init => StoredInv
BY NewSessionOK DEF Init, StoredInv, AllOK

\* What a sender was told with 250 need not be sent again: without failing SQL
\* statements each domain that still exists has the mail, although directory,
\* connections and process come and go.
THEOREM ConfirmedIsThere == Spec => []AcceptedIsStored
<1>1. SessionInv /\ StoredInv => AcceptedIsStored
  <2> SUFFICES ASSUME SessionInv, StoredInv, faults = 0, NEW m \in Mail, Confirmed(m),
                      NEW t \in IF m \in Parseable THEN ToOf(m) ELSE {session[m].to[1]},
                      Live(t.dom)
               PROVE  \E x \in stored : x.mail = m /\ x.dom = t.dom
    BY DEF AcceptedIsStored
  <2>1. StoredOK(m, session[m], Served(m), Gone, Home) /\ session[m].reply = "250"
    BY DEF StoredInv, AllOK, Confirmed
  <2>2. t.dom \in Served(m)
    BY <2>1 DEF StoredOK, ToOf
  <2> QED
    BY <2>2 DEF Served
<1> QED
  BY InitSessionInv, StepSessionInv, InitStoredInv, StepStoredInv, <1>1, PTL DEF Spec
-----------------------------------------------------------------------------
(* FirstRecipientAddressed.  The address a session has seen under RCPT is  *)
(* looked up again in Data.  A row that is deleted does not come back, so  *)
(* what is said of ids below is as final as what is said of domains above. *)

\* Ids that no row of addresses has, or will have again.
Lost == {i \in 0..issued : \A a \in addresses : a.id # i}

\* Domain ids, mailboxes and row ids of which the last can only be the row of the others.
RowFits(p) ==
  /\ p[3] \in 0..issued
  /\ \A a \in addresses : a.id = p[3] => a.dom = p[1] /\ a.box = p[2]

Rows == {p \in Nat \X Box \X Nat : RowFits(p)}

\* Pairs of a domain and a row such that the domain has mail m under that row, if both are there.
Filed(m) ==
  {p \in (1..issued) \X (0..issued) :
     Live(p[1]) /\ p[2] \notin Lost => \E x \in stored : x.mail = m /\ x.dom = p[1] /\ x.addr = p[2]}

\* No recipient before the k-th is in its domain.
FirstIn(s, k) == \A j \in 1..(k - 1) : NameOf[s.to[j].box] # NameOf[s.to[k].box]

FiledAt(s, k, F) == FirstIn(s, k) => <<s.to[k].dom, s.to[k].addr>> \in F

\* The last recipient that Data has looked up and not skipped.
Turn(s) == IF s.at = "insert" THEN s.pos ELSE s.pos - 1

\* What session s of m has to show for addresses, given Filed, Gone, Home, Lost and Rows.
AddrOK(m, s, F, G, H, L, R) ==
  /\ \A k \in DOMAIN s.to : <<s.to[k].dom, s.to[k].box, s.to[k].addr>> \in R
  /\ s.at = "check" => <<s.look.dom, BoxAt(m, s), s.look.addr>> \in R
  /\ s.at = "insert" =>
       \/ s.to[s.pos].dom \in G \/ s.to[s.pos].addr \in L
       \/ s.look.addr = s.to[s.pos].addr
  /\ s.at \in LoopSteps =>
       /\ \A k \in 1..(s.pos - 1) : FiledAt(s, k, F)
       /\ \A d \in s.seen : \E k \in 1..Turn(s) : <<d, s.to[k].box>> \in H
  /\ s.reply = "250" /\ m \in Parseable => \A k \in DOMAIN s.to : FiledAt(s, k, F)

AllAddr == \A m \in Mail : AddrOK(m, session[m], Filed(m), Gone, Home, Lost, Rows)

AddrInv == faults = 0 => AllAddr

\* What the steps below start from.
Base == SessionInv /\ RowInv /\ AllOK /\ AllAddr

LEMMA AddrGrow ==
  ASSUME DirInv, RowInv, [DirNext]_dirVars, stored \subseteq stored'
  PROVE  /\ Lost \subseteq Lost'
         /\ Rows \subseteq Rows'
         /\ \A m \in Mail : Filed(m) \subseteq Filed(m)'
<1>1. /\ issued \in Nat /\ issued' \in Nat /\ issued <= issued'
      /\ \A n \in Name : domain'[n] \in {domain[n], 0, issued + 1}
  BY DomainSteps
<1>2. \A a \in addresses' : a \in addresses \/ a.id = issued + 1
  BY RowStep
<1>3. Lost \subseteq Lost'
  BY <1>1, <1>2 DEF Lost
<1>4. ASSUME NEW p \in Rows PROVE p \in Rows'
  <2>1. p \in Nat \X Box \X Nat /\ RowFits(p)
    BY DEF Rows
  <2>2. RowFits(p)'
    BY <1>1, <1>2, <2>1 DEF RowFits
  <2> QED
    BY <2>1, <2>2 DEF Rows
<1>5. ASSUME NEW d \in 1..issued, Live(d)' PROVE Live(d)
  BY <1>1, <1>5 DEF Live
<1>6. ASSUME NEW m \in Mail, NEW p \in Filed(m) PROVE p \in Filed(m)'
  <2>1. /\ p \in (1..issued) \X (0..issued)
        /\ Live(p[1]) /\ p[2] \notin Lost =>
             \E x \in stored : x.mail = m /\ x.dom = p[1] /\ x.addr = p[2]
    BY DEF Filed
  <2>2. p \in (1..issued') \X (0..issued')
    BY <1>1, <2>1
  <2>3. Live(p[1])' /\ p[2] \notin Lost' =>
          \E x \in stored' : x.mail = m /\ x.dom = p[1] /\ x.addr = p[2]
    BY <1>3, <1>5, <2>1
  <2> QED
    BY <2>2, <2>3 DEF Filed
<1> QED
  BY <1>3, <1>4, <1>6

LEMMA AddrOKGrows ==
  ASSUME NEW m, NEW s, NEW F, NEW G, NEW H, NEW L, NEW R,
         NEW F2, NEW G2, NEW H2, NEW L2, NEW R2,
         F \subseteq F2, G \subseteq G2, H \subseteq H2, L \subseteq L2, R \subseteq R2,
         AddrOK(m, s, F, G, H, L, R)
  PROVE  AddrOK(m, s, F2, G2, H2, L2, R2)
BY DEF AddrOK, FiledAt

\* Pairs of which one is gone are filed.
LEMMA GoneIsFiled ==
  ASSUME NEW m \in Mail, NEW d \in 1..issued, NEW i \in 0..issued, d \in Gone \/ i \in Lost
  PROVE  <<d, i>> \in Filed(m)
<1> DEFINE p == <<d, i>>
<1>1. p \in (1..issued) \X (0..issued) /\ p[1] = d /\ p[2] = i
  OBVIOUS
<1> HIDE DEF p
<1>2. p \in Filed(m)
  BY <1>1 DEF Filed, Gone
<1> QED
  BY <1>2 DEF p

\* The row a look-up finds.
LEMMA LookupRow ==
  ASSUME DirInv, RowInv, NEW d \in Nat, NEW b \in Box
  PROVE  /\ <<d, b, RowId(d, b)>> \in Rows
         /\ RowId(d, b) # None => \E a \in addresses : a.dom = d /\ a.box = b
         /\ \A i : <<d, b, i>> \in Rows => i \in Lost \/ RowId(d, b) = i
<1>1. /\ issued \in Nat
      /\ \A a \in addresses : a.id \in 1..issued
  BY DEF DirInv, DirTypeOK, RowInv, Address, None
<1>2. CASE RowsOf(d, b) = {}
  <2>1. RowId(d, b) = 0
    BY <1>2 DEF RowId, None
  <2>2. \A a \in addresses : ~(a.dom = d /\ a.box = b)
    BY <1>2 DEF RowsOf
  <2>3. RowFits(<<d, b, 0>>)
    BY <1>1 DEF RowFits
  <2>4. ASSUME NEW i, <<d, b, i>> \in Rows PROVE i \in Lost
    <3>1. RowFits(<<d, b, i>>)
      BY <2>4 DEF Rows
    <3>2. i \in 0..issued /\ \A a \in addresses : a.id = i => a.dom = d /\ a.box = b
      BY <3>1 DEF RowFits
    <3> QED
      BY <2>2, <3>2 DEF Lost
  <2> QED
    BY <2>1, <2>3, <2>4 DEF Rows, None
<1>3. CASE RowsOf(d, b) # {}
  <2> DEFINE a == CHOOSE c \in RowsOf(d, b) : TRUE
  <2>1. a \in addresses /\ a.dom = d /\ a.box = b
    <3>1. a \in RowsOf(d, b)
      BY <1>3
    <3> QED
      BY <3>1 DEF RowsOf
  <2>2. RowId(d, b) = a.id
    BY <1>3 DEF RowId
  <2> HIDE DEF a
  <2>3. \A c \in addresses : c.id = a.id => c = a
    BY <2>1 DEF RowInv
  <2>4. RowFits(<<d, b, a.id>>)
    BY <1>1, <2>1, <2>3 DEF RowFits
  <2>5. ASSUME NEW i, <<d, b, i>> \in Rows, i \notin Lost PROVE a.id = i
    <3>1. RowFits(<<d, b, i>>)
      BY <2>5 DEF Rows
    <3>2. i \in 0..issued /\ \A c \in addresses : c.id = i => c.dom = d /\ c.box = b
      BY <3>1 DEF RowFits
    <3>3. PICK c \in addresses : c.id = i
      BY <2>5, <3>2 DEF Lost
    <3>4. c = a
      BY <2>1, <3>2, <3>3 DEF RowInv, OneRow
    <3> QED
      BY <3>3, <3>4
  <2>6. <<d, b, a.id>> \in Rows
    BY <1>1, <2>1, <2>4 DEF Rows
  <2> QED
    BY <2>1, <2>2, <2>5, <2>6
<1> QED
  BY <1>2, <1>3

-----------------------------------------------------------------------------
(* How a session moves on. *)

LEMMA SameRecipients ==
  ASSUME NEW s, NEW r, r.to = s.to, NEW k, NEW F
  PROVE  FiledAt(r, k, F) <=> FiledAt(s, k, F)
BY DEF FiledAt, FirstIn

LEMMA RcptAnsweredAddr ==
  ASSUME NEW m \in Mail, NEW F, NEW G, NEW H, NEW L, NEW R,
         session[m] \in Session, PointOK(m, session[m]), session[m].at \in RcptSteps,
         session[m].seen = {}, NEW to \in Seq(Recipient),
         \A k \in DOMAIN to : <<to[k].dom, to[k].box, to[k].addr>> \in R,
         AddrOK(m, session[m], F, G, H, L, R)
  PROVE  AddrOK(m, RcptAnswered(m, to), F, G, H, L, R)
<1> DEFINE s == session[m]
           r == RcptAnswered(m, to)
<1>1. s.reply = "none" /\ s.to \in Seq(Recipient)
  BY DEF PointOK, Session
<1>2. /\ r.seen = {}
      /\ r.to = to \/ r.to = s.to
      /\ r.reply # "250"
      /\ r.at \in {"rcpt", "done", "raw"} \/ (r.at = "store" /\ r.pos = 1)
  BY <1>1 DEF RcptAnswered, Session
<1>3. \A k \in DOMAIN s.to : <<s.to[k].dom, s.to[k].box, s.to[k].addr>> \in R
  BY DEF AddrOK
<1> HIDE DEF r
<1>4. \A k \in DOMAIN r.to : <<r.to[k].dom, r.to[k].box, r.to[k].addr>> \in R
  BY <1>2, <1>3
<1>5. r.at \in LoopSteps => 1..(r.pos - 1) = {}
  BY <1>2 DEF LoopSteps
<1>6. AddrOK(m, r, F, G, H, L, R)
  BY <1>2, <1>4, <1>5 DEF AddrOK
<1> QED
  BY <1>6 DEF r

\* Data is done with the recipient at pos.
LEMMA NextTurnAddr ==
  ASSUME NEW m \in Mail, NEW F, NEW G, NEW H, NEW L, NEW R,
         session[m] \in Session, PointOK(m, session[m]), session[m].at \in LoopSteps,
         AddrOK(m, session[m], F, G, H, L, R), FiledAt(session[m], session[m].pos, F)
  PROVE  AddrOK(m, NextTurn(m), F, G, H, L, R)
<1> DEFINE s == session[m]
           r == NextTurn(m)
<1>1. /\ s.pos \in Nat \ {0} /\ s.to \in Seq(Recipient) /\ s.reply = "none"
      /\ DOMAIN s.to = 1..Len(s.to) /\ Len(s.to) \in Nat
  BY DEF PointOK, Session, LoopSteps, StoreSteps
<1>2. /\ r.seen = s.seen
      /\ r.to = s.to
      /\ \/ r.at = "store" /\ r.pos = s.pos + 1 /\ r.reply = "none"
         \/ r.at = "reply" /\ r.reply = "250" /\ s.pos = Len(s.to)
  BY <1>1 DEF NextTurn, Answer, Session
<1>3. /\ \A k \in DOMAIN s.to : <<s.to[k].dom, s.to[k].box, s.to[k].addr>> \in R
      /\ \A k \in 1..(s.pos - 1) : FiledAt(s, k, F)
      /\ \A d \in s.seen : \E k \in 1..Turn(s) : <<d, s.to[k].box>> \in H
  BY DEF AddrOK
<1> HIDE DEF r
<1>4. \A k \in 1..s.pos : FiledAt(r, k, F)
  <2> SUFFICES ASSUME NEW k \in 1..s.pos PROVE FiledAt(r, k, F)
    OBVIOUS
  <2>1. k = s.pos \/ k \in 1..(s.pos - 1)
    BY <1>1
  <2>2. FiledAt(s, k, F)
    BY <1>3, <2>1
  <2> QED
    BY <1>2, <2>2, SameRecipients
<1>5. Turn(s) \in {s.pos - 1, s.pos}
  BY DEF Turn
<1>6. \A d \in r.seen : \E k \in 1..s.pos : <<d, r.to[k].box>> \in H
  BY <1>1, <1>2, <1>3, <1>5
<1>7. ASSUME r.at = "store" PROVE AddrOK(m, r, F, G, H, L, R)
  <2>1. 1..(r.pos - 1) = 1..s.pos /\ Turn(r) = s.pos /\ r.reply # "250"
    BY <1>1, <1>2, <1>7 DEF Turn
  <2> QED
    BY <1>2, <1>3, <1>4, <1>6, <1>7, <2>1 DEF AddrOK
<1>8. ASSUME r.at = "reply" PROVE AddrOK(m, r, F, G, H, L, R)
  <2>1. r.at \notin LoopSteps /\ \A k \in DOMAIN r.to : FiledAt(r, k, F)
    BY <1>1, <1>2, <1>4, <1>8 DEF LoopSteps
  <2> QED
    BY <1>2, <1>3, <1>8, <2>1 DEF AddrOK
<1>9. AddrOK(m, r, F, G, H, L, R)
  BY <1>2, <1>7, <1>8
<1> QED
  BY <1>9 DEF r

\* A mail that cannot be parsed has nothing to show but its recipients.
LEMMA AnswerAddr ==
  ASSUME NEW m \in Mail, NEW F, NEW G, NEW H, NEW L, NEW R, NEW a,
         session[m] \in Session, m \notin Parseable, AddrOK(m, session[m], F, G, H, L, R)
  PROVE  AddrOK(m, Answer(m, a), F, G, H, L, R)
<1> DEFINE r == Answer(m, a)
<1>1. r.at = "reply" /\ r.to = session[m].to
  BY DEF Answer, Session
<1>2. \A k \in DOMAIN session[m].to :
        <<session[m].to[k].dom, session[m].to[k].box, session[m].to[k].addr>> \in R
  BY DEF AddrOK
<1> HIDE DEF r
<1>3. AddrOK(m, r, F, G, H, L, R)
  BY <1>1, <1>2 DEF AddrOK, LoopSteps
<1> QED
  BY <1>3 DEF r

LEMMA UnhandledAddr ==
  ASSUME NEW m \in Mail, NEW F, NEW G, NEW H, NEW L, NEW R,
         session[m] \in Session, PointOK(m, session[m]), AddrOK(m, session[m], F, G, H, L, R),
         session[m].at \in RcptSteps \union {"store", "raw"},
         session[m].at \in RcptSteps => session[m].seen = {},
         session[m].at = "store" => FiledAt(session[m], session[m].pos, F),
         session[m].at = "raw" => m \notin Parseable
  PROVE  AddrOK(m, Unhandled(m), F, G, H, L, R)
<1> DEFINE s == session[m]
<1>1. CASE s.at \in RcptSteps
  <2>1. Unhandled(m) = RcptAnswered(m, s.to)
    BY <1>1 DEF Unhandled, RcptSteps
  <2>2. /\ s.to \in Seq(Recipient)
        /\ \A k \in DOMAIN s.to : <<s.to[k].dom, s.to[k].box, s.to[k].addr>> \in R
    BY DEF Session, AddrOK
  <2> QED
    BY <1>1, <2>1, <2>2, RcptAnsweredAddr
<1>2. CASE s.at = "store"
  <2>1. Unhandled(m) = NextTurn(m) /\ s.at \in LoopSteps
    BY <1>2 DEF Unhandled, RcptSteps, LoopSteps
  <2> QED
    BY <1>2, <2>1, NextTurnAddr
<1>3. CASE s.at = "raw"
  <2>1. Unhandled(m) = Answer(m, "250")
    BY <1>3 DEF Unhandled, RcptSteps
  <2> QED
    BY <1>3, <2>1, AnswerAddr
<1> QED
  BY <1>1, <1>2, <1>3

-----------------------------------------------------------------------------
(* The steps, without failing statements. *)

LEMMA AddrFacts ==
  ASSUME Base, NEW m \in Mail
  PROVE  /\ session[m] \in Session
         /\ PointOK(m, session[m])
         /\ StoredOK(m, session[m], Served(m), Gone, Home)
         /\ AddrOK(m, session[m], Filed(m), Gone, Home, Lost, Rows)
         /\ session[m].pos \in Nat \ {0}
         /\ session[m].to \in Seq(Recipient)
         /\ \A k \in DOMAIN session[m].to :
              LET t == session[m].to[k]
              IN  /\ t \in Recipient /\ <<t.dom, t.box>> \in Home /\ t.dom \in 1..issued
                  /\ <<t.dom, t.box, t.addr>> \in Rows /\ t.addr \in 0..issued
                  /\ t.dom \in Gone \/ t.addr \in Lost => <<t.dom, t.addr>> \in Filed(m)
         /\ DirInv /\ RowInv
<1>1. /\ session[m] \in Session /\ PointOK(m, session[m])
      /\ StoredOK(m, session[m], Served(m), Gone, Home)
      /\ AddrOK(m, session[m], Filed(m), Gone, Home, Lost, Rows)
      /\ session[m].pos \in Nat \ {0} /\ session[m].to \in Seq(Recipient)
      /\ \A p \in Home : p[1] \in 1..issued
  BY SessionFacts DEF Base, AllAddr
<1>2. DirInv /\ RowInv
  BY DEF Base, SessionInv, TypeOK, DirInv
<1>3. ASSUME NEW k \in DOMAIN session[m].to, NEW t, t = session[m].to[k]
      PROVE  /\ t \in Recipient /\ <<t.dom, t.box>> \in Home /\ t.dom \in 1..issued
             /\ <<t.dom, t.box, t.addr>> \in Rows /\ t.addr \in 0..issued
             /\ t.dom \in Gone \/ t.addr \in Lost => <<t.dom, t.addr>> \in Filed(m)
  <2>1. t \in Recipient
    BY <1>1, <1>3
  <2>2. <<t.dom, t.box>> \in Home /\ <<t.dom, t.box, t.addr>> \in Rows
    BY <1>1, <1>3 DEF StoredOK, AddrOK
  <2>3. <<t.dom, t.box>>[1] \in 1..issued
    BY <1>1, <2>2
  <2>4. t.dom \in 1..issued
    BY <2>3
  <2>5. RowFits(<<t.dom, t.box, t.addr>>)
    BY <2>2 DEF Rows
  <2>6. t.addr \in 0..issued
    BY <2>5 DEF RowFits
  <2> QED
    BY <2>1, <2>2, <2>4, <2>6, GoneIsFiled
<1> QED
  BY <1>1, <1>2, <1>3

LEMMA OthersAddr ==
  ASSUME Base, [Next]_vars, stored \subseteq stored', session' \in [Mail -> Session],
         \A m \in Mail :
           \/ session'[m] = session[m]
           \/ AddrOK(m, session'[m], Filed(m)', Gone', Home', Lost', Rows')
  PROVE  AllAddr'
<1>1. /\ Gone \subseteq Gone' /\ Home \subseteq Home'
      /\ Lost \subseteq Lost' /\ Rows \subseteq Rows'
      /\ \A m \in Mail : Filed(m) \subseteq Filed(m)'
  BY Grow, AddrGrow, NextDirNext DEF Base, SessionInv, TypeOK, DirInv
<1>2. ASSUME NEW m \in Mail, session'[m] = session[m]
      PROVE  AddrOK(m, session'[m], Filed(m)', Gone', Home', Lost', Rows')
  <2>1. AddrOK(m, session[m], Filed(m), Gone, Home, Lost, Rows)
    BY DEF Base, AllAddr
  <2> QED
    BY <1>1, <1>2, <2>1, AddrOKGrows
<1> QED
  BY <1>2 DEF AllAddr

\* A session goes to r and stores nothing.
LEMMA GoesAddr ==
  ASSUME Base, [Next]_vars, stored' = stored, NEW m \in Mail, NEW r, Goto(m, r),
         AddrOK(m, r, Filed(m), Gone, Home, Lost, Rows)
  PROVE  AllAddr'
<1>1. /\ Gone \subseteq Gone' /\ Home \subseteq Home'
      /\ Lost \subseteq Lost' /\ Rows \subseteq Rows'
      /\ Filed(m) \subseteq Filed(m)'
  BY Grow, AddrGrow, NextDirNext DEF Base, SessionInv, TypeOK, DirInv
<1>2. AddrOK(m, r, Filed(m)', Gone', Home', Lost', Rows')
  BY <1>1, AddrOKGrows
<1>3. session \in [Mail -> Session] /\ session' = [session EXCEPT ![m] = r]
  BY DEF Base, SessionInv, TypeOK, Goto
<1>4. session' \in [Mail -> Session]
  BY StepSessionInv DEF Base, SessionInv, TypeOK
<1>5. \A k \in Mail :
        \/ session'[k] = session[k]
        \/ AddrOK(k, session'[k], Filed(k)', Gone', Home', Lost', Rows')
  BY <1>2, <1>3
<1> QED
  BY <1>4, <1>5, OthersAddr

LEMMA LookupDomainAddr ==
  ASSUME Base, [Next]_vars, faults' = faults, NEW m \in Mail, LookupDomain(m)
  PROVE  AllAddr'
<1> DEFINE s == session[m]
           b == Current(m)
           d == domain[NameOf[b]]
           p == [rcpt |-> "rcptaddr", store |-> "storeaddr", raw |-> "rawinsert"][s.at]
           t == s.to[s.pos]
<1>1. /\ s \in Session /\ PointOK(m, s) /\ DirInv
      /\ StoredOK(m, s, Served(m), Gone, Home)
      /\ AddrOK(m, s, Filed(m), Gone, Home, Lost, Rows)
      /\ s.pos \in Nat \ {0} /\ s.to \in Seq(Recipient)
  BY AddrFacts
<1>2. s.at \in {"rcpt", "store", "raw"} /\ stored' = stored
  BY DEF LookupDomain
<1>3. b \in Box
  BY <1>1, <1>2, BoxOfCurrent DEF RcptSteps, StoreSteps
<1>4. CASE d = None /\ Goto(m, Unhandled(m))
  <2>1. ASSUME s.at = "store" PROVE FiledAt(s, s.pos, Filed(m))
    <3>1. s.pos \in DOMAIN s.to /\ b = t.box
      BY <1>1, <2>1 DEF PointOK, StoreSteps, Current, RcptSteps
    <3>2. /\ <<t.dom, b>> \in Home /\ t.dom \in 1..issued
          /\ t.dom \in Gone => <<t.dom, t.addr>> \in Filed(m)
      BY <3>1, AddrFacts
    <3>3. \A c : <<c, b>> \in Home /\ c # d => c \in Gone
      BY <1>1, <1>3, LookupHome
    <3>4. t.dom # None
      BY <3>2 DEF None
    <3> QED
      BY <1>4, <3>2, <3>3, <3>4 DEF FiledAt
  <2>2. s.at \in RcptSteps \union {"store", "raw"}
    BY <1>2 DEF RcptSteps
  <2>3. /\ s.at \in RcptSteps => s.seen = {}
        /\ s.at = "raw" => m \notin Parseable
    BY <1>1 DEF StoredOK
  <2>4. AddrOK(m, Unhandled(m), Filed(m), Gone, Home, Lost, Rows)
    BY <1>1, <2>1, <2>2, <2>3, UnhandledAddr
  <2> QED
    BY <1>2, <1>4, <2>4, GoesAddr
<1>5. CASE Goto(m, [s EXCEPT !.at = p, !.look = [dom |-> d, addr |-> None]])
  <2> DEFINE r == [s EXCEPT !.at = p, !.look = [dom |-> d, addr |-> None]]
  <2>1. /\ r.at = p /\ r.pos = s.pos /\ r.to = s.to /\ r.seen = s.seen /\ r.reply = s.reply
        /\ s.reply = "none"
    BY <1>1, <1>2 DEF Session, PointOK, RcptSteps, StoreSteps
  <2>2. /\ s.at = "rcpt" => p = "rcptaddr"
        /\ s.at = "store" => p = "storeaddr"
        /\ s.at = "raw" => p = "rawinsert"
    OBVIOUS
  <2> HIDE DEF r, p
  <2>3. r.at \notin {"check", "insert"} /\ r.reply # "250"
    BY <1>2, <2>1, <2>2
  <2>4. r.at \in LoopSteps => s.at \in LoopSteps /\ Turn(r) = Turn(s)
    BY <1>2, <2>1, <2>2 DEF LoopSteps, Turn
  <2>5. \A k : FiledAt(r, k, Filed(m)) <=> FiledAt(s, k, Filed(m))
    BY <2>1, SameRecipients
  <2>6. AddrOK(m, r, Filed(m), Gone, Home, Lost, Rows)
    BY <1>1, <2>1, <2>3, <2>4, <2>5 DEF AddrOK
  <2>7. Goto(m, r)
    BY <1>5 DEF r
  <2> QED
    BY <1>2, <2>6, <2>7, GoesAddr
<1>6. faults \in Nat
  BY InboundAssumption DEF Base, SessionInv, TypeOK
<1> QED
  BY <1>4, <1>5, <1>6 DEF LookupDomain, Handled, SQLErrors

\* A recipient that Data skips because its domain was seen is not the first in
\* its domain, or its domain is gone.
LEMMA SkippedIsFiled ==
  ASSUME Base, NEW m \in Mail, session[m].at = "storeaddr",
         session[m].look.dom \in session[m].seen
  PROVE  FiledAt(session[m], session[m].pos, Filed(m))
<1> DEFINE s == session[m]
           d == s.look.dom
           t == s.to[s.pos]
<1>1. /\ PointOK(m, s) /\ StoredOK(m, s, Served(m), Gone, Home)
      /\ AddrOK(m, s, Filed(m), Gone, Home, Lost, Rows)
      /\ s.pos \in Nat \ {0} /\ s.to \in Seq(Recipient)
  BY AddrFacts
<1>2. s.pos \in DOMAIN s.to
  BY <1>1 DEF PointOK, StoreSteps
<1>3. t.dom \in Gone => <<t.dom, t.addr>> \in Filed(m)
  BY <1>2, AddrFacts
<1>4. d = t.dom \/ t.dom \in Gone
  BY <1>1 DEF StoredOK
<1>5. ASSUME FirstIn(s, s.pos) PROVE d \in Gone
  <2>1. PICK k \in 1..(s.pos - 1) : <<d, s.to[k].box>> \in Home
    BY <1>1 DEF AddrOK, LoopSteps, Turn
  <2>2. <<d, t.box>> \in Home
    BY <1>1 DEF StoredOK, Looked, BoxAt, RcptSteps
  <2>3. NameOf[s.to[k].box] # NameOf[t.box]
    BY <1>5 DEF FirstIn
  <2>4. /\ d \in 1..issued
        /\ \A n \in Name : domain[n] = d => n = NameOf[s.to[k].box] /\ n = NameOf[t.box]
    BY <2>1, <2>2 DEF Home
  <2> QED
    BY <2>3, <2>4 DEF Gone, Live
<1> QED
  BY <1>3, <1>4, <1>5 DEF FiledAt

LEMMA LookupAddressAddr ==
  ASSUME Base, [Next]_vars, faults' = faults, NEW m \in Mail, LookupAddress(m)
  PROVE  AllAddr'
<1> DEFINE s == session[m]
           d == s.look.dom
           b == Current(m)
           look == [s.look EXCEPT !.addr = RowId(d, b)]
           t == s.to[s.pos]
<1>1. /\ s \in Session /\ PointOK(m, s) /\ DirInv /\ RowInv
      /\ StoredOK(m, s, Served(m), Gone, Home)
      /\ AddrOK(m, s, Filed(m), Gone, Home, Lost, Rows)
      /\ s.pos \in Nat \ {0} /\ s.to \in Seq(Recipient)
  BY AddrFacts
<1>2. s.at \in {"rcptaddr", "storeaddr"} /\ stored' = stored
  BY DEF LookupAddress
<1>3. s.reply = "none" /\ s.look.dom \in Nat /\ b \in Box
  BY <1>1, <1>2, BoxOfCurrent DEF PointOK, RcptSteps, StoreSteps, Session
<1>4. look.dom = d /\ look.addr = RowId(d, b)
  BY <1>1 DEF Session
<1>5. /\ <<d, b, RowId(d, b)>> \in Rows
      /\ \A i : <<d, b, i>> \in Rows => i \in Lost \/ RowId(d, b) = i
  BY <1>1, <1>3, LookupRow
<1>6. b = BoxAt(m, s)
  BY DEF Current, BoxAt
<1>7. CASE s.at = "storeaddr" /\ d \in s.seen /\ Goto(m, NextTurn(m))
  <2>1. FiledAt(s, s.pos, Filed(m)) /\ s.at \in LoopSteps
    BY <1>7, SkippedIsFiled DEF LoopSteps
  <2>2. AddrOK(m, NextTurn(m), Filed(m), Gone, Home, Lost, Rows)
    BY <1>1, <2>1, NextTurnAddr
  <2> QED
    BY <1>2, <1>7, <2>2, GoesAddr
<1>8. CASE s.at = "rcptaddr" /\ Goto(m, [s EXCEPT !.at = "check", !.look = look])
  <2> DEFINE r == [s EXCEPT !.at = "check", !.look = look]
  <2>1. r.at = "check" /\ r.pos = s.pos /\ r.to = s.to /\ r.reply = "none" /\ r.look = look
    BY <1>1, <1>3 DEF Session
  <2> HIDE DEF r, look
  <2>2. BoxAt(m, r) = b
    BY <1>6, <1>8, <2>1 DEF BoxAt, RcptSteps
  <2>3. AddrOK(m, r, Filed(m), Gone, Home, Lost, Rows)
    BY <1>1, <1>4, <1>5, <2>1, <2>2 DEF AddrOK, LoopSteps
  <2>4. Goto(m, r)
    BY <1>8 DEF r
  <2> QED
    BY <1>2, <2>3, <2>4, GoesAddr
<1>9. CASE /\ s.at = "storeaddr"
           /\ Goto(m, [s EXCEPT !.at = "insert", !.look = look, !.seen = @ \union {d}])
  <2> DEFINE r == [s EXCEPT !.at = "insert", !.look = look, !.seen = @ \union {d}]
  <2>1. /\ r.at = "insert" /\ r.pos = s.pos /\ r.to = s.to /\ r.reply = "none"
        /\ r.look = look /\ r.seen = s.seen \union {d}
    BY <1>1, <1>3 DEF Session
  <2>2. s.pos \in DOMAIN s.to /\ b = t.box
    BY <1>1, <1>9 DEF PointOK, StoreSteps, Current, RcptSteps
  <2>3. <<t.dom, b, t.addr>> \in Rows
    BY <2>2, AddrFacts
  <2>4. d = t.dom \/ t.dom \in Gone
    BY <1>1, <1>9 DEF StoredOK
  <2>5. t.dom \in Gone \/ t.addr \in Lost \/ look.addr = t.addr
    BY <1>4, <1>5, <2>3, <2>4
  <2>6. <<d, t.box>> \in Home
    BY <1>1, <1>6, <1>9, <2>2 DEF StoredOK, Looked
  <2>7. Turn(s) = s.pos - 1 /\ Turn(r) = s.pos /\ s.at \in LoopSteps
    BY <1>9, <2>1 DEF Turn, LoopSteps
  <2> HIDE DEF r, look
  <2>8. ASSUME NEW c \in r.seen PROVE \E k \in 1..Turn(r) : <<c, r.to[k].box>> \in Home
    <3>1. CASE c = d
      <4>1. s.pos \in 1..Turn(r)
        BY <1>1, <2>7
      <4> QED
        BY <2>1, <2>6, <3>1, <4>1
    <3>2. CASE c \in s.seen
      <4>1. PICK k \in 1..(s.pos - 1) : <<c, s.to[k].box>> \in Home
        BY <1>1, <2>7, <3>2 DEF AddrOK
      <4>2. k \in 1..Turn(r)
        BY <1>1, <2>7
      <4> QED
        BY <2>1, <4>1, <4>2
    <3> QED
      BY <2>1, <3>1, <3>2
  <2>9. \A k \in 1..(s.pos - 1) : FiledAt(r, k, Filed(m))
    <3>1. \A k \in 1..(s.pos - 1) : FiledAt(s, k, Filed(m))
      BY <1>1, <2>7 DEF AddrOK
    <3> QED
      BY <2>1, <3>1, SameRecipients
  <2>10. \A k \in DOMAIN s.to : <<s.to[k].dom, s.to[k].box, s.to[k].addr>> \in Rows
    BY <1>1 DEF AddrOK
  <2>11. AddrOK(m, r, Filed(m), Gone, Home, Lost, Rows)
    BY <2>1, <2>5, <2>8, <2>9, <2>10 DEF AddrOK
  <2>12. Goto(m, r)
    BY <1>9 DEF r
  <2> QED
    BY <1>2, <2>11, <2>12, GoesAddr
<1>10. faults \in Nat
  BY InboundAssumption DEF Base, SessionInv, TypeOK
<1> QED
  BY <1>7, <1>8, <1>9, <1>10 DEF LookupAddress, Seen, SQLErrors

LEMMA CheckAddr ==
  ASSUME Base, [Next]_vars, NEW m \in Mail, Check(m)
  PROVE  AllAddr'
<1> DEFINE s == session[m]
           rcpt == [box |-> Current(m), dom |-> s.look.dom, addr |-> s.look.addr]
<1>1. /\ s \in Session /\ PointOK(m, s)
      /\ StoredOK(m, s, Served(m), Gone, Home)
      /\ AddrOK(m, s, Filed(m), Gone, Home, Lost, Rows)
      /\ s.to \in Seq(Recipient) /\ Current(m) = BoxAt(m, s)
  BY AddrFacts DEF Current, BoxAt
<1>2. s.at = "check" /\ s.at \in RcptSteps /\ stored' = stored
  BY DEF Check, RcptSteps
<1>3. rcpt \in Recipient
  BY <1>1, <1>2, BoxOfCurrent DEF PointOK, Looked, Session, Recipient
<1>4. <<rcpt.dom, rcpt.box, rcpt.addr>> \in Rows
  BY <1>1, <1>2 DEF AddrOK
<1>5. PICK to \in {s.to, Append(s.to, rcpt)} : Goto(m, RcptAnswered(m, to))
  BY DEF Check
<1> HIDE DEF rcpt
<1>6. to \in Seq(Recipient)
  <2>1. Append(s.to, rcpt) \in Seq(Recipient)
    BY <1>1, <1>3
  <2> QED
    BY <1>1, <1>5, <2>1
<1>7. \A k \in DOMAIN s.to : <<s.to[k].dom, s.to[k].box, s.to[k].addr>> \in Rows
  BY <1>1 DEF AddrOK
<1>8. ASSUME NEW k \in DOMAIN to PROVE <<to[k].dom, to[k].box, to[k].addr>> \in Rows
  <2>1. CASE to = s.to
    BY <1>7, <1>8, <2>1
  <2>2. CASE to = Append(s.to, rcpt)
    <3>1. k \in 1..(Len(s.to) + 1)
      BY <1>1, <1>3, <1>8, <2>2
    <3>2. to[k] = IF k \in DOMAIN s.to THEN s.to[k] ELSE rcpt
      BY <1>1, <1>3, <2>2, <3>1
    <3> QED
      BY <1>4, <1>7, <3>2
  <2> QED
    BY <1>5, <2>1, <2>2
<1>9. s.seen = {}
  BY <1>1, <1>2 DEF StoredOK
<1>10. AddrOK(m, RcptAnswered(m, to), Filed(m), Gone, Home, Lost, Rows)
  BY <1>1, <1>2, <1>6, <1>8, <1>9, RcptAnsweredAddr
<1> QED
  BY <1>2, <1>5, <1>10, GoesAddr

\* The first recipient in its domain gets the row under its address.
LEMMA InsertFiles ==
  ASSUME Base, NEW m \in Mail, session[m].at = "insert", StoreInbound(m), UNCHANGED dirVars
  PROVE  FiledAt(session[m], session[m].pos, Filed(m)')
<1> DEFINE s == session[m]
           t == s.to[s.pos]
           row == [mail |-> m, try |-> s.try, box |-> Current(m), dom |-> s.look.dom,
                   addr |-> s.look.addr]
<1>1. /\ PointOK(m, s) /\ StoredOK(m, s, Served(m), Gone, Home)
      /\ AddrOK(m, s, Filed(m), Gone, Home, Lost, Rows)
      /\ s.pos \in Nat \ {0} /\ s.to \in Seq(Recipient)
  BY AddrFacts
<1>2. s.pos \in DOMAIN s.to
  BY <1>1 DEF PointOK, StoreSteps
<1>3. t.dom \in 1..issued /\ t.addr \in 0..issued
  BY <1>2, AddrFacts
<1>4. stored' = stored \union {row}
  BY DEF StoreInbound, AddressOf
<1>5. row.mail = m /\ row.dom = s.look.dom /\ row.addr = s.look.addr
  OBVIOUS
<1>6. domain' = domain /\ addresses' = addresses /\ issued' = issued
  BY DEF dirVars
<1>7. /\ t.dom \in Gone \/ s.look.dom = t.dom
      /\ t.dom \in Gone \/ t.addr \in Lost \/ s.look.addr = t.addr
  BY <1>1 DEF StoredOK, AddrOK
<1>8. t.dom \in Gone \/ t.addr \in Lost \/ (row.dom = t.dom /\ row.addr = t.addr)
  BY <1>5, <1>7
<1> HIDE DEF row
<1>9. PICK p : /\ p = <<t.dom, t.addr>> /\ p[1] = t.dom /\ p[2] = t.addr
               /\ p \in (1..issued') \X (0..issued')
  <2> DEFINE q == <<t.dom, t.addr>>
  <2>1. q = <<t.dom, t.addr>> /\ q[1] = t.dom /\ q[2] = t.addr
    OBVIOUS
  <2>2. q \in (1..issued') \X (0..issued')
    BY <1>3, <1>6
  <2> HIDE DEF q
  <2> QED
    BY <2>1, <2>2
<1>10. ASSUME Live(p[1])', p[2] \notin Lost'
       PROVE  \E x \in stored' : x.mail = m /\ x.dom = p[1] /\ x.addr = p[2]
  <2>1. Live(t.dom) /\ t.addr \notin Lost
    BY <1>6, <1>9, <1>10 DEF Live, Lost
  <2>2. row \in stored' /\ row.mail = m /\ row.dom = t.dom /\ row.addr = t.addr
    BY <1>4, <1>5, <1>8, <2>1 DEF Gone
  <2> QED
    BY <1>9, <2>2
<1>11. p \in Filed(m)'
  BY <1>9, <1>10 DEF Filed
<1> QED
  BY <1>9, <1>11 DEF FiledAt

LEMMA InsertAddr ==
  ASSUME Base, [Next]_vars, faults' = faults, NEW m \in Mail, Insert(m) \/ InsertRaw(m)
  PROVE  AllAddr'
<1> DEFINE s == session[m]
<1>1. /\ s \in Session /\ PointOK(m, s) /\ StoredOK(m, s, Served(m), Gone, Home)
      /\ AddrOK(m, s, Filed(m), Gone, Home, Lost, Rows)
  BY AddrFacts
<1>2. faults \in Nat /\ session \in [Mail -> Session]
  BY InboundAssumption DEF Base, SessionInv, TypeOK
<1>3. stored \subseteq stored'
  BY DEF Insert, InsertRaw, StoreInbound
<1>4. /\ Gone \subseteq Gone' /\ Home \subseteq Home'
      /\ Lost \subseteq Lost' /\ Rows \subseteq Rows'
      /\ Filed(m) \subseteq Filed(m)'
  BY <1>3, Grow, AddrGrow, NextDirNext DEF Base, SessionInv, TypeOK, DirInv
<1>5. AddrOK(m, s, Filed(m)', Gone', Home', Lost', Rows')
  BY <1>1, <1>4, AddrOKGrows
<1>6. PICK r : /\ session' = [session EXCEPT ![m] = r]
               /\ AddrOK(m, r, Filed(m)', Gone', Home', Lost', Rows')
  <2>1. CASE Insert(m)
    <3>1. s.at = "insert" /\ StoreInbound(m) /\ Goto(m, NextTurn(m)) /\ UNCHANGED dirVars
      BY <1>2, <2>1 DEF Insert, SQLErrors
    <3>2. FiledAt(s, s.pos, Filed(m)') /\ s.at \in LoopSteps
      BY <3>1, InsertFiles DEF LoopSteps
    <3>3. AddrOK(m, NextTurn(m), Filed(m)', Gone', Home', Lost', Rows')
      BY <1>1, <1>5, <3>2, NextTurnAddr
    <3> QED
      BY <3>1, <3>3 DEF Goto
  <2>2. CASE InsertRaw(m)
    <3>1. s.at = "rawinsert" /\ Goto(m, Answer(m, "250"))
      BY <1>2, <2>2 DEF InsertRaw, SQLErrors
    <3>2. m \notin Parseable
      BY <1>1, <3>1 DEF StoredOK
    <3>3. AddrOK(m, Answer(m, "250"), Filed(m)', Gone', Home', Lost', Rows')
      BY <1>1, <1>5, <3>2, AnswerAddr
    <3> QED
      BY <3>1, <3>3 DEF Goto
  <2> QED
    BY <2>1, <2>2
<1>7. session' \in [Mail -> Session]
  BY StepSessionInv DEF Base, SessionInv, TypeOK
<1>8. \A k \in Mail :
        \/ session'[k] = session[k]
        \/ AddrOK(k, session'[k], Filed(k)', Gone', Home', Lost', Rows')
  BY <1>2, <1>6
<1> QED
  BY <1>3, <1>7, <1>8, OthersAddr

LEMMA ConnectOrReplyAddr ==
  ASSUME Base, [Next]_vars, NEW m \in Mail, Connect(m) \/ Reply(m)
  PROVE  AllAddr'
<1> DEFINE s == session[m]
<1>1. s \in Session /\ AddrOK(m, s, Filed(m), Gone, Home, Lost, Rows)
  BY AddrFacts
<1>2. PICK at \in {"rcpt", "done"} : Goto(m, [s EXCEPT !.at = at]) /\ stored' = stored
  BY DEF Connect, Reply
<1> DEFINE r == [s EXCEPT !.at = at]
<1>3. r.at = at /\ r.to = s.to /\ r.reply = s.reply
  BY <1>1 DEF Session
<1>4. Goto(m, r)
  BY <1>2
<1> HIDE DEF r
<1>5. \A k : FiledAt(r, k, Filed(m)) <=> FiledAt(s, k, Filed(m))
  BY <1>3, SameRecipients
<1>6. AddrOK(m, r, Filed(m), Gone, Home, Lost, Rows)
  BY <1>1, <1>2, <1>3, <1>5 DEF AddrOK, LoopSteps
<1> QED
  BY <1>2, <1>4, <1>6, GoesAddr

LEMMA NewSessionAddr ==
  ASSUME NEW m, NEW t, NEW F, NEW G, NEW H, NEW L, NEW R
  PROVE  AddrOK(m, NewSession(t), F, G, H, L, R)
BY DEF AddrOK, NewSession, LoopSteps

LEMMA StepAllAddr ==
  ASSUME Base, [Next]_vars, faults' = faults
  PROVE  AllAddr'
<1>1. CASE UNCHANGED <<session, stored>>
  <2>1. session' \in [Mail -> Session] /\ stored \subseteq stored'
    BY <1>1 DEF Base, SessionInv, TypeOK
  <2> QED
    BY <1>1, <2>1, OthersAddr
<1>2. ASSUME NEW m \in Mail, Connect(m) \/ SessionStep(m) \/ Break(m) PROVE AllAddr'
  <2>1. CASE Break(m)
    BY <2>1, NewSessionAddr, GoesAddr DEF Break
  <2> QED
    BY <1>2, <2>1, ConnectOrReplyAddr, LookupDomainAddr, LookupAddressAddr, CheckAddr,
       InsertAddr DEF SessionStep
<1>3. ASSUME NEW a \in Agent, AgentStep(a) PROVE UNCHANGED <<session, stored>>
  BY <1>3 DEF AgentStep, Poll, Ack
<1>4. CASE DirectoryStep
  BY <1>1, <1>4 DEF DirectoryStep, inVars
<1>5. CASE Restart
  <2>1. session' = [m \in Mail |-> IF session[m].at \in {"new", "done"} THEN session[m]
                                   ELSE NewSession(session[m].try + 1)]
    BY <1>5 DEF Restart
  <2>2. session' \in [Mail -> Session] /\ stored' = stored
    BY <1>5, StepSessionInv DEF Base, SessionInv, TypeOK, Restart
  <2>3. \A m \in Mail :
          \/ session'[m] = session[m]
          \/ AddrOK(m, session'[m], Filed(m)', Gone', Home', Lost', Rows')
    BY <2>1, NewSessionAddr
  <2> QED
    BY <2>2, <2>3, OthersAddr
<1>6. CASE UNCHANGED vars
  BY <1>1, <1>6 DEF vars, inVars
<1> QED
  BY <1>1, <1>2, <1>3, <1>4, <1>5, <1>6 DEF Next

AddressInv == SessionInv /\ RowInv /\ StoredInv /\ AddrInv

LEMMA InitAddressInv == Init => AddressInv
<1> SUFFICES ASSUME Init PROVE AddressInv
  OBVIOUS
<1>1. AddrInv
  BY NewSessionAddr DEF Init, AddrInv, AllAddr
<1> QED
  BY <1>1, InitSessionInv, InitStoredInv, InitDirInit, RowInit DEF AddressInv

LEMMA StepAddressInv == AddressInv /\ [Next]_vars => AddressInv'
<1> SUFFICES ASSUME AddressInv, [Next]_vars PROVE AddressInv'
  OBVIOUS
<1>1. SessionInv' /\ StoredInv'
  BY StepSessionInv, StepStoredInv DEF AddressInv
<1>2. RowInv'
  BY RowStep, NextDirNext DEF AddressInv, SessionInv, TypeOK, DirInv
<1>3. ASSUME faults' = 0 PROVE AllAddr'
  <2>1. faults \in Nat /\ faults <= faults'
    BY InboundAssumption, CountsType DEF AddressInv, SessionInv, TypeOK
  <2>2. faults = 0
    BY <1>3, <2>1
  <2> QED
    BY <1>3, <2>2, StepAllAddr DEF AddressInv, StoredInv, AddrInv, Base
<1> QED
  BY <1>1, <1>2, <1>3 DEF AddressInv, AddrInv

\* Data files a mail under the address that Rcpt saw for the first recipient
\* of each domain, if both are still there, whatever was deleted and created in
\* between, for any recipients.
THEOREM FirstIsAddressed == Spec => []FirstRecipientAddressed
<1>1. AddressInv => FirstRecipientAddressed
  <2> SUFFICES ASSUME AddressInv, faults = 0, NEW m \in Parseable, Confirmed(m),
                      NEW k \in DOMAIN session[m].to, NEW t, t = session[m].to[k],
                      Live(t.dom), \E a \in addresses : a.id = t.addr,
                      \A j \in 1..(k - 1) : NameOf[session[m].to[j].box] # NameOf[t.box]
               PROVE  \E x \in stored : x.mail = m /\ x.dom = t.dom /\ x.addr = t.addr
    BY DEF FirstRecipientAddressed
  <2>1. m \in Mail
    BY InboundAssumption
  <2>2. FiledAt(session[m], k, Filed(m))
    BY <2>1 DEF AddressInv, AddrInv, AllAddr, AddrOK, Confirmed
  <2>3. <<t.dom, t.addr>> \in Filed(m)
    BY <2>2 DEF FiledAt, FirstIn
  <2> DEFINE p == <<t.dom, t.addr>>
  <2>4. p[1] = t.dom /\ p[2] = t.addr /\ p \in Filed(m)
    BY <2>3
  <2> HIDE DEF p
  <2>5. p[2] \notin Lost
    BY <2>4 DEF Lost
  <2> QED
    BY <2>4, <2>5 DEF Filed
<1> QED
  BY InitAddressInv, StepAddressInv, <1>1, PTL DEF Spec

-----------------------------------------------------------------------------
(* AcceptedWasAcceptable.  allowed[m] has what was true when the row of the *)
(* mailbox was found, and what is true now.                                 *)

BoxOf(m) == RcptsOf[m][session[m].pos]

WatchInv ==
  \A m \in Mail : session[m].at \in RcptSteps =>
    /\ Acceptable(BoxOf(m), domain[NameOf[BoxOf(m)]], addresses) \in allowed[m]
    /\ /\ faults = 0 /\ session[m].at = "check"
       /\ session[m].look.addr # None /\ Live(session[m].look.dom)
       => TRUE \in allowed[m]

LEMMA StepWatches == Next => Watch
BY DEF Next, DirectoryStep, Connect, SessionStep, LookupDomain, LookupAddress, Check, Insert,
       InsertRaw, Reply, Break, Restart, AgentStep, Poll, Ack

\* Answers lead to no point within a RCPT command.
LEMMA AnsweredAt ==
  ASSUME NEW m \in Mail, session[m] \in Session
  PROVE  /\ \A to : RcptAnswered(m, to).at # "check" /\ RcptAnswered(m, to).to \in {to, session[m].to}
         /\ NextTurn(m).at # "check"
         /\ \A a : Answer(m, a).at # "check"
         /\ session[m].at \in {"rcpt", "rcptaddr", "store", "storeaddr", "raw"} =>
              /\ Unhandled(m).at # "check"
              /\ session[m].at \in RcptSteps => Unhandled(m).to = session[m].to
<1>1. \A to : RcptAnswered(m, to).at # "check" /\ RcptAnswered(m, to).to \in {to, session[m].to}
  BY DEF RcptAnswered, Session
<1>2. \A a : Answer(m, a).at # "check"
  BY DEF Answer, Session
<1>3. NextTurn(m).at # "check"
  BY <1>2 DEF NextTurn, Session
<1>4. session[m].at \in {"rcpt", "rcptaddr", "store", "storeaddr", "raw"} =>
        \/ session[m].at \in RcptSteps /\ Unhandled(m) = RcptAnswered(m, session[m].to)
        \/ session[m].at \notin RcptSteps /\ Unhandled(m) \in {NextTurn(m), Answer(m, "250")}
  BY DEF Unhandled, RcptSteps
<1> QED
  BY <1>1, <1>2, <1>3, <1>4

\* Only the look-up of the address leads to "check", and only "check" accepts.
LEMMA RcptMoves ==
  ASSUME SessionInv, Next, NEW m \in Mail, session'[m] # session[m]
  PROVE  /\ session'[m].at = "check" =>
              /\ LookupAddress(m) /\ session[m].at = "rcptaddr"
              /\ session'[m].pos = session[m].pos
              /\ session'[m].look.dom = session[m].look.dom
              /\ session'[m].look.addr = RowId(session[m].look.dom, Current(m))
         /\ Accepts(m) => Check(m)
<1> DEFINE s == session[m]
           Claim == /\ session'[m].at = "check" =>
                        /\ LookupAddress(m) /\ s.at = "rcptaddr"
                        /\ session'[m].pos = s.pos
                        /\ session'[m].look.dom = s.look.dom
                        /\ session'[m].look.addr = RowId(s.look.dom, Current(m))
                    /\ Accepts(m) => Check(m)
<1>1. session \in [Mail -> Session] /\ s \in Session
  BY DEF SessionInv, TypeOK
<1>2. ASSUME NEW r, Goto(m, r) PROVE session'[m] = r
  BY <1>1, <1>2 DEF Goto
<1>3. ASSUME LookupDomain(m) PROVE Claim
  <2>1. s.at \in {"rcpt", "store", "raw"}
    BY <1>3 DEF LookupDomain
  <2>2. \/ session'[m] = Unhandled(m)
        \/ /\ session'[m].to = s.to /\ session'[m].at \in {"rcptaddr", "storeaddr", "rawinsert"}
    <3>1. CASE Goto(m, Unhandled(m))
      BY <1>2, <3>1
    <3> DEFINE p == [rcpt |-> "rcptaddr", store |-> "storeaddr", raw |-> "rawinsert"][s.at]
               look == [dom |-> domain[NameOf[Current(m)]], addr |-> None]
    <3>2. CASE Goto(m, [s EXCEPT !.at = p, !.look = look])
      <4>1. p \in {"rcptaddr", "storeaddr", "rawinsert"}
        BY <2>1
      <4>2. session'[m] = [s EXCEPT !.at = p, !.look = look]
        BY <1>2, <3>2
      <4> HIDE DEF p, look
      <4> QED
        BY <1>1, <4>1, <4>2 DEF Session
    <3> QED
      BY <1>3, <3>1, <3>2 DEF LookupDomain
  <2>3. /\ session'[m].at # "check"
        /\ s.at \in RcptSteps => session'[m].to = s.to
    BY <1>1, <2>1, <2>2, AnsweredAt
  <2> QED
    BY <2>3 DEF Accepts
<1>4. ASSUME LookupAddress(m) PROVE Claim
  <2> DEFINE look == [s.look EXCEPT !.addr = RowId(s.look.dom, Current(m))]
  <2>1. s.at \in {"rcptaddr", "storeaddr"}
    BY <1>4 DEF LookupAddress
  <2>2. CASE s.at = "rcptaddr" /\ Goto(m, [s EXCEPT !.at = "check", !.look = look])
    <3>1. session'[m] = [s EXCEPT !.at = "check", !.look = look]
      BY <1>2, <2>2
    <3>2. look.dom = s.look.dom /\ look.addr = RowId(s.look.dom, Current(m))
      BY <1>1 DEF Session
    <3> HIDE DEF look
    <3>3. session'[m].look = look /\ session'[m].pos = s.pos /\ session'[m].to = s.to
      BY <1>1, <3>1 DEF Session
    <3> QED
      BY <1>4, <2>2, <3>2, <3>3 DEF Accepts
  <2>3. CASE Goto(m, Unhandled(m))
    <3>1. session'[m] = Unhandled(m)
      BY <1>2, <2>3
    <3> QED
      BY <1>1, <2>1, <3>1, AnsweredAt DEF Accepts
  <2>4. CASE s.at = "storeaddr" /\ Goto(m, NextTurn(m))
    <3>1. session'[m] = NextTurn(m) /\ s.at \notin RcptSteps
      BY <1>2, <2>4 DEF RcptSteps
    <3> QED
      BY <1>1, <3>1, AnsweredAt DEF Accepts
  <2>5. CASE \E e : s.at = "storeaddr" /\ Goto(m, [s EXCEPT !.at = "insert", !.look = look, !.seen = e])
    <3>1. PICK e : Goto(m, [s EXCEPT !.at = "insert", !.look = look, !.seen = e])
      BY <2>5
    <3>2. session'[m] = [s EXCEPT !.at = "insert", !.look = look, !.seen = e]
      BY <1>2, <3>1
    <3> HIDE DEF look
    <3>3. session'[m].at = "insert" /\ s.at \notin RcptSteps
      BY <1>1, <2>5, <3>2 DEF Session, RcptSteps
    <3> QED
      BY <3>3 DEF Accepts
  <2> QED
    BY <1>4, <2>2, <2>3, <2>4, <2>5 DEF LookupAddress
<1>5. ASSUME Check(m) PROVE Claim
  <2>1. PICK to : Goto(m, RcptAnswered(m, to))
    BY <1>5 DEF Check
  <2>2. session'[m] = RcptAnswered(m, to)
    BY <1>2, <2>1
  <2> QED
    BY <1>1, <1>5, <2>2, AnsweredAt
<1>6. ASSUME Insert(m) \/ InsertRaw(m) PROVE Claim
  <2>1. s.at \notin RcptSteps /\ \E r : Goto(m, r) /\ (r = NextTurn(m) \/ \E a : r = Answer(m, a))
    BY <1>6 DEF Insert, InsertRaw, AfterFailedInsert, RcptSteps
  <2>2. session'[m].at # "check"
    BY <1>1, <1>2, <2>1, AnsweredAt
  <2> QED
    BY <2>1, <2>2 DEF Accepts
<1>7. ASSUME Connect(m) \/ Reply(m) PROVE Claim
  <2>1. /\ s.at \notin RcptSteps
        /\ \E p \in {"rcpt", "done"} : Goto(m, [s EXCEPT !.at = p])
    BY <1>7 DEF Connect, Reply, RcptSteps
  <2>2. PICK p \in {"rcpt", "done"} : session'[m] = [s EXCEPT !.at = p]
    BY <1>2, <2>1
  <2>3. session'[m].at # "check"
    BY <1>1, <2>2 DEF Session
  <2> QED
    BY <2>1, <2>3 DEF Accepts
<1>8. ASSUME session'[m] = NewSession(s.try + 1) PROVE Claim
  <2>1. session'[m].at = "new" /\ session'[m].try = s.try + 1 /\ s.try \in Nat
    BY <1>1, <1>8 DEF NewSession, Session
  <2> QED
    BY <2>1 DEF Accepts
<1>9. ASSUME NEW k \in Mail, k # m, Connect(k) \/ SessionStep(k) \/ Break(k) PROVE FALSE
  <2>1. \E r : Goto(k, r)
    BY <1>9 DEF Connect, SessionStep, LookupDomain, LookupAddress, Check, Insert, InsertRaw,
                Reply, Break
  <2> QED
    BY <1>1, <1>9, <2>1 DEF Goto
<1>10. ASSUME NEW k \in Mail, Connect(k) \/ SessionStep(k) \/ Break(k) PROVE Claim
  <2>1. k = m
    BY <1>9, <1>10
  <2>2. Break(m) => session'[m] = NewSession(s.try + 1)
    BY <1>2 DEF Break
  <2> QED
    BY <1>3, <1>4, <1>5, <1>6, <1>7, <1>8, <1>10, <2>1, <2>2 DEF SessionStep
<1>11. ASSUME Restart PROVE Claim
  BY <1>8, <1>11 DEF Restart
<1>12. ASSUME NEW a \in Agent, AgentStep(a) PROVE session' = session
  BY <1>12 DEF AgentStep, Poll, Ack
<1>13. ASSUME DirectoryStep PROVE session' = session
  BY <1>13 DEF DirectoryStep, inVars
<1>14. Claim
  BY <1>10, <1>11, <1>12, <1>13 DEF Next
<1> QED
  BY <1>14

LEMMA InitWatchInv == Init => WatchInv
BY DEF Init, WatchInv, NewSession, RcptSteps

\* The name of a live domain that session m has looked up is its mailbox's.
LEMMA LookedLive ==
  ASSUME AllOK, NEW m \in Mail, session[m].at \in {"rcptaddr", "check"}, Live(session[m].look.dom)
  PROVE  domain[NameOf[BoxOf(m)]] = session[m].look.dom
<1>1. <<session[m].look.dom, BoxOf(m)>> \in Home
  BY DEF AllOK, StoredOK, Looked, BoxAt, BoxOf, RcptSteps
<1> QED
  BY <1>1 DEF Home, Live

LEMMA StepWatchInv ==
  ASSUME AddressInv, WatchInv, [Next]_vars
  PROVE  WatchInv'
<1>1. CASE UNCHANGED vars
  BY <1>1 DEF WatchInv, BoxOf, Live, vars, inVars, dirVars
<1>2. CASE Next
  <2> SUFFICES ASSUME NEW m \in Mail, session'[m].at \in RcptSteps
               PROVE  /\ (Acceptable(BoxOf(m), domain[NameOf[BoxOf(m)]], addresses) \in allowed[m])'
                      /\ /\ faults' = 0 /\ session'[m].at = "check"
                         /\ session'[m].look.addr # None /\ Live(session[m].look.dom)'
                         => TRUE \in allowed'[m]
    BY DEF WatchInv, Live
  <2>1. /\ (Acceptable(BoxOf(m), domain[NameOf[BoxOf(m)]], addresses) \in allowed[m])'
        /\ session[m].at \in RcptSteps /\ session'[m].pos = session[m].pos =>
             allowed[m] \subseteq allowed'[m]
    BY <1>2, StepWatches DEF Watch, BoxOf, Acceptable
  <2>2. ASSUME faults' = 0, session'[m].at = "check",
               session'[m].look.addr # None, Live(session[m].look.dom)'
        PROVE  TRUE \in allowed'[m]
    <3>1. faults = 0 /\ AllOK
      <4>1. faults \in Nat /\ faults <= faults'
        BY InboundAssumption, CountsType DEF AddressInv, SessionInv, TypeOK
      <4> QED
        BY <2>2, <4>1 DEF AddressInv, StoredInv
    <3>2. CASE session'[m] = session[m]
      <4>1. <<session[m].look.dom, BoxAt(m, session[m])>> \in Home
        BY <2>2, <3>1, <3>2 DEF AllOK, StoredOK, Looked
      <4>2. session[m].look.dom \in 1..issued
        BY <4>1 DEF Home
      <4>3. Live(session[m].look.dom)
        <5>1. /\ issued \in Nat
              /\ \A n \in Name : domain'[n] \in {domain[n], 0, issued + 1}
          BY DomainSteps, NextDirNext DEF AddressInv, SessionInv, TypeOK, DirInv
        <5> QED
          BY <2>2, <3>2, <4>2, <5>1 DEF Live
      <4> QED
        BY <2>1, <2>2, <3>1, <3>2, <4>3 DEF WatchInv, RcptSteps
    <3>3. CASE session'[m] # session[m]
      <4> DEFINE d == session[m].look.dom
                 b == BoxOf(m)
      <4>1. /\ LookupAddress(m) /\ session[m].at = "rcptaddr" /\ session'[m].pos = session[m].pos
            /\ session'[m].look.dom = d
            /\ session'[m].look.addr = RowId(d, Current(m))
        BY <1>2, <2>2, <3>3, RcptMoves DEF AddressInv
      <4>2. UNCHANGED dirVars /\ Current(m) = b
        BY <4>1 DEF LookupAddress, Current, RcptSteps, BoxOf
      <4>3. Live(d)
        BY <2>2, <4>1, <4>2 DEF Live, dirVars
      <4>4. domain[NameOf[b]] = d
        BY <3>1, <4>1, <4>3, LookedLive
      <4>5. \E a \in addresses : a.dom = d /\ a.box = b
        <5>1. /\ DirInv /\ RowInv /\ d \in Nat /\ b \in Box
          BY <4>1, <4>2, BoxOfCurrent
             DEF AddressInv, SessionInv, TypeOK, DirInv, PointInv, Session, RcptSteps
        <5>2. RowId(d, b) # None
          BY <2>2, <4>1, <4>2
        <5> QED
          BY <5>1, <5>2, LookupRow
      <4>6. Acceptable(b, d, addresses)
        BY <4>3, <4>5 DEF Acceptable, Live
      <4>7. BoxOf(m)' = b /\ domain' = domain /\ addresses' = addresses
        BY <4>1, <4>2 DEF BoxOf, dirVars
      <4>8. Acceptable(b, d, addresses) \in allowed'[m]
        BY <2>1, <4>4, <4>7
      <4> QED
        BY <4>6, <4>8 DEF Acceptable
    <3> QED
      BY <3>2, <3>3
  <2> QED
    BY <2>1, <2>2
<1> QED
  BY <1>1, <1>2

\* Whom Rcpt accepts in three statements was acceptable at one moment of them,
\* or the domain is gone, whatever came and went in between.
THEOREM AcceptedWasAcceptableAlways == Spec => AcceptedWasAcceptable
<1> DEFINE Good ==
      \A m \in Mail :
        faults' = 0 /\ Accepts(m) /\ Live(session[m].look.dom) => TRUE \in allowed[m]
<1>1. AddressInv /\ WatchInv /\ [Next]_vars => [Good]_vars
  <2> SUFFICES ASSUME AddressInv, WatchInv, Next, NEW m \in Mail,
                      faults' = 0, Accepts(m), Live(session[m].look.dom)
               PROVE  TRUE \in allowed[m]
    OBVIOUS
  <2> DEFINE s == session[m]
  <2>1. faults \in Nat /\ s \in Session /\ faults <= faults'
    BY InboundAssumption, CountsType DEF AddressInv, SessionInv, TypeOK
  <2>2. faults = 0 /\ AllOK
    BY <2>1 DEF AddressInv, StoredInv
  <2>3. s.at \in RcptSteps /\ session'[m] # s /\ session'[m].to # s.to
    BY DEF Accepts
  <2>4. Check(m) /\ s.at = "check"
    BY <2>3, RcptMoves DEF AddressInv, Check
  <2> DEFINE rcpt == [box |-> Current(m), dom |-> s.look.dom, addr |-> s.look.addr]
  <2>5. PICK has \in BOOLEAN :
          /\ has = HasAddresses(s.look.dom)
          /\ Goto(m, RcptAnswered(m, IF MayAccept(m, has) THEN Append(s.to, rcpt) ELSE s.to))
    BY <2>1, <2>4 DEF Check, SQLErrors
  <2>6. MayAccept(m, has)
    <3>1. ASSUME ~MayAccept(m, has) PROVE FALSE
      <4>1. Goto(m, RcptAnswered(m, s.to))
        BY <2>5, <3>1
      <4>2. session'[m] = RcptAnswered(m, s.to)
        BY <4>1 DEF Goto, AddressInv, SessionInv, TypeOK
      <4> QED
        BY <2>1, <2>3, <4>2, AnsweredAt
    <3> QED
      BY <3>1
  <2>7. CASE s.look.addr # None
    BY <2>2, <2>3, <2>4, <2>7 DEF WatchInv
  <2>8. CASE s.look.addr = None
    <3>1. ~HasAddresses(s.look.dom)
      BY <2>5, <2>6, <2>8 DEF MayAccept
    <3>2. domain[NameOf[BoxOf(m)]] = s.look.dom
      BY <2>2, <2>4, LookedLive
    <3>3. Acceptable(BoxOf(m), s.look.dom, addresses)
      BY <3>1 DEF Acceptable, HasAddresses, Live
    <3>4. Acceptable(BoxOf(m), s.look.dom, addresses) \in allowed[m]
      BY <2>3, <3>2 DEF WatchInv
    <3> QED
      BY <3>3, <3>4 DEF Acceptable
  <2> QED
    BY <2>7, <2>8
<1>2. AcceptedWasAcceptable <=> [][Good]_vars
  BY DEF AcceptedWasAcceptable
<1> QED
  BY InitAddressInv, StepAddressInv, InitWatchInv, StepWatchInv, <1>1, <1>2, PTL DEF Spec
=============================================================================
