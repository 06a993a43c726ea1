---------------------------- MODULE InboundProofs ----------------------------
(***************************************************************************)
(* Theorems about Inbound, for any mail, recipients, agents and bounds.    *)
(*                                                                         *)
(* TryInv relates the rows a session has stored in its current try to what *)
(* it remembers (seen, look, reply); earlier tries have left rows with     *)
(* smaller numbers.                                                        *)
(***************************************************************************)
EXTENDS Inbound, DirectoryProofs

-----------------------------------------------------------------------------
(* The directory under the sessions. *)

LEMMA InitDirInit == Init => DirInit
BY DEF Init

LEMMA NextDirNext == [Next]_vars => [DirNext]_dirVars
<1> SUFFICES ASSUME Next PROVE DirNext \/ UNCHANGED dirVars
  BY DEF vars
<1>1. CASE DirectoryStep
  BY <1>1 DEF DirectoryStep, DirNext
<1>2. CASE Restart
  BY <1>2 DEF Restart, DirNext
<1>3. CASE \E m \in Mail : Connect(m) \/ SessionStep(m) \/ Break(m)
  BY <1>3 DEF Connect, SessionStep, LookupDomain, LookupAddress, Check, Insert,
              InsertRaw, Reply, Break
<1>4. CASE \E a \in Agent : AgentStep(a)
  BY <1>4 DEF AgentStep, Poll, Ack
<1> QED
  BY <1>1, <1>2, <1>3, <1>4 DEF Next

\* Sessions, agents and restarts leave the directory to its handlers, so what
\* holds of Directory holds in Inbound.
THEOREM InboundUsesDirectory == Spec => DirSpec
BY InitDirInit, NextDirNext, PTL DEF Spec, DirSpec

\* OwnDomain, in the system the runs check.
THEOREM InboundOwnDomain == Spec => []OwnDomain
BY InboundUsesDirectory, AddressesKeepTheirDomain, PTL

\* StartsEmpty, in the system the runs check.
THEOREM InboundStartsEmpty == Spec => StartsEmpty
BY InboundUsesDirectory, NewDomainsStartEmpty, PTL

-----------------------------------------------------------------------------
(* The sessions. *)

Looked == {"rcptaddr", "check", "storeaddr", "insert", "rawinsert"}

\* What session s of m may hold at each point, apart from its type.
PointOK(m, s) ==
  /\ s.at \in {"new"} \union RcptSteps => s.pos <= Len(RcptsOf[m])
  /\ s.at \in StoreSteps => s.pos <= Len(s.to)
  /\ s.at \in Looked => s.look.dom # None
  /\ s.at = "insert" => s.look.dom \in s.seen
  /\ s.at \in {"new"} \union RcptSteps \union StoreSteps => s.reply = "none"

\* What a stored row x of its mail says about s: it is from an earlier try, or
\* s is in Data's loop or past it, knows its domain and was not refused.
TryOK(s, x) ==
  /\ x.try <= s.try
  /\ x.try = s.try =>
       /\ s.at \in {"store", "storeaddr", "insert", "reply", "done"}
       /\ s.reply \notin {"554", "refused"}
       /\ s.at \in {"store", "storeaddr", "insert"} => x.dom \in s.seen
       /\ s.at = "insert" => x.dom # s.look.dom

PointInv == \A m \in Mail : PointOK(m, session[m])
TryInv   == \A x \in stored : TryOK(session[x.mail], x)

\* r is a session that m may have after session[m], stored being as it is.
Follows(m, r) ==
  /\ r \in Session
  /\ PointOK(m, r)
  /\ \A x \in Message : TryOK(session[m], x) => TryOK(r, x)

LEMMA RcptAnsweredFollows ==
  ASSUME NEW m \in Mail, NEW to \in Seq(Recipient),
         session[m] \in Session, PointOK(m, session[m]), session[m].at \in RcptSteps
  PROVE  Follows(m, RcptAnswered(m, to))
<1> DEFINE s == session[m]
           r == RcptAnswered(m, to)
<1>1. /\ s.pos \in Nat \ {0} /\ s.try \in Nat \ {0} /\ s.reply = "none"
      /\ RcptsOf[m] \in Seq(Box) /\ Len(RcptsOf[m]) \in Nat /\ Len(to) \in Nat
  BY InboundAssumption DEF Session, PointOK
<1>2. to # <<>> => Len(to) >= 1
  OBVIOUS
<1>3. CASE s.pos < Len(RcptsOf[m])
  <2>1. r = [at |-> "rcpt", pos |-> s.pos + 1, look |-> NotFound, to |-> to,
             seen |-> s.seen, reply |-> s.reply, try |-> s.try]
    BY <1>3 DEF RcptAnswered, Session
  <2>2. /\ r.at = "rcpt" /\ r.pos = s.pos + 1 /\ r.try = s.try /\ r.reply = s.reply
        /\ r \in Session
    BY <2>1, <1>1 DEF Session, NotFound, RcptSteps, StoreSteps, None
  <2> QED
    BY <2>2, <1>1, <1>3 DEF Follows, PointOK, TryOK, RcptSteps, StoreSteps, Looked, Message
<1>4. CASE ~(s.pos < Len(RcptsOf[m])) /\ to = <<>>
  <2>1. r = [at |-> "done", pos |-> s.pos, look |-> NotFound, to |-> s.to,
             seen |-> s.seen, reply |-> "refused", try |-> s.try]
    BY <1>4 DEF RcptAnswered, Session
  <2>2. r.at = "done" /\ r.try = s.try /\ r \in Session
    BY <2>1, <1>1 DEF Session, NotFound, RcptSteps, StoreSteps, None
  <2> QED
    BY <2>2, <1>1 DEF Follows, PointOK, TryOK, RcptSteps, StoreSteps, Looked, Message
<1>5. CASE ~(s.pos < Len(RcptsOf[m])) /\ to # <<>>
  <2>1. r = [at |-> IF m \in Parseable THEN "store" ELSE "raw", pos |-> 1, look |-> NotFound, to |-> to,
             seen |-> s.seen, reply |-> s.reply, try |-> s.try]
    BY <1>5 DEF RcptAnswered, Session
  <2>2. /\ r.at \in {"store", "raw"} /\ r.pos = 1 /\ r.to = to /\ r.try = s.try
        /\ r.reply = s.reply /\ r \in Session
    BY <2>1, <1>1 DEF Session, NotFound, RcptSteps, StoreSteps, None
  <2> QED
    BY <2>2, <1>1, <1>2, <1>5 DEF Follows, PointOK, TryOK, RcptSteps, StoreSteps, Looked, Message
<1> QED
  BY <1>3, <1>4, <1>5

LEMMA AnswerFollows ==
  ASSUME NEW m \in Mail, NEW a \in {"250", "554"},
         session[m] \in Session, PointOK(m, session[m]),
         session[m].at \in {"raw", "rawinsert"} \/ (a = "250" /\ session[m].at \in StoreSteps)
  PROVE  Follows(m, Answer(m, a))
<1> DEFINE s == session[m]
           r == Answer(m, a)
<1>1. /\ r.at = "reply" /\ r.reply = a /\ r.try = s.try
      /\ r \in Session
  BY DEF Answer, Session, NotFound, RcptSteps, StoreSteps, None
<1> QED
  BY <1>1 DEF Follows, PointOK, TryOK, RcptSteps, StoreSteps, Looked, Message, Session

LEMMA NextTurnFollows ==
  ASSUME NEW m \in Mail, session[m] \in Session, PointOK(m, session[m]),
         session[m].at \in {"store", "storeaddr", "insert"}
  PROVE  /\ Follows(m, NextTurn(m))
         /\ NextTurn(m).try = session[m].try
         /\ NextTurn(m).seen = session[m].seen
         /\ NextTurn(m).at \in {"store", "reply"}
         /\ NextTurn(m).reply \in {"none", "250"}
<1> DEFINE s == session[m]
           r == NextTurn(m)
<1>1. s.at \in StoreSteps
  BY DEF StoreSteps
<1>2. CASE s.pos = Len(s.to)
  <2>1. r = Answer(m, "250")
    BY <1>2 DEF NextTurn
  <2>2. r.try = s.try /\ r.seen = s.seen /\ r.at = "reply" /\ r.reply = "250"
    BY <2>1 DEF Answer, Session
  <2> QED
    BY <2>1, <2>2, <1>1, AnswerFollows
<1>3. CASE s.pos # Len(s.to)
  <2>1. r = [at |-> "store", pos |-> s.pos + 1, look |-> NotFound, to |-> s.to,
             seen |-> s.seen, reply |-> s.reply, try |-> s.try]
    BY <1>3 DEF NextTurn, Session
  <2>2. s.pos \in Nat \ {0} /\ s.to \in Seq(Recipient) /\ Len(s.to) \in Nat /\ s.pos <= Len(s.to)
    BY <1>1 DEF Session, PointOK
  <2>3. /\ r.at = "store" /\ r.pos = s.pos + 1 /\ r.to = s.to /\ r.try = s.try
        /\ r.seen = s.seen /\ r.reply = s.reply
        /\ r \in Session
    BY <2>1, <2>2 DEF Session, NotFound, RcptSteps, StoreSteps, None
  <2>4. s.reply = "none"
    BY <1>1 DEF PointOK
  <2> QED
    BY <2>2, <2>3, <2>4, <1>3 DEF Follows, PointOK, TryOK, RcptSteps, StoreSteps, Looked, Message
<1> QED
  BY <1>2, <1>3

LEMMA UnhandledFollows ==
  ASSUME NEW m \in Mail, session[m] \in Session, PointOK(m, session[m]),
         session[m].at \in RcptSteps \union {"store", "storeaddr", "raw"}
  PROVE  Follows(m, Unhandled(m))
<1>1. CASE session[m].at \in RcptSteps
  <2>1. Unhandled(m) = RcptAnswered(m, session[m].to)
    BY <1>1 DEF Unhandled, RcptSteps
  <2>2. session[m].to \in Seq(Recipient)
    BY DEF Session
  <2> QED
    BY <1>1, <2>1, <2>2, RcptAnsweredFollows
<1>2. CASE session[m].at \in {"store", "storeaddr"}
  <2>1. Unhandled(m) = NextTurn(m)
    BY <1>2 DEF Unhandled, RcptSteps
  <2> QED
    BY <1>2, <2>1, NextTurnFollows
<1>3. CASE session[m].at = "raw"
  <2>1. Unhandled(m) = Answer(m, "250")
    BY <1>3 DEF Unhandled, RcptSteps
  <2> QED
    BY <1>3, <2>1, AnswerFollows
<1> QED
  BY <1>1, <1>2, <1>3

LEMMA BoxOfCurrent ==
  ASSUME NEW m \in Mail, session[m] \in Session, PointOK(m, session[m]),
         session[m].at \in RcptSteps \union StoreSteps
  PROVE  Current(m) \in Box
<1>1. session[m].pos \in Nat \ {0} /\ session[m].to \in Seq(Recipient)
  BY DEF Session
<1>2. RcptsOf[m] \in Seq(Box)
  BY InboundAssumption
<1>3. CASE session[m].at \in RcptSteps
  <2>1. session[m].pos \in 1..Len(RcptsOf[m])
    BY <1>1, <1>2, <1>3 DEF PointOK
  <2> QED
    BY <1>2, <1>3, <2>1 DEF Current
<1>4. CASE session[m].at \notin RcptSteps
  <2>1. session[m].pos \in 1..Len(session[m].to)
    BY <1>1, <1>4 DEF PointOK
  <2>2. session[m].to[session[m].pos] \in Recipient
    BY <1>1, <2>1
  <2> QED
    BY <1>4, <2>2 DEF Current, Recipient
<1> QED
  BY <1>3, <1>4

LEMMA RowIdType ==
  ASSUME NEW d, NEW b, DirTypeOK
  PROVE  RowId(d, b) \in Nat
<1>1. CASE RowsOf(d, b) = {}
  BY <1>1 DEF RowId, None
<1>2. CASE RowsOf(d, b) # {}
  <2>1. (CHOOSE a \in RowsOf(d, b) : TRUE) \in RowsOf(d, b)
    BY <1>2
  <2>2. RowsOf(d, b) \subseteq Address
    BY DEF RowsOf, DirTypeOK
  <2> QED
    BY <1>2, <2>1, <2>2 DEF RowId, Address
<1> QED
  BY <1>1, <1>2

LEMMA NewSessionFollows ==
  ASSUME NEW m \in Mail, session[m] \in Session
  PROVE  Follows(m, NewSession(session[m].try + 1))
<1>1. session[m].try \in Nat \ {0}
  BY DEF Session
<1>2. RcptsOf[m] \in Seq(Box) /\ RcptsOf[m] # <<>>
  BY InboundAssumption
<1>3. Len(RcptsOf[m]) \in Nat /\ 1 <= Len(RcptsOf[m])
  BY <1>2
<1>4. NewSession(session[m].try + 1) \in Session
  BY <1>1 DEF NewSession, Session, NotFound, None
<1> QED
  BY <1>1, <1>3, <1>4
     DEF Follows, NewSession, PointOK, TryOK, RcptSteps, StoreSteps, Looked, Message

-----------------------------------------------------------------------------
(* The invariant. *)

SessionInv ==
  /\ TypeOK
  /\ IdInv
  /\ PointInv
  /\ TryInv
  /\ OneCopyPerTry

\* What a step leaves to show about sessions and rows.
SessionParts ==
  /\ session \in [Mail -> Session]
  /\ stored \subseteq Message
  /\ PointInv
  /\ TryInv
  /\ OneCopyPerTry

\* Sessions move on and nothing is stored.
LEMMA SessionsMove ==
  ASSUME SessionParts, stored' = stored, session' \in [Mail -> Session],
         \A m \in Mail : session'[m] = session[m] \/ Follows(m, session'[m])
  PROVE  SessionParts'
<1>1. PointInv'
  BY DEF SessionParts, PointInv, Follows
<1>2. TryInv'
  BY DEF SessionParts, TryInv, Follows, Message
<1>3. OneCopyPerTry'
  BY DEF SessionParts, OneCopyPerTry
<1> QED
  BY <1>1, <1>2, <1>3 DEF SessionParts

\* The same for one session.
LEMMA SessionMoves ==
  ASSUME SessionParts, stored' = stored, NEW m \in Mail, NEW r, Follows(m, r), Goto(m, r)
  PROVE  SessionParts'
<1>1. session' = [session EXCEPT ![m] = r] /\ r \in Session /\ session \in [Mail -> Session]
  BY DEF Goto, Follows, SessionParts
<1>2. /\ session' \in [Mail -> Session]
      /\ \A k \in Mail : session'[k] = session[k] \/ Follows(k, session'[k])
  BY <1>1
<1> QED
  BY <1>2, SessionsMove

\* A session stores a row of its current try, under a domain it has no row of
\* that try for yet, and moves on to r.
LEMMA SessionStores ==
  ASSUME SessionParts, NEW m \in Mail, NEW r, Follows(m, r), Goto(m, r),
         NEW row \in Message, row.mail = m, row.try = session[m].try,
         TryOK(r, row), stored' = stored \union {row},
         \A x \in stored : x.mail = m /\ x.try = session[m].try => x.dom # row.dom
  PROVE  SessionParts'
<1>1. session' = [session EXCEPT ![m] = r] /\ r \in Session /\ session \in [Mail -> Session]
  BY DEF Goto, Follows, SessionParts
<1>2. /\ session' \in [Mail -> Session]
      /\ \A k \in Mail : session'[k] = session[k] \/ Follows(k, session'[k])
      /\ session'[m] = r
  BY <1>1
<1>3. PointInv'
  BY <1>2 DEF SessionParts, PointInv, Follows
<1>4. TryInv'
  BY <1>2 DEF SessionParts, TryInv, Follows, Message
<1>5. OneCopyPerTry'
  BY DEF SessionParts, OneCopyPerTry
<1>6. stored' \subseteq Message
  BY DEF SessionParts
<1> QED
  BY <1>2, <1>3, <1>4, <1>5, <1>6 DEF SessionParts

\* Goto's argument where a lookup has found something.
LEMMA LookedFollows ==
  ASSUME NEW m \in Mail, session[m] \in Session, PointOK(m, session[m]),
         NEW d \in Nat \ {None}, NEW a \in Nat, NEW p, NEW e,
         \/ session[m].at = "rcpt" /\ p = "rcptaddr" /\ e = session[m].seen
         \/ session[m].at = "store" /\ p = "storeaddr" /\ e = session[m].seen
         \/ session[m].at = "raw" /\ p = "rawinsert" /\ e = session[m].seen
         \/ session[m].at = "rcptaddr" /\ p = "check" /\ e = session[m].seen
         \/ /\ session[m].at = "storeaddr" /\ p = "insert"
            /\ e = session[m].seen \union {d} /\ d \notin session[m].seen
  PROVE  Follows(m, [session[m] EXCEPT !.at = p, !.look = [dom |-> d, addr |-> a], !.seen = e])
<1> DEFINE s == session[m]
           look == [dom |-> d, addr |-> a]
           r == [s EXCEPT !.at = p, !.look = look, !.seen = e]
<1>1. /\ r.at = p /\ r.pos = s.pos /\ r.look = look /\ r.to = s.to
      /\ r.seen = e /\ r.reply = s.reply /\ r.try = s.try
  BY DEF Session
<1>2. /\ look \in [dom : Nat, addr : Nat]
      /\ look.dom = d
  BY DEF None
<1>3. e \in SUBSET (Nat \ {None})
  BY DEF Session
<1>4. p \in RcptSteps \union StoreSteps
  BY DEF RcptSteps, StoreSteps
<1>5. r \in Session
  BY <1>2, <1>3, <1>4 DEF Session
<1> HIDE DEF r, look
<1>6. PointOK(m, r)
  BY <1>1, <1>2 DEF PointOK, RcptSteps, StoreSteps, Looked
<1>7. ASSUME NEW x \in Message, TryOK(s, x) PROVE TryOK(r, x)
  BY <1>1, <1>2, <1>7 DEF TryOK, PointOK, RcptSteps, StoreSteps, Looked
<1>8. Follows(m, r)
  BY <1>5, <1>6, <1>7 DEF Follows
<1> QED
  BY <1>8 DEF r, look

LEMMA LookupDomainParts ==
  ASSUME SessionParts, DirTypeOK, NEW m \in Mail, LookupDomain(m)
  PROVE  SessionParts'
<1> DEFINE s == session[m]
           d == domain[NameOf[Current(m)]]
           p == [rcpt |-> "rcptaddr", store |-> "storeaddr", raw |-> "rawinsert"][s.at]
<1>1. s \in Session /\ PointOK(m, s)
  BY DEF SessionParts, PointInv
<1>2. s.at \in {"rcpt", "store", "raw"} /\ stored' = stored
  BY DEF LookupDomain
<1>3. CASE Goto(m, Unhandled(m))
  <2>1. s.at \in RcptSteps \union {"store", "storeaddr", "raw"}
    BY <1>2 DEF RcptSteps
  <2> QED
    BY <1>1, <1>2, <1>3, <2>1, UnhandledFollows, SessionMoves
<1>4. CASE /\ d # None
           /\ Goto(m, [s EXCEPT !.at = p, !.look = [dom |-> d, addr |-> None]])
  <2>1. Current(m) \in Box
    BY <1>1, <1>2, BoxOfCurrent DEF RcptSteps, StoreSteps
  <2>2. d \in Nat \ {None}
    BY <1>4, <2>1, DirectoryAssumption DEF DirTypeOK
  <2>3. /\ s.at = "rcpt" => p = "rcptaddr"
        /\ s.at = "store" => p = "storeaddr"
        /\ s.at = "raw" => p = "rawinsert"
    OBVIOUS
  <2>4. [s EXCEPT !.at = p, !.look = [dom |-> d, addr |-> None]] =
        [s EXCEPT !.at = p, !.look = [dom |-> d, addr |-> None], !.seen = s.seen]
    BY <1>1 DEF Session
  <2>5. None \in Nat
    BY DEF None
  <2> HIDE DEF d, p
  <2>6. Follows(m, [s EXCEPT !.at = p, !.look = [dom |-> d, addr |-> None], !.seen = s.seen])
    BY <1>1, <1>2, <2>2, <2>3, <2>5, LookedFollows
  <2> QED
    BY <1>2, <1>4, <2>4, <2>6, SessionMoves
<1> QED
  BY <1>3, <1>4 DEF LookupDomain, Handled

LEMMA LookupAddressParts ==
  ASSUME SessionParts, DirTypeOK, NEW m \in Mail, LookupAddress(m)
  PROVE  SessionParts'
<1> DEFINE s == session[m]
           d == s.look.dom
           i == RowId(d, Current(m))
           look == [dom |-> d, addr |-> i]
<1>1. s \in Session /\ PointOK(m, s)
  BY DEF SessionParts, PointInv
<1>2. s.at \in {"rcptaddr", "storeaddr"} /\ stored' = stored
  BY DEF LookupAddress
<1>3. d \in Nat \ {None} /\ i \in Nat
  BY <1>1, <1>2, RowIdType DEF PointOK, Looked, Session
<1>4. [s.look EXCEPT !.addr = i] = look
  BY <1>1 DEF Session
<1>5. CASE Goto(m, Unhandled(m))
  <2>1. s.at \in RcptSteps \union {"store", "storeaddr", "raw"}
    BY <1>2 DEF RcptSteps
  <2> QED
    BY <1>1, <1>2, <1>5, <2>1, UnhandledFollows, SessionMoves
<1>6. CASE s.at = "storeaddr" /\ Goto(m, NextTurn(m))
  BY <1>1, <1>2, <1>6, NextTurnFollows, SessionMoves
<1>7. CASE s.at = "rcptaddr" /\ Goto(m, [s EXCEPT !.at = "check", !.look = look])
  <2>1. [s EXCEPT !.at = "check", !.look = look] =
        [s EXCEPT !.at = "check", !.look = look, !.seen = s.seen]
    BY <1>1 DEF Session
  <2> HIDE DEF i, d
  <2>2. Follows(m, [s EXCEPT !.at = "check", !.look = look, !.seen = s.seen])
    BY <1>1, <1>3, <1>7, LookedFollows
  <2> QED
    BY <1>2, <1>7, <2>1, <2>2, SessionMoves
<1>8. CASE /\ s.at = "storeaddr" /\ d \notin s.seen
           /\ Goto(m, [s EXCEPT !.at = "insert", !.look = look, !.seen = s.seen \union {d}])
  <2> HIDE DEF i, d
  <2>1. Follows(m, [s EXCEPT !.at = "insert", !.look = look, !.seen = s.seen \union {d}])
    BY <1>1, <1>3, <1>8, LookedFollows
  <2> QED
    BY <1>2, <1>8, <2>1, SessionMoves
<1> QED
  BY <1>4, <1>5, <1>6, <1>7, <1>8 DEF LookupAddress, Seen

LEMMA CheckParts ==
  ASSUME SessionParts, NEW m \in Mail, Check(m)
  PROVE  SessionParts'
<1> DEFINE s == session[m]
           rcpt == [box |-> Current(m), dom |-> s.look.dom, addr |-> s.look.addr]
<1>1. s \in Session /\ PointOK(m, s)
  BY DEF SessionParts, PointInv
<1>2. s.at = "check" /\ s.at \in RcptSteps /\ stored' = stored
  BY DEF Check, RcptSteps
<1>3. rcpt \in Recipient
  BY <1>1, <1>2, BoxOfCurrent DEF PointOK, Looked, Session, Recipient
<1>4. s.to \in Seq(Recipient)
  BY <1>1 DEF Session
<1>5. PICK to \in {s.to, Append(s.to, rcpt)} : Goto(m, RcptAnswered(m, to))
  BY DEF Check
<1>6. to \in Seq(Recipient)
  BY <1>3, <1>4
<1> QED
  BY <1>1, <1>2, <1>5, <1>6, RcptAnsweredFollows, SessionMoves

\* The row that StoreInbound inserts.
LEMMA StoredRow ==
  ASSUME SessionParts, NEW m \in Mail, session[m].at \in {"insert", "rawinsert"}, StoreInbound(m)
  PROVE  \E row \in Message :
           /\ stored' = stored \union {row}
           /\ row.mail = m
           /\ row.try = session[m].try
           /\ row.dom = session[m].look.dom
<1> DEFINE s == session[m]
           row == [mail |-> m, try |-> s.try, box |-> Current(m), dom |-> s.look.dom,
                   addr |-> AddressOf(m)]
<1>1. s \in Session /\ PointOK(m, s)
  BY DEF SessionParts, PointInv
<1>2. Current(m) \in Box
  BY <1>1, BoxOfCurrent DEF StoreSteps
<1>3. /\ s.look.dom \in Nat \ {None}
      /\ AddressOf(m) \in Nat
      /\ s.try \in Nat \ {0}
  BY <1>1 DEF PointOK, Looked, Session, AddressOf
<1>4. row \in Message
  BY <1>2, <1>3 DEF Message
<1> QED
  BY <1>4 DEF StoreInbound

LEMMA InsertParts ==
  ASSUME SessionParts, NEW m \in Mail, Insert(m)
  PROVE  SessionParts'
<1> DEFINE s == session[m]
           r == NextTurn(m)
<1>1. s \in Session /\ PointOK(m, s)
  BY DEF SessionParts, PointInv
<1>2. s.at = "insert" /\ Goto(m, r)
  BY DEF Insert, AfterFailedInsert
<1>3. /\ Follows(m, r) /\ r.try = s.try /\ r.seen = s.seen
      /\ r.at \in {"store", "reply"} /\ r.reply \in {"none", "250"}
  BY <1>1, <1>2, NextTurnFollows
<1>4. CASE stored' = stored
  BY <1>2, <1>3, <1>4, SessionMoves
<1>5. CASE StoreInbound(m)
  <2>1. PICK row \in Message :
          /\ stored' = stored \union {row}
          /\ row.mail = m /\ row.try = s.try /\ row.dom = s.look.dom
    BY <1>2, <1>5, StoredRow
  <2>2. s.look.dom \in s.seen /\ s.try \in Nat
    BY <1>1, <1>2 DEF PointOK, Session
  <2>3. TryOK(r, row)
    BY <1>3, <2>1, <2>2 DEF TryOK
  <2>4. \A x \in stored : x.mail = m /\ x.try = s.try => x.dom # row.dom
    BY <1>2, <2>1 DEF SessionParts, TryInv, TryOK
  <2> HIDE DEF r
  <2> QED
    BY <1>2, <1>3, <2>1, <2>3, <2>4, SessionStores
<1> QED
  BY <1>4, <1>5 DEF Insert

LEMMA InsertRawParts ==
  ASSUME SessionParts, NEW m \in Mail, InsertRaw(m)
  PROVE  SessionParts'
<1> DEFINE s == session[m]
<1>1. s \in Session /\ PointOK(m, s)
  BY DEF SessionParts, PointInv
<1>2. s.at = "rawinsert"
  BY DEF InsertRaw
<1>3. CASE stored' = stored /\ Goto(m, Answer(m, "554"))
  <2>1. Follows(m, Answer(m, "554"))
    BY <1>1, <1>2, AnswerFollows
  <2> QED
    BY <1>3, <2>1, SessionMoves
<1>4. CASE StoreInbound(m) /\ Goto(m, Answer(m, "250"))
  <2> DEFINE r == Answer(m, "250")
  <2>1. Follows(m, r)
    BY <1>1, <1>2, AnswerFollows
  <2>2. PICK row \in Message :
          /\ stored' = stored \union {row}
          /\ row.mail = m /\ row.try = s.try
    BY <1>2, <1>4, StoredRow
  <2>3. r.try = s.try /\ r.at = "reply" /\ r.reply = "250" /\ s.try \in Nat
    BY <1>1 DEF Answer, Session
  <2>4. TryOK(r, row)
    BY <2>2, <2>3 DEF TryOK
  <2>5. \A x \in stored : x.mail = m => x.try # s.try
    BY <1>2 DEF SessionParts, TryInv, TryOK
  <2> HIDE DEF r
  <2> QED
    BY <1>4, <2>1, <2>2, <2>4, <2>5, SessionStores DEF r
<1> QED
  BY <1>3, <1>4 DEF InsertRaw

LEMMA ConnectParts ==
  ASSUME SessionParts, NEW m \in Mail, Connect(m)
  PROVE  SessionParts'
<1> DEFINE s == session[m]
           r == [s EXCEPT !.at = "rcpt"]
<1>1. s \in Session /\ PointOK(m, s) /\ s.at = "new" /\ stored' = stored
  BY DEF SessionParts, PointInv, Connect
<1>2. /\ r.at = "rcpt" /\ r.pos = s.pos /\ r.try = s.try /\ r.reply = s.reply
      /\ r \in Session
  BY <1>1 DEF Session, RcptSteps
<1>3. Follows(m, r)
  BY <1>1, <1>2 DEF Follows, PointOK, TryOK, RcptSteps, StoreSteps, Looked
<1> QED
  BY <1>1, <1>3, SessionMoves DEF Connect

LEMMA ReplyParts ==
  ASSUME SessionParts, NEW m \in Mail, Reply(m)
  PROVE  SessionParts'
<1> DEFINE s == session[m]
           r == [s EXCEPT !.at = "done"]
<1>1. s \in Session /\ PointOK(m, s) /\ s.at = "reply" /\ stored' = stored
  BY DEF SessionParts, PointInv, Reply
<1>2. r.at = "done" /\ r.try = s.try /\ r.reply = s.reply /\ r \in Session
  BY <1>1 DEF Session
<1>3. Follows(m, r)
  BY <1>1, <1>2 DEF Follows, PointOK, TryOK, RcptSteps, StoreSteps, Looked
<1> QED
  BY <1>1, <1>3, SessionMoves DEF Reply

LEMMA BreakParts ==
  ASSUME SessionParts, NEW m \in Mail, Break(m)
  PROVE  SessionParts'
<1>1. session[m] \in Session /\ stored' = stored
  BY DEF SessionParts, Break
<1> QED
  BY <1>1, NewSessionFollows, SessionMoves DEF Break

LEMMA RestartParts == SessionParts /\ Restart => SessionParts'
<1> SUFFICES ASSUME SessionParts, Restart PROVE SessionParts'
  OBVIOUS
<1>1. \A m \in Mail : session[m] \in Session /\ Follows(m, NewSession(session[m].try + 1))
  BY NewSessionFollows DEF SessionParts
<1>2. session' = [m \in Mail |-> IF session[m].at \in {"new", "done"} THEN session[m]
                                 ELSE NewSession(session[m].try + 1)]
  BY DEF Restart
<1>3. /\ session' \in [Mail -> Session]
      /\ \A m \in Mail : session'[m] = session[m] \/ Follows(m, session'[m])
  BY <1>1, <1>2 DEF Follows
<1>4. stored' = stored
  BY DEF Restart
<1> QED
  BY <1>3, <1>4, SessionsMove

LEMMA StepParts == SessionParts /\ DirTypeOK /\ [Next]_vars => SessionParts'
<1> SUFFICES ASSUME SessionParts, DirTypeOK, [Next]_vars PROVE SessionParts'
  OBVIOUS
<1>1. CASE UNCHANGED <<session, stored>>
  BY <1>1 DEF SessionParts, PointInv, TryInv, OneCopyPerTry
<1>2. ASSUME NEW m \in Mail, Connect(m) \/ SessionStep(m) \/ Break(m) PROVE SessionParts'
  BY <1>2, ConnectParts, LookupDomainParts, LookupAddressParts, CheckParts, InsertParts,
     InsertRawParts, ReplyParts, BreakParts DEF SessionStep
<1>3. ASSUME NEW a \in Agent, AgentStep(a) PROVE UNCHANGED <<session, stored>>
  BY <1>3 DEF AgentStep, Poll, Ack
<1>4. CASE DirectoryStep
  BY <1>1, <1>4 DEF DirectoryStep, inVars
<1>5. CASE Restart
  BY <1>5, RestartParts
<1>6. CASE UNCHANGED vars
  BY <1>1, <1>6 DEF vars, inVars
<1> QED
  BY <1>1, <1>2, <1>3, <1>4, <1>5, <1>6 DEF Next

\* stored grows; acked and held stay within it.
LEMMA AgentsType ==
  ASSUME TypeOK, [Next]_vars
  PROVE  /\ acked' \subseteq stored'
         /\ held' \in [Agent -> SUBSET stored']
<1> DEFINE Fixed == stored' = stored /\ acked' = acked /\ held' = held
<1>1. acked \subseteq stored /\ held \in [Agent -> SUBSET stored]
  BY DEF TypeOK
<1>2. CASE Fixed
  <2>1. acked' \subseteq stored' /\ SUBSET stored = SUBSET stored'
    BY <1>1, <1>2
  <2> QED
    BY <1>1, <1>2, <2>1
<1>3. ASSUME NEW m \in Mail, Insert(m) \/ InsertRaw(m) PROVE stored \subseteq stored' /\ UNCHANGED <<acked, held>>
  BY <1>3 DEF Insert, InsertRaw, StoreInbound
<1>4. ASSUME NEW m \in Mail,
             \/ Connect(m) \/ LookupDomain(m) \/ LookupAddress(m)
             \/ Check(m) \/ Reply(m) \/ Break(m)
      PROVE  Fixed
  BY <1>4 DEF Connect, LookupDomain, LookupAddress, Check, Reply, Break
<1>5. ASSUME DirectoryStep \/ Restart \/ UNCHANGED vars PROVE Fixed
  BY <1>5 DEF DirectoryStep, Restart, vars, inVars
<1>6. ASSUME NEW a \in Agent, Poll(a)
      PROVE  /\ UNCHANGED <<stored, acked>>
             /\ held' \in [Agent -> SUBSET stored]
  <2>1. PICK b \in SUBSET Matching(a) : held' = [held EXCEPT ![a] = b]
    BY <1>6 DEF Poll
  <2>2. Matching(a) \subseteq stored
    BY DEF Matching, Unread
  <2> QED
    BY <1>1, <1>6, <2>1, <2>2 DEF Poll
<1>7. ASSUME NEW a \in Agent, NEW x \in held[a], Ack(a, x)
      PROVE  /\ UNCHANGED stored
             /\ acked' \subseteq stored
             /\ held' \in [Agent -> SUBSET stored]
  <2>1. x \in stored
    BY <1>1
  <2>2. acked' \subseteq acked \union {x}
    BY <1>7 DEF Ack
  <2>3. held' = [held EXCEPT ![a] = @ \ {x}] /\ stored' = stored
    BY <1>7 DEF Ack
  <2> QED
    BY <1>1, <2>1, <2>2, <2>3
<1> HIDE DEF Fixed
<1>8. ASSUME NEW m \in Mail, SessionStep(m)
      PROVE  Fixed \/ (stored \subseteq stored' /\ UNCHANGED <<acked, held>>)
  BY <1>3, <1>4, <1>8 DEF SessionStep
<1>9. CASE stored \subseteq stored' /\ UNCHANGED <<acked, held>>
  <2>1. SUBSET stored \subseteq SUBSET stored'
    BY <1>9
  <2> QED
    BY <1>1, <1>9, <2>1
<1>10. CASE UNCHANGED stored /\ acked' \subseteq stored /\ held' \in [Agent -> SUBSET stored]
  BY <1>10
<1>11. \/ Fixed
       \/ stored \subseteq stored' /\ UNCHANGED <<acked, held>>
       \/ UNCHANGED stored /\ acked' \subseteq stored /\ held' \in [Agent -> SUBSET stored]
  <2>1. CASE \E m \in Mail : Connect(m) \/ SessionStep(m) \/ Break(m)
    BY <1>4, <1>8, <2>1
  <2>2. CASE \E a \in Agent : AgentStep(a)
    <3>1. PICK a \in Agent : Poll(a) \/ \E x \in held[a] : Ack(a, x)
      BY <2>2 DEF AgentStep
    <3>2. CASE Poll(a)
      BY <1>1, <1>6, <3>2
    <3>3. CASE \E x \in held[a] : Ack(a, x)
      BY <1>7, <3>3
    <3> QED
      BY <3>1, <3>2, <3>3
  <2> QED
    BY <1>5, <2>1, <2>2 DEF Next
<1> QED
  BY <1>2, <1>9, <1>10, <1>11

LEMMA WatchType ==
  ASSUME Watch, allowed \in [Mail -> SUBSET BOOLEAN]
  PROVE  allowed' \in [Mail -> SUBSET BOOLEAN]
<1>1. ASSUME NEW b, NEW d, NEW rows PROVE Acceptable(b, d, rows) \in BOOLEAN
  BY DEF Acceptable
<1> QED
  BY <1>1 DEF Watch

LEMMA CountsType ==
  ASSUME TypeOK, [Next]_vars
  PROVE  breaks' \in 0..MaxBreaks /\ faults' \in 0..MaxFaults /\ faults <= faults'
<1> USE InboundAssumption DEF TypeOK, SQLErrors
<1>1. ASSUME NEW m \in Mail, SessionStep(m)
      PROVE  breaks' = breaks /\ faults' \in faults..MaxFaults
  BY <1>1 DEF SessionStep, LookupDomain, LookupAddress, Check, Insert, InsertRaw, Reply
<1>2. ASSUME NEW m \in Mail, Connect(m) \/ Break(m)
      PROVE  breaks' \in breaks..MaxBreaks /\ faults' = faults
  BY <1>2 DEF Connect, Break
<1>3. ASSUME NEW a \in Agent, AgentStep(a)
      PROVE  breaks' = breaks /\ faults' \in faults..MaxFaults
  BY <1>3 DEF AgentStep, Poll, Ack
<1>4. CASE DirectoryStep \/ Restart \/ UNCHANGED vars
  BY <1>4 DEF DirectoryStep, Restart, vars, inVars
<1>5. CASE \E m \in Mail : Connect(m) \/ SessionStep(m) \/ Break(m)
  BY <1>1, <1>2, <1>5
<1>6. CASE \E a \in Agent : AgentStep(a)
  BY <1>3, <1>6
<1> QED
  BY <1>4, <1>5, <1>6 DEF Next

LEMMA AllowedType ==
  ASSUME TypeOK, [Next]_vars
  PROVE  allowed' \in [Mail -> SUBSET BOOLEAN]
<1>1. Watch \/ allowed' = allowed
  BY DEF Next, DirectoryStep, Connect, SessionStep, LookupDomain, LookupAddress, Check, Insert,
         InsertRaw, Reply, Break, Restart, AgentStep, Poll, Ack, vars
<1> QED
  BY <1>1, WatchType DEF TypeOK

LEMMA InitSessionInv == Init => SessionInv
<1> SUFFICES ASSUME Init PROVE SessionInv
  OBVIOUS
<1>1. DirTypeOK /\ IdInv
  BY DirInitInv DEF Init, DirInv
<1>2. NewSession(1) \in Session
  BY DEF NewSession, Session, NotFound, None
<1>3. session \in [Mail -> Session]
  BY <1>2 DEF Init
<1>4. TypeOK
  BY <1>1, <1>3, InboundAssumption DEF Init, TypeOK
<1>5. ASSUME NEW m \in Mail PROVE PointOK(m, NewSession(1))
  <2>1. RcptsOf[m] \in Seq(Box) /\ RcptsOf[m] # <<>>
    BY InboundAssumption
  <2>2. 1 <= Len(RcptsOf[m])
    BY <2>1
  <2> QED
    BY <2>2 DEF PointOK, NewSession, RcptSteps, StoreSteps, Looked
<1>6. PointInv
  BY <1>5 DEF Init, PointInv
<1>7. TryInv /\ OneCopyPerTry
  BY DEF Init, TryInv, OneCopyPerTry
<1> QED
  BY <1>1, <1>4, <1>6, <1>7 DEF SessionInv

LEMMA StepSessionInv == SessionInv /\ [Next]_vars => SessionInv'
<1> SUFFICES ASSUME SessionInv, [Next]_vars PROVE SessionInv'
  OBVIOUS
<1>1. TypeOK /\ DirTypeOK
  BY DEF SessionInv, TypeOK
<1>2. (DirTypeOK /\ IdInv)'
  BY <1>1, NextDirNext, DirStepInv DEF SessionInv, DirInv
<1>3. SessionParts'
  BY <1>1, StepParts DEF SessionInv, SessionParts, TypeOK
<1>4. TypeOK'
  BY <1>1, <1>2, <1>3, AgentsType, CountsType, AllowedType DEF TypeOK, SessionParts
<1> QED
  BY <1>2, <1>3, <1>4 DEF SessionInv, SessionParts

\* A session never gets past what it remembers: no lookup of a recipient that
\* is not there, no row under the id 0 of a domain that was not found.
THEOREM InboundTypes == Spec => []TypeOK
<1>1. SessionInv => TypeOK
  BY DEF SessionInv
<1> QED
  BY InitSessionInv, StepSessionInv, <1>1, PTL DEF Spec

\* However many mailboxes of a domain a mail is for, and whatever fails or
\* breaks, one try to deliver it leaves one copy in each domain.
THEOREM OneCopyForEachTry == Spec => []OneCopyPerTry
<1>1. SessionInv => OneCopyPerTry
  BY DEF SessionInv
<1> QED
  BY InitSessionInv, StepSessionInv, <1>1, PTL DEF Spec

\* Who is told that the mail was not taken is right.
THEOREM RefusedIsNowhere == Spec => []RefusedIsNotStored
<1>1. SessionInv => RefusedIsNotStored
  <2> SUFFICES ASSUME SessionInv, NEW m \in Mail,
                      session[m].reply \in {"554", "refused"}, session[m].try = 1,
                      NEW x \in stored, x.mail = m
               PROVE  FALSE
    BY DEF RefusedIsNotStored
  <2>1. TryOK(session[m], x) /\ x.try \in Nat \ {0}
    BY DEF SessionInv, TypeOK, TryInv, Message
  <2> QED
    BY <2>1 DEF TryOK
<1> QED
  BY InitSessionInv, StepSessionInv, <1>1, PTL DEF Spec
=============================================================================
