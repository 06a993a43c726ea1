----------------------------- MODULE PushProofs -----------------------------
(***************************************************************************)
(* Safety of WSPush, for any clients, domains and messages, and any number *)
(* of races and ends of the process.                                       *)
(***************************************************************************)
EXTENDS WSPush, TLAPS

\* Who was in the map when a push took it is in it still, or has no connection.
Met(x, c) == client[c].dom = DomOf[x] /\ (client[c].net = "open" => c \in subs[DomOf[x]])

MustInv == \A x \in Msg : \A c \in push[x].must : Met(x, c)

Inv == TypeOK /\ SubscribedWhileServed /\ MustInv

-----------------------------------------------------------------------------
(* Types. *)

LEMMA TypeInit == Init => TypeOK
<1> SUFFICES ASSUME Init PROVE TypeOK
  OBVIOUS
<1>1. client \in [Client -> Connection]
  BY DEF Init, Connection
<1>2. push \in [Msg -> Push] /\ \A x \in Msg : push[x].at = "none" /\ push[x] = Idle("none")
  BY DEF Init, Idle, Push
<1>3. subs \in [Dom -> SUBSET Client] /\ made \subseteq Dom /\ \A d \in Dom : subs[d] = {}
  BY DEF Init
<1>4. kills \in 0..MaxKills
  BY PushAssumption DEF Init
<1> QED BY <1>1, <1>2, <1>3, <1>4 DEF TypeOK

LEMMA IdleType == \A a \in {"none", "start", "over", "lost"} : Idle(a) \in Push
BY DEF Idle, Push

LEMMA TypeProcessEnds ==
  ASSUME TypeOK, ProcessEnds, kills' \in 0..MaxKills
  PROVE  TypeOK'
<1>1. client' \in [Client -> Connection]
  BY DEF TypeOK, ProcessEnds, Connection
<1>2. push' \in [Msg -> Push]
  BY IdleType DEF TypeOK, ProcessEnds
<1>3. subs' \in [Dom -> SUBSET Client] /\ made' \subseteq Dom
  BY DEF ProcessEnds
<1>4. ASSUME NEW x \in Msg
      PROVE  push'[x].at \notin {"next", "write"} /\ push'[x] = Idle(push'[x].at)
  <2>1. CASE push[x].at \in {"none", "over"}
    BY <2>1 DEF TypeOK, ProcessEnds
  <2>2. CASE push[x].at \notin {"none", "over"}
    BY <2>2 DEF ProcessEnds, Idle
  <2> QED BY <2>1, <2>2
<1>5. \A d \in Dom : subs'[d] = {}
  BY DEF ProcessEnds
<1> QED BY <1>1, <1>2, <1>3, <1>4, <1>5 DEF TypeOK

\* A step that moves one connection only.
LEMMA TypeClient ==
  ASSUME TypeOK, client' \in [Client -> Connection], UNCHANGED <<subs, made, push, kills>>
  PROVE  TypeOK'
BY DEF TypeOK, Idle

\* A step that moves one push only, by what it leaves of it.
LEMMA TypePush ==
  ASSUME TypeOK, NEW x \in Msg, NEW p \in Push, push' = [push EXCEPT ![x] = p],
         p.at \in {"next", "write"} => DomOf[x] \in made,
         p.at \notin {"next", "write"} => p = Idle(p.at),
         UNCHANGED <<client, subs, made, kills>>
  PROVE  TypeOK'
<1>1. push' \in [Msg -> Push]
  BY DEF TypeOK
<1>2. ASSUME NEW y \in Msg
      PROVE  /\ push'[y].at \in {"next", "write"} => DomOf[y] \in made
             /\ push'[y].at \notin {"next", "write"} => push'[y] = Idle(push'[y].at)
  <2>1. push'[y] = IF y = x THEN p ELSE push[y]
    BY DEF TypeOK
  <2> QED BY <2>1 DEF TypeOK
<1> QED BY <1>1, <1>2 DEF TypeOK

LEMMA TypeStep == TypeOK /\ [Next]_vars => TypeOK'
<1> SUFFICES ASSUME TypeOK, [Next]_vars PROVE TypeOK'
  OBVIOUS
<1>1. ASSUME NEW c \in Client, HandlerStep(c) PROVE TypeOK'
  <2>1. CASE Connect(c)
    BY <2>1, TypeClient DEF Connect, Goto, TypeOK, Connection
  <2>2. CASE Dismiss(c)
    BY <2>2, TypeClient DEF Dismiss, TypeOK, Connection
  <2>3. CASE Subscribe(c)
    <3>1. client' \in [Client -> Connection]
      BY <2>3 DEF Subscribe, Goto, TypeOK, Connection
    <3>2. client[c].dom \in Dom
      BY DEF TypeOK, Connection
    <3>3. subs' \in [Dom -> SUBSET Client] /\ made' \subseteq Dom /\ made \subseteq made'
      BY <2>3, <3>2 DEF Subscribe, TypeOK
    <3>4. \A d \in Dom : subs'[d] # {} => d \in made'
      BY <2>3, <3>2 DEF Subscribe, TypeOK
    <3>5. push' = push /\ kills' = kills
      BY <2>3 DEF Subscribe
    <3> QED BY <3>1, <3>3, <3>4, <3>5 DEF TypeOK, Idle
  <2>4. CASE Written(c)
    BY <2>4, TypeClient DEF Written, Goto, TypeOK, Connection
  <2>5. CASE Ping(c)
    BY <2>5, TypeClient DEF Ping, Goto, TypeOK, Connection
  <2>6. CASE HangUp(c)
    BY <2>6, TypeClient DEF HangUp, TypeOK, Connection
  <2>7. CASE Leave(c)
    <3>1. client' \in [Client -> Connection]
      BY <2>7 DEF Leave, Goto, TypeOK, Connection
    <3>2. subs' \in [Dom -> SUBSET Client] /\ \A d \in Dom : subs'[d] \subseteq subs[d]
      BY <2>7 DEF Leave, TypeOK, Without
    <3>3. push' = push /\ kills' = kills /\ made' = made
      BY <2>7 DEF Leave
    <3> QED BY <3>1, <3>2, <3>3 DEF TypeOK, Idle
  <2>8. CASE Clash(c)
    <3>1. CASE ProcessEnds
      BY <2>8, <3>1, TypeProcessEnds DEF Clash, TypeOK
    <3>2. CASE client' = [client EXCEPT ![c].net = "bad"] /\ UNCHANGED <<subs, made, push>>
      BY <2>8, <3>2, TypeClient DEF Clash, TypeOK, Connection
    <3>3. ASSUME client' = [client EXCEPT ![c].net = "bad", ![c].at = "gone"],
                 subs' = [subs EXCEPT ![client[c].dom] =
                            IF client[c].at = "pong" THEN Without(@, c) ELSE @],
                 UNCHANGED <<made, push>>
          PROVE  TypeOK'
      <4>1. client' \in [Client -> Connection]
        BY <3>3 DEF TypeOK, Connection
      <4>2. subs' \in [Dom -> SUBSET Client] /\ \A d \in Dom : subs'[d] \subseteq subs[d]
        BY <3>3 DEF TypeOK, Without
      <4>3. kills' = kills
        BY <2>8 DEF Clash
      <4> QED BY <3>3, <4>1, <4>2, <4>3 DEF TypeOK, Idle
    <3> QED BY <2>8, <3>1, <3>2, <3>3 DEF Clash
  <2> QED BY <1>1, <2>1, <2>2, <2>3, <2>4, <2>5, <2>6, <2>7, <2>8 DEF HandlerStep
<1>2. ASSUME NEW x \in Msg, Arrive(x) PROVE TypeOK'
  <2> DEFINE p == [push[x] EXCEPT !.at = "start"]
  <2>0. push[x] = Idle("none")
    BY <1>2 DEF Arrive, TypeOK
  <2>1. p = Idle("start")
    BY <2>0 DEF Idle
  <2>2. p \in Push /\ p.at = "start"
    BY <2>1, IdleType DEF Idle
  <2>3. push' = [push EXCEPT ![x] = p] /\ UNCHANGED <<client, subs, made, kills>>
    BY <1>2 DEF Arrive
  <2> HIDE DEF p
  <2> QED BY <2>1, <2>2, <2>3, TypePush
<1>3. ASSUME NEW x \in Msg, PushStep(x) PROVE TypeOK'
  <2>0. push[x] \in Push /\ DomOf[x] \in Dom
    BY PushAssumption DEF TypeOK
  <2>1. CASE TakeConns(x) /\ DomOf[x] \in made
    <3> DEFINE p == [push[x] EXCEPT !.at = "next", !.must = subs[DomOf[x]]]
    <3>1. p \in Push /\ p.at = "next"
      BY <2>0 DEF Push, TypeOK
    <3>2. push' = [push EXCEPT ![x] = p] /\ UNCHANGED <<client, subs, made, kills>>
      BY <2>1 DEF TakeConns
    <3> QED BY <2>1, <3>1, <3>2, TypePush
  <2>2. CASE TakeConns(x) /\ DomOf[x] \notin made
    <3>1. push' = [push EXCEPT ![x] = Idle("over")] /\ UNCHANGED <<client, subs, made, kills>>
      BY <2>2 DEF TakeConns
    <3>2. Idle("over") \in Push /\ Idle("over").at = "over"
      BY IdleType DEF Idle
    <3> QED BY <3>1, <3>2, TypePush
  <2>3. CASE EndPush(x)
    <3>1. push' = [push EXCEPT ![x] = Idle("over")] /\ UNCHANGED <<client, subs, made, kills>>
      BY <2>3 DEF EndPush
    <3>2. Idle("over") \in Push /\ Idle("over").at = "over"
      BY IdleType DEF Idle
    <3> QED BY <3>1, <3>2, TypePush
  <2>4. ASSUME NEW c \in Client, Visit(x, c) PROVE TypeOK'
    <3> DEFINE p == [push[x] EXCEPT !.at = "write", !.to = {c}]
    <3>1. p \in Push /\ p.at = "write"
      BY <2>0 DEF Push
    <3>2. push' = [push EXCEPT ![x] = p] /\ UNCHANGED <<client, subs, made, kills>>
      BY <2>4 DEF Visit
    <3>3. DomOf[x] \in made
      BY <2>4 DEF Visit, TypeOK
    <3> QED BY <3>1, <3>2, <3>3, TypePush
  <2> QED BY <1>3, <2>1, <2>2, <2>3, <2>4 DEF PushStep, TakeConns
<1>4. ASSUME NEW x \in Msg, NEW c \in Client, FinishWrite(x, c) PROVE TypeOK'
  <2> DEFINE p == [push[x] EXCEPT !.at = "next", !.to = {}, !.sent = @ \union {c}]
  <2>1. p \in Push /\ p.at = "next"
    BY DEF TypeOK, Push
  <2>2. push' = [push EXCEPT ![x] = p] /\ UNCHANGED <<client, subs, made, kills>>
    BY <1>4 DEF FinishWrite, AfterWrite
  <2>3. DomOf[x] \in made
    BY <1>4 DEF FinishWrite, TypeOK
  <2> QED BY <2>1, <2>2, <2>3, TypePush
<1>5. ASSUME NEW x \in Msg, NEW c \in Client, MapRace(x, c) PROVE TypeOK'
  BY <1>5, TypeProcessEnds DEF MapRace, TypeOK
<1>6. CASE Kill
  BY <1>6, TypeProcessEnds, PushAssumption DEF Kill, TypeOK
<1>7. CASE UNCHANGED vars
  BY <1>7 DEF vars, TypeOK, Idle
<1> QED BY <1>1, <1>2, <1>3, <1>4, <1>5, <1>6, <1>7 DEF Next

\* Types: and that a push that is not in its loop has no locals, and that no
\* connection is in the map of a domain that has none.
THEOREM PushTypes == Spec => []TypeOK
BY TypeInit, TypeStep, PTL DEF Spec

-----------------------------------------------------------------------------
(* The maps. *)

\* A step of c's handler that leaves its domain, and takes it into the states in
\* which it must be in the map only from one of them.
LEMMA SubsClient ==
  ASSUME TypeOK, SubscribedWhileServed, NEW c \in Client, NEW k \in Connection,
         client' = [client EXCEPT ![c] = k], k.dom = client[c].dom, subs' = subs,
         \/ k.at \in {"greet", "read", "pong"} /\ client[c].at \in {"greet", "read", "pong"}
         \/ /\ k.at \notin {"greet", "read", "pong"}
            /\ (k.at = "gone" /\ k.net = "bad") \/ client[c].at \in {"none", "hello"}
  PROVE  SubscribedWhileServed'
<1> SUFFICES ASSUME NEW b \in Client, NEW d \in Dom
             PROVE  SubscribedWhileServed!(b, d)'
  BY DEF SubscribedWhileServed
<1>1. client'[b] = IF b = c THEN k ELSE client[b]
  BY DEF TypeOK
<1> QED BY <1>1 DEF SubscribedWhileServed, TypeOK, Connection

LEMMA SubsProcessEnds ==
  ASSUME TypeOK, ProcessEnds
  PROVE  SubscribedWhileServed' /\ MustInv'
<1>1. \A c \in Client : client'[c].at \notin {"greet", "read", "pong"}
  <2> SUFFICES ASSUME NEW c \in Client PROVE client'[c].at \notin {"greet", "read", "pong"}
    OBVIOUS
  <2>1. CASE client[c].at = "none"
    BY <2>1 DEF ProcessEnds
  <2>2. CASE client[c].at # "none"
    BY <2>2 DEF ProcessEnds, TypeOK, Connection
  <2> QED BY <2>1, <2>2
<1>2. \A d \in Dom : subs'[d] = {}
  BY DEF ProcessEnds
<1>3. \A x \in Msg : push'[x].must = {}
  <2> SUFFICES ASSUME NEW x \in Msg PROVE push'[x].must = {}
    OBVIOUS
  <2>1. CASE push[x].at \in {"none", "over"}
    <3>1. push'[x] = push[x]
      BY <2>1 DEF ProcessEnds
    <3>2. push[x] = Idle(push[x].at)
      BY <2>1 DEF TypeOK
    <3>3. Idle(push[x].at).must = {}
      BY DEF Idle
    <3> QED BY <3>1, <3>2, <3>3
  <2>2. CASE push[x].at \notin {"none", "over"}
    BY <2>2 DEF ProcessEnds, Idle
  <2> QED BY <2>1, <2>2
<1> QED BY <1>1, <1>2, <1>3 DEF SubscribedWhileServed, MustInv, Met

\* The greeting that ends in a panic, or the pong, whose entry is deleted.
LEMMA SubsPanic ==
  ASSUME TypeOK, SubscribedWhileServed, MustInv, NEW c \in Client, HandlerWrites(c),
         client' = [client EXCEPT ![c].net = "bad", ![c].at = "gone"],
         subs' = [subs EXCEPT ![client[c].dom] =
                    IF client[c].at = "pong" THEN Without(@, c) ELSE @],
         push' = push
  PROVE  SubscribedWhileServed' /\ MustInv'
<1>1. \A b \in Client : /\ client'[b].dom = client[b].dom
                        /\ b # c => client'[b] = client[b]
  BY DEF TypeOK, Connection
<1>2. client'[c].at = "gone" /\ client'[c].net = "bad"
  BY DEF TypeOK, Connection
<1>3. \A d \in Dom : subs'[d] \subseteq subs[d] /\ subs[d] \ {c} \subseteq subs'[d]
  BY DEF TypeOK, Connection, Without
<1>4. SubscribedWhileServed'
  <2> SUFFICES ASSUME NEW b \in Client, NEW d \in Dom
               PROVE  SubscribedWhileServed!(b, d)'
    BY DEF SubscribedWhileServed
  <2>1. CASE b = c
    BY <2>1, <1>1, <1>2, <1>3 DEF SubscribedWhileServed
  <2>2. CASE b # c
    <3>1. client'[b] = client[b] /\ (b \in subs'[d] <=> b \in subs[d])
      BY <2>2, <1>1, <1>3
    <3> QED BY <3>1 DEF SubscribedWhileServed
  <2> QED BY <2>1, <2>2
<1>5. MustInv'
  <2> SUFFICES ASSUME NEW x \in Msg, NEW b \in push[x].must PROVE Met(x, b)'
    BY DEF MustInv, Met
  <2>1. b \in Client /\ DomOf[x] \in Dom
    BY PushAssumption DEF TypeOK, Push
  <2> QED BY <2>1, <1>1, <1>2, <1>3 DEF MustInv, Met
<1> QED BY <1>4, <1>5

LEMMA SubsStep == TypeOK /\ SubscribedWhileServed /\ MustInv /\ [Next]_vars => SubscribedWhileServed'
<1> SUFFICES ASSUME TypeOK, SubscribedWhileServed, MustInv, [Next]_vars
             PROVE  SubscribedWhileServed'
  OBVIOUS
<1>1. ASSUME NEW c \in Client, HandlerStep(c) PROVE SubscribedWhileServed'
  <2>0. client[c] \in Connection
    BY DEF TypeOK
  <2> DEFINE to(at) == [client[c] EXCEPT !.at = at]
  <2>1. CASE Connect(c)
    <3>1. to("hello") \in Connection /\ client' = [client EXCEPT ![c] = to("hello")]
      BY <2>0, <2>1 DEF Connect, Goto, Connection
    <3> QED BY <2>0, <2>1, <3>1, SubsClient DEF Connect, Connection
  <2>2. CASE Dismiss(c)
    <3> DEFINE k == [client[c] EXCEPT !.at = "gone", !.net = "bad"]
    <3>1. k \in Connection /\ client' = [client EXCEPT ![c] = k]
      BY <2>0, <2>2 DEF Dismiss, Connection
    <3> QED BY <2>0, <2>2, <3>1, SubsClient DEF Dismiss, Connection
  <2>3. CASE Subscribe(c)
    <3> SUFFICES ASSUME NEW b \in Client, NEW d \in Dom
                 PROVE  SubscribedWhileServed!(b, d)'
      BY DEF SubscribedWhileServed
    <3>1. client'[b] = IF b = c THEN to("greet") ELSE client[b]
      BY <2>3 DEF Subscribe, Goto, TypeOK
    <3>2. subs'[d] = IF d = client[c].dom THEN subs[d] \union {c} ELSE subs[d]
      BY <2>3 DEF Subscribe, TypeOK
    <3> QED BY <2>0, <2>3, <3>1, <3>2 DEF SubscribedWhileServed, Subscribe, Connection
  <2>4. CASE Written(c) \/ Ping(c)
    <3>1. PICK at \in {"read", "pong"} : client' = [client EXCEPT ![c] = to(at)]
      BY <2>0, <2>4 DEF Written, Ping, Goto
    <3>2. to(at) \in Connection /\ to(at).at = at /\ to(at).dom = client[c].dom
      BY <2>0 DEF Connection
    <3> QED BY <2>4, <3>1, <3>2, SubsClient DEF Written, Ping
  <2>5. CASE HangUp(c)
    <3> SUFFICES ASSUME NEW b \in Client, NEW d \in Dom
                 PROVE  SubscribedWhileServed!(b, d)'
      BY DEF SubscribedWhileServed
    <3>1. client'[b] = IF b = c THEN [client[c] EXCEPT !.net = "hung"] ELSE client[b]
      BY <2>5 DEF HangUp, TypeOK
    <3> QED BY <2>0, <2>5, <3>1 DEF SubscribedWhileServed, HangUp, Connection
  <2>6. CASE Leave(c)
    <3> SUFFICES ASSUME NEW b \in Client, NEW d \in Dom
                 PROVE  SubscribedWhileServed!(b, d)'
      BY DEF SubscribedWhileServed
    <3>1. client'[b] = IF b = c THEN to("gone") ELSE client[b]
      BY <2>6 DEF Leave, Goto, TypeOK
    <3>2. subs'[d] = IF d = client[c].dom THEN subs[d] \ {c} ELSE subs[d]
      BY <2>6 DEF Leave, TypeOK, Without
    <3> QED BY <2>0, <2>6, <3>1, <3>2 DEF SubscribedWhileServed, Leave, Connection
  <2>7. CASE Clash(c)
    <3>1. CASE ProcessEnds
      BY <3>1, SubsProcessEnds
    <3>2. CASE client' = [client EXCEPT ![c].net = "bad"] /\ UNCHANGED <<subs, made, push>>
      <4> SUFFICES ASSUME NEW b \in Client, NEW d \in Dom
                   PROVE  SubscribedWhileServed!(b, d)'
        BY DEF SubscribedWhileServed
      <4>1. client'[b] = IF b = c THEN [client[c] EXCEPT !.net = "bad"] ELSE client[b]
        BY <3>2 DEF TypeOK
      <4> QED BY <2>0, <3>2, <4>1 DEF SubscribedWhileServed, Connection
    <3>3. CASE HandlerWrites(c) /\ ~ProcessEnds
               /\ ~(client' = [client EXCEPT ![c].net = "bad"] /\ UNCHANGED <<subs, made, push>>)
      BY <2>7, <3>3, SubsPanic DEF Clash
    <3> QED BY <2>7, <3>1, <3>2, <3>3 DEF Clash
  <2> QED BY <1>1, <2>1, <2>2, <2>3, <2>4, <2>5, <2>6, <2>7 DEF HandlerStep
<1>2. ASSUME UNCHANGED <<client, subs>> PROVE SubscribedWhileServed'
  BY <1>2 DEF SubscribedWhileServed
<1>3. ASSUME NEW x \in Msg, Arrive(x) \/ PushStep(x) PROVE SubscribedWhileServed'
  BY <1>2, <1>3 DEF Arrive, PushStep, TakeConns, EndPush, Visit
<1>4. ASSUME NEW x \in Msg, NEW c \in Client, FinishWrite(x, c) \/ MapRace(x, c)
      PROVE  SubscribedWhileServed'
  BY <1>2, <1>4, SubsProcessEnds DEF FinishWrite, MapRace
<1>5. CASE Kill
  BY <1>5, SubsProcessEnds DEF Kill
<1>6. CASE UNCHANGED vars
  BY <1>2, <1>6 DEF vars
<1> QED BY <1>1, <1>3, <1>4, <1>5, <1>6 DEF Next

LEMMA MustStep == TypeOK /\ SubscribedWhileServed /\ MustInv /\ [Next]_vars => MustInv'
<1> SUFFICES ASSUME TypeOK, SubscribedWhileServed, MustInv, [Next]_vars
             PROVE  MustInv'
  OBVIOUS
<1>0. \A x \in Msg : push[x] \in Push /\ DomOf[x] \in Dom
  BY PushAssumption DEF TypeOK
<1>1. ASSUME \A c \in Client : client'[c].dom = client[c].dom
                                /\ (client'[c].net = "open" => client[c].net = "open"),
             \A d \in Dom : \A c \in subs[d] : client'[c].net = "open" => c \in subs'[d],
             push' = push
      PROVE  MustInv'
  <2> SUFFICES ASSUME NEW x \in Msg, NEW b \in push[x].must PROVE Met(x, b)'
    BY <1>1 DEF MustInv, Met
  <2>1. b \in Client
    BY <1>0 DEF Push
  <2> QED BY <2>1, <1>0, <1>1 DEF MustInv, Met
<1>2. ASSUME NEW c \in Client, HandlerStep(c) PROVE MustInv'
  <2>0. client[c] \in Connection
    BY DEF TypeOK
  <2>1. CASE Connect(c) \/ Written(c) \/ Ping(c) \/ Dismiss(c) \/ HangUp(c)
    <3>1. ASSUME NEW b \in Client
          PROVE  client'[b].dom = client[b].dom
                 /\ (client'[b].net = "open" => client[b].net = "open")
      <4>1. client'[b].dom = client[b].dom
        BY <2>0, <2>1 DEF TypeOK, Connection, Connect, Written, Ping, Dismiss, HangUp, Goto
      <4>2. client'[b].net = "open" => client[b].net = "open"
        <5>1. CASE Connect(c) \/ Written(c) \/ Ping(c)
          BY <2>0, <5>1 DEF TypeOK, Connection, Connect, Written, Ping, Goto
        <5>2. CASE Dismiss(c) \/ HangUp(c)
          BY <2>0, <5>2 DEF TypeOK, Connection, Dismiss, HangUp
        <5> QED BY <2>1, <5>1, <5>2
      <4> QED BY <4>1, <4>2
    <3>2. subs' = subs /\ push' = push
      BY <2>1 DEF Connect, Written, Ping, Dismiss, HangUp
    <3> QED BY <1>1, <3>1, <3>2
  <2>2. CASE Subscribe(c)
    <3>1. \A b \in Client : client'[b].dom = client[b].dom
                            /\ (client'[b].net = "open" => client[b].net = "open")
      BY <2>0, <2>2 DEF TypeOK, Connection, Subscribe, Goto
    <3>2. \A d \in Dom : subs[d] \subseteq subs'[d]
      BY <2>2 DEF Subscribe, TypeOK
    <3>3. push' = push
      BY <2>2 DEF Subscribe
    <3> QED BY <1>1, <3>1, <3>2, <3>3
  <2>3. CASE Leave(c)
    <3>1. \A b \in Client : client'[b].dom = client[b].dom /\ client'[b].net = client[b].net
      BY <2>0, <2>3 DEF TypeOK, Connection, Leave, Goto
    <3>2. \A d \in Dom : subs[d] \ {c} \subseteq subs'[d]
      BY <2>3 DEF Leave, TypeOK, Without
    <3>3. push' = push /\ client[c].net # "open"
      BY <2>3 DEF Leave
    <3> QED BY <1>1, <3>1, <3>2, <3>3
  <2>4. CASE Clash(c)
    <3>1. CASE ProcessEnds
      BY <3>1, SubsProcessEnds
    <3>2. CASE client' = [client EXCEPT ![c].net = "bad"] /\ UNCHANGED <<subs, made, push>>
      <4>1. \A b \in Client : client'[b].dom = client[b].dom
                              /\ (client'[b].net = "open" => client[b].net = "open")
        BY <2>0, <3>2 DEF TypeOK, Connection
      <4> QED BY <1>1, <3>2, <4>1
    <3>3. CASE HandlerWrites(c) /\ ~ProcessEnds
               /\ ~(client' = [client EXCEPT ![c].net = "bad"] /\ UNCHANGED <<subs, made, push>>)
      BY <2>4, <3>3, SubsPanic DEF Clash
    <3> QED BY <2>4, <3>1, <3>2, <3>3 DEF Clash
  <2> QED BY <1>2, <2>1, <2>2, <2>3, <2>4 DEF HandlerStep
<1>3. ASSUME NEW x \in Msg, NEW S \in SUBSET Client, S \subseteq push[x].must \/ S = subs[DomOf[x]],
             \A y \in Msg : push'[y].must = IF y = x THEN S ELSE push[y].must,
             UNCHANGED <<client, subs>>
      PROVE  MustInv'
  <2> SUFFICES ASSUME NEW y \in Msg, NEW b \in push'[y].must PROVE Met(y, b)'
    BY DEF MustInv, Met
  <2>1. b \in Client
    BY <1>0, <1>3 DEF Push
  <2> QED BY <2>1, <1>0, <1>3 DEF MustInv, Met, SubscribedWhileServed
<1>4. ASSUME NEW x \in Msg, Arrive(x) \/ PushStep(x) PROVE MustInv'
  <2>1. CASE TakeConns(x) /\ DomOf[x] \in made
    <3>1. \A y \in Msg : push'[y].must = IF y = x THEN subs[DomOf[x]] ELSE push[y].must
      BY <1>0, <2>1 DEF TakeConns, TypeOK, Push
    <3>2. subs[DomOf[x]] \in SUBSET Client /\ UNCHANGED <<client, subs>>
      BY <1>0, <2>1 DEF TakeConns, TypeOK
    <3> QED BY <1>3, <3>1, <3>2
  <2>2. CASE (TakeConns(x) /\ DomOf[x] \notin made) \/ EndPush(x)
    <3>1. \A y \in Msg : push'[y].must = IF y = x THEN {} ELSE push[y].must
      <4>1. push' = [push EXCEPT ![x] = Idle("over")]
        BY <2>2 DEF TakeConns, EndPush
      <4>2. \A y \in Msg : push'[y] = IF y = x THEN Idle("over") ELSE push[y]
        BY <4>1 DEF TypeOK
      <4> QED BY <4>2 DEF Idle
    <3>2. UNCHANGED <<client, subs>>
      BY <2>2 DEF TakeConns, EndPush
    <3> QED BY <1>3, <3>1, <3>2
  <2>3. CASE Arrive(x) \/ \E c \in Client : Visit(x, c)
    <3>1. \A y \in Msg : push'[y].must = IF y = x THEN push[x].must ELSE push[y].must
      BY <1>0, <2>3 DEF Arrive, Visit, TypeOK, Push
    <3>2. push[x].must \in SUBSET Client /\ UNCHANGED <<client, subs>>
      BY <1>0, <2>3 DEF Arrive, Visit, Push
    <3> QED BY <1>3, <3>1, <3>2
  <2> QED BY <1>4, <2>1, <2>2, <2>3 DEF PushStep
<1>5. ASSUME NEW x \in Msg, NEW c \in Client, FinishWrite(x, c) PROVE MustInv'
  <2>1. \A y \in Msg : push'[y].must = IF y = x THEN push[x].must ELSE push[y].must
    BY <1>0, <1>5 DEF FinishWrite, TypeOK, Push
  <2>2. push[x].must \in SUBSET Client /\ UNCHANGED <<client, subs>>
    BY <1>0, <1>5 DEF FinishWrite, Push
  <2> QED BY <1>3, <2>1, <2>2
<1>6. ASSUME NEW x \in Msg, NEW c \in Client, MapRace(x, c) PROVE MustInv'
  BY <1>6, SubsProcessEnds DEF MapRace
<1>7. CASE Kill
  BY <1>7, SubsProcessEnds DEF Kill
<1>8. CASE UNCHANGED vars
  BY <1>1, <1>8 DEF vars
<1> QED BY <1>2, <1>4, <1>5, <1>6, <1>7, <1>8 DEF Next

LEMMA Inductive == Spec => []Inv
<1>1. Init => Inv
  <2> SUFFICES ASSUME Init PROVE Inv
    OBVIOUS
  <2>1. \A c \in Client : client[c].at = "none"
    BY DEF Init
  <2>2. (\A d \in Dom : subs[d] = {}) /\ \A x \in Msg : push[x].must = {}
    BY DEF Init, Idle
  <2> QED BY <2>1, <2>2, TypeInit DEF Inv, SubscribedWhileServed, MustInv, Met
<1>2. Inv /\ [Next]_vars => Inv'
  BY TypeStep, SubsStep, MustStep DEF Inv
<1> QED BY <1>1, <1>2, PTL DEF Spec

\* subs has exactly the connections that handlers are greeting or reading, and
\* those that broke while they were greeted, whatever races and panics there are.
THEOREM SubsExact == Spec => []SubscribedWhileServed
<1>1. Inv => SubscribedWhileServed
  BY DEF Inv
<1> QED BY <1>1, Inductive, PTL

\* A push that comes to its end has written to everyone who was in its map when
\* it took it and is connected still.
THEOREM AllServed == Spec => EverySubscriberServed
<1>1. Inv /\ [Next]_vars =>
        [\A x \in Msg :
           push'[x].at = "over" /\ push[x].at # "over" =>
             \A c \in push[x].must : client[c].net = "open" => c \in push[x].sent]_vars
  <2> SUFFICES ASSUME Inv, Next, NEW x \in Msg, push'[x].at = "over", push[x].at # "over",
                      NEW c \in push[x].must, client[c].net = "open"
               PROVE  c \in push[x].sent
    OBVIOUS
  <2>0. TypeOK /\ MustInv /\ push[x] \in Push /\ c \in Client
    BY DEF Inv, TypeOK, Push
  <2>1. push[x].at \in {"next", "write"}
    BY <2>0 DEF TypeOK, Idle
  <2>2. ASSUME ProcessEnds PROVE FALSE
    <3>1. push'[x] = Idle("lost")
      BY <2>1, <2>2 DEF ProcessEnds
    <3> QED BY <3>1 DEF Idle
  <2>3. ASSUME push' = push PROVE FALSE
    BY <2>3
  <2>4. \E y \in Msg : Arrive(y) \/ PushStep(y) \/ \E b \in Client : FinishWrite(y, b)
    BY <2>2, <2>3 DEF Next, HandlerStep, Connect, Dismiss, Subscribe, Written, Ping, HangUp,
                      Leave, Clash, MapRace, Kill
  <2>5. PICK y \in Msg : Arrive(y) \/ PushStep(y) \/ \E b \in Client : FinishWrite(y, b)
    BY <2>4
  <2>6. EndPush(x)
    <3>1. ASSUME y # x PROVE push'[x] = push[x]
      BY <2>0, <2>5, <3>1 DEF Arrive, PushStep, TakeConns, EndPush, Visit, FinishWrite, TypeOK
    <3>2. y = x
      BY <3>1
    <3>3. ~Arrive(x) /\ ~TakeConns(x)
      BY <2>1 DEF Arrive, TakeConns
    <3>4. ASSUME NEW b \in Client, Visit(x, b) \/ FinishWrite(x, b) PROVE FALSE
      <4>1. CASE Visit(x, b)
        BY <2>0, <4>1 DEF Visit, TypeOK, Push
      <4>2. CASE FinishWrite(x, b)
        BY <2>0, <4>2 DEF FinishWrite, AfterWrite, TypeOK, Push
      <4> QED BY <3>4, <4>1, <4>2
    <3> QED BY <2>5, <3>2, <3>3, <3>4 DEF PushStep
  <2>7. push[x].must \intersect subs[DomOf[x]] \subseteq push[x].sent
    BY <2>6 DEF EndPush, Left
  <2> QED BY <2>0, <2>7 DEF MustInv, Met
<1> QED BY <1>1, Inductive, PTL DEF Spec, EverySubscriberServed
=============================================================================
