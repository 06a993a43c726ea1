------------------------------- MODULE WSPush -------------------------------
(***************************************************************************)
(* WebSocket push: handleWS and pushInbound (internal/api/server.go).      *)
(*                                                                         *)
(* Each connection has a handler, and each message that is stored a push:  *)
(* goroutines that share subs, for each domain the map of the connections  *)
(* that have subscribed.  Handlers change the maps under s.mu.  A push     *)
(* only takes its map under s.mu and ranges over it, live, without.        *)
(* WriteJSON takes time, and two writers of one connection are a data race *)
(* that gorilla/websocket may detect and answer with a panic.              *)
(***************************************************************************)
EXTENDS Naturals, FiniteSets

CONSTANTS
  Client,    \* clients; each connects once
  Dom,       \* ids of domains
  Msg,       \* inbound messages
  DomOf,     \* DomOf[x] is the domain of message x
  Wants,     \* Wants[c]: the domains client c may subscribe to
  Stalled,   \* clients that may stop reading: a write to them may never end
  MaxKills   \* bound: ends of the process that are no fault of its own

ASSUME PushAssumption ==
  /\ DomOf \in [Msg -> Dom]
  /\ Wants \in [Client -> SUBSET Dom]
  /\ Stalled \subseteq Client
  /\ MaxKills \in Nat

VARIABLES
  client,  \* client[c]: its connection and its handler, see Connection
  subs,    \* subs[d]: the connections in the map of d
  made,    \* domains that have a map in subs
  push,    \* push[x]: the goroutine that pushes x, see Push
  kills

vars == <<client, subs, made, push, kills>>

\* at: where the handler is, "greet" and "pong" being within WriteJSON.  net: "hung" is hung up by the client;
\* "bad" is closed by the server, or was written to by two goroutines at once.
Connection ==
  [at  : {"none", "hello", "greet", "read", "pong", "gone"},
   dom : Dom, net : {"open", "hung", "bad"}]

\* must: who was in the map when the push took it; sent: who was written to; to:
\* whom it is writing to.
Push ==
  [at : {"none", "start", "next", "write", "over", "lost"},
   must : SUBSET Client, sent : SUBSET Client, to : SUBSET Client]

\* A goroutine that has no locals yet, or no more.
Idle(at) == [at |-> at, must |-> {}, sent |-> {}, to |-> {}]

TypeOK ==
  /\ client \in [Client -> Connection]
  /\ subs \in [Dom -> SUBSET Client]
  /\ made \subseteq Dom
  /\ push \in [Msg -> Push]
  /\ \A x \in Msg :
       /\ push[x].at \in {"next", "write"} => DomOf[x] \in made
       /\ push[x].at \notin {"next", "write"} => push[x] = Idle(push[x].at)
  /\ \A d \in Dom : subs[d] # {} => d \in made
  /\ kills \in 0..MaxKills

Init ==
  /\ \E want \in [Client -> Dom] :
       /\ \A c \in Client : want[c] \in Wants[c]
       /\ client = [c \in Client |-> [at |-> "none", dom |-> want[c], net |-> "open"]]
  /\ subs = [d \in Dom |-> {}]
  /\ made = {}
  /\ push = [x \in Msg |-> Idle("none")]
  /\ kills = 0

-----------------------------------------------------------------------------
(* Connections.  The domain of a client is the one it will subscribe to.   *)

Goto(c, at) == client' = [client EXCEPT ![c].at = at]

\* Upgrade.
Connect(c) ==
  /\ client[c].at = "none"
  /\ Goto(c, "hello")
  /\ UNCHANGED <<subs, made, push, kills>>

\* The auth or the subscribe message is wrong or does not come.
Dismiss(c) ==
  /\ client[c].at = "hello"
  /\ client' = [client EXCEPT ![c].at = "gone", ![c].net = "bad"]
  /\ UNCHANGED <<subs, made, push, kills>>

\* Slip: a push writes to its connections under s.mu.
LockedWriting == \E x \in Msg : push[x].at = "write"

\* Is s.mu held between two steps?  Whoever takes it gives it back at once.
Locked == FALSE

\* Both are right.  The entry in subs, and the map if it is the first.
Subscribe(c) ==
  LET d == client[c].dom
  IN  /\ client[c].at = "hello" /\ client[c].net = "open" /\ ~Locked
      /\ subs' = [subs EXCEPT ![d] = @ \union {c}]
      /\ made' = made \union {d}
      /\ Goto(c, "greet")
      /\ UNCHANGED <<push, kills>>

\* "subscribed", or "pong", has been written, whether it arrived or not.
Written(c) ==
  /\ client[c].at \in {"greet", "pong"}
  /\ Goto(c, "read")
  /\ UNCHANGED <<subs, made, push, kills>>

\* The read loop takes a ping.  (An ack is Inbound's Ack.)
Ping(c) ==
  /\ client[c].at = "read" /\ client[c].net = "open"
  /\ Goto(c, "pong")
  /\ UNCHANGED <<subs, made, push, kills>>

\* The client closes the connection, at any time.
HangUp(c) ==
  /\ client[c].at # "none" /\ client[c].net = "open"
  /\ client' = [client EXCEPT ![c].net = "hung"]
  /\ UNCHANGED <<subs, made, push, kills>>

\* Slip: the entry stays.
WithoutNobody(s, c) == s

Without(s, c) == s \ {c}

\* The read loop's ReadJSON fails: the deferred delete, and Close.
Leave(c) ==
  /\ client[c].at = "read" /\ client[c].net # "open" /\ ~Locked
  /\ subs' = [subs EXCEPT ![client[c].dom] = Without(@, c)]
  /\ Goto(c, "gone")
  /\ UNCHANGED <<made, push, kills>>

-----------------------------------------------------------------------------
(* Pushes. *)

\* StoreInbound has inserted x and starts pushInbound.
Arrive(x) ==
  /\ push[x].at = "none"
  /\ push' = [push EXCEPT ![x].at = "start"]
  /\ UNCHANGED <<client, subs, made, kills>>

\* conns := s.subs[d].  Without a map there is nobody to range over.
TakeConns(x) ==
  LET d == DomOf[x]
  IN  /\ push[x].at = "start" /\ ~Locked
      /\ push' = IF d \in made THEN [push EXCEPT ![x].at = "next", ![x].must = subs[d]]
                               ELSE [push EXCEPT ![x] = Idle("over")]
      /\ UNCHANGED <<client, subs, made, kills>>

\* The iteration comes to c, which is in the map: now, or from the start.
Visit(x, c) ==
  /\ push[x].at = "next"
  /\ c \in subs[DomOf[x]] \ push[x].sent
  /\ push' = [push EXCEPT ![x].at = "write", ![x].to = {c}]
  /\ UNCHANGED <<client, subs, made, kills>>

\* Slip: the first error ends the loop.
AfterWriteStops(c) == IF client[c].net = "open" THEN "next" ELSE "over"

\* Errors are ignored.
AfterWrite(c) == "next"

FinishWrite(x, c) ==
  /\ push[x].at = "write" /\ c \in push[x].to
  /\ push' = [push EXCEPT ![x].at = AfterWrite(c), ![x].to = {}, ![x].sent = @ \union {c}]
  /\ UNCHANGED <<client, subs, made, kills>>

\* Slip: an entry that was deleted is waited for.
LeftWaits(x) == push[x].must \ push[x].sent

\* The entries the iteration has still to visit: those that were there when it
\* began and have not been deleted.  It may skip those that were added.
Left(x) == (push[x].must \intersect subs[DomOf[x]]) \ push[x].sent

EndPush(x) ==
  /\ push[x].at = "next" /\ Left(x) = {}
  /\ push' = [push EXCEPT ![x] = Idle("over")]
  /\ UNCHANGED <<client, subs, made, kills>>

-----------------------------------------------------------------------------
(* What goes wrong. *)

\* The process ends, and docker starts it again: the connections are closed,
\* subs is empty, pushes on their way are lost (the messages are stored).
ProcessEnds ==
  /\ client' = [c \in Client |->
                  IF client[c].at = "none" THEN client[c]
                  ELSE [client[c] EXCEPT !.at = "gone",
                                         !.net = IF @ = "open" THEN "bad" ELSE @]]
  /\ subs' = [d \in Dom |-> {}]
  /\ made' = {}
  /\ push' = [x \in Msg |->
                IF push[x].at \in {"none", "over"} THEN push[x]
                ELSE Idle("lost")]

Kill == kills < MaxKills /\ kills' = kills + 1 /\ ProcessEnds

\* A push ranges over a map that a handler writes at the same time: the Go
\* runtime may detect it, and that ends the process.
MapRace(x, c) ==
  /\ push[x].at = "next" /\ client[c].dom = DomOf[x]
  /\ \/ client[c].at = "hello" /\ client[c].net = "open"
     \/ client[c].at = "read" /\ client[c].net # "open"
  /\ ProcessEnds
  /\ UNCHANGED kills

Writing(c)       == {x \in Msg : push[x].at = "write" /\ c \in push[x].to}
HandlerWrites(c) == client[c].at \in {"greet", "pong"}

\* Two goroutines write to c: what arrives is garbled or missing.  If the
\* library detects it, the panic of a handler is net/http's, who recovers it:
\* deferred calls are made, which in "greet" are Close but not yet the delete.
\* The panic of a push ends the process.
Clash(c) ==
  /\ \/ HandlerWrites(c) /\ Writing(c) # {}
     \/ Cardinality(Writing(c)) > 1
  /\ UNCHANGED kills
  /\ \/ client' = [client EXCEPT ![c].net = "bad"]
        /\ UNCHANGED <<subs, made, push>>
     \/ /\ HandlerWrites(c) /\ ~Locked
        /\ client' = [client EXCEPT ![c].net = "bad", ![c].at = "gone"]
        /\ subs' = [subs EXCEPT ![client[c].dom] = IF client[c].at = "pong" THEN Without(@, c) ELSE @]
        /\ UNCHANGED <<made, push>>
     \/ ProcessEnds

-----------------------------------------------------------------------------
HandlerStep(c) ==
  \/ Connect(c) \/ Dismiss(c) \/ Subscribe(c) \/ Written(c)
  \/ Ping(c) \/ HangUp(c) \/ Leave(c) \/ Clash(c)

PushStep(x) == TakeConns(x) \/ EndPush(x) \/ \E c \in Client : Visit(x, c)

Next ==
  \/ \E c \in Client : HandlerStep(c)
  \/ \E x \in Msg : Arrive(x) \/ PushStep(x)
  \/ \E x \in Msg, c \in Client : FinishWrite(x, c) \/ MapRace(x, c)
  \/ Kill

Spec == Init /\ [][Next]_vars

\* Goroutines run, and a write ends if its client reads.
Fairness ==
  \A x \in Msg : WF_vars(PushStep(x) \/ \E c \in Client \ Stalled : FinishWrite(x, c))

FairSpec == Spec /\ Fairness

-----------------------------------------------------------------------------
(* Properties. *)

\* When a push is over, it has written to every client that was in its map when
\* it took it, if the connection is still there and no two goroutines ever wrote
\* to it at once: whoever else joined, left, hung up or was being written to
\* while pushInbound ranged over a map it does not own.  (A connection that is
\* open has always been, so what was written has arrived.)
EverySubscriberServed ==
  [][\A x \in Msg :
       push'[x].at = "over" /\ push[x].at # "over" =>
         \A c \in push[x].must : client[c].net = "open" => c \in push[x].sent]_vars

\* subs holds the connections that handlers are greeting or reading, and besides
\* only such as broke while they were greeted.
SubscribedWhileServed ==
  \A c \in Client, d \in Dom :
    /\ client[c].at \in {"greet", "read", "pong"} /\ client[c].dom = d => c \in subs[d]
    /\ c \in subs[d] =>
         /\ client[c].dom = d
         /\ \/ client[c].at \in {"greet", "read", "pong"}
            \/ client[c].at = "gone" /\ client[c].net = "bad"

\* A push comes to its end, if only that of the process, or one of its domain's
\* subscribers stalls: a client of another domain cannot keep a message from its subscribers.
PushEnds ==
  \A x \in Msg :
    push[x].at = "start" ~>
      push[x].at \in {"over", "lost"} \/ \E s \in Stalled : client[s].dom = DomOf[x]
=============================================================================
