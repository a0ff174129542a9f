--------------------------- MODULE SignalingServer ---------------------------
(***************************************************************************)
(* The signaling server around the room registry: the sockets that are     *)
(* open, the delivery loop of server/src/signaling_server.cpp, the clock   *)
(* and the maintenance timer.                                              *)
(*                                                                         *)
(* Everything runs on one event-loop thread: a request, a disconnect or a  *)
(* timer tick starts only when the loop of deliver() has emptied its       *)
(* queue.  Inside that loop a send can fail, close its client at once and  *)
(* so enqueue a further batch behind the one being sent.                   *)
(*                                                                         *)
(* A session id is a UUID drawn on connection and forgotten on close, so   *)
(* a member of Sessions stands for a connection slot that can be reused.   *)
(* Authentication and presence are separate components.  "told" records    *)
(* what the events sent so far let each client know of its room.           *)
(***************************************************************************)
EXTENDS RoomRegistry

VARIABLES
  open,         \* sessions with an open socket
  relayFailed,  \* deliver(): the relay of the current batch was not sent
  told,         \* [Sessions -> peer ids its client has been told are present]
  reached       \* the relay of the current batch was handed to its socket

serverVars == <<open, relayFailed, told, reached>>
allVars    == <<vars, serverVars>>

Idle == pending = <<>>

ServerInit ==
  /\ RegistryInit
  /\ open        = {}
  /\ relayFailed = FALSE
  /\ told        = [s \in Sessions |-> {}]
  /\ reached     = FALSE

-----------------------------------------------------------------------------
(* Between two runs of the delivery loop.                                  *)

registerClient(s) ==
  /\ Idle
  /\ s \notin open
  /\ open' = open \cup {s}
  /\ UNCHANGED <<vars, relayFailed, told, reached>>

receive(s) ==
  /\ Idle
  /\ s \in open
  /\ handle(s)
  /\ UNCHANGED serverVars

\* Faulty: enqueues a batch even when there is nobody to tell.
Enqueue_Empty(queue, events) == Append(queue, events)

\* Faulty: sends the events of a disconnect ahead of the rest of the batch.
Enqueue_First(queue, events) == IF events = <<>> THEN queue ELSE <<events>> \o queue

Enqueue(queue, events) == IF events = <<>> THEN queue ELSE Append(queue, events)

\* Faulty: a client closed in mid-delivery stays in its room.
removeClient_StaysMember(s, queue) ==
  /\ open' = open \ {s}
  /\ told' = [told EXCEPT ![s] = {}]
  /\ pending' = queue
  /\ UNCHANGED roomVars

\* What closing a client does to the registry and to the queue "queue" of
\* batches: rooms_.disconnect, whose events go behind what is queued.
removeClient(s, queue) ==
  /\ open' = open \ {s}
  /\ told' = [told EXCEPT ![s] = {}]
  /\ \/ /\ Leave(s, invitations)
        /\ \E events \in LeaveEvents(s) :
             pending' = Enqueue(queue, events)
     \/ /\ ~IsMember(s)
        /\ pending' = queue
        /\ UNCHANGED roomVars

\* The peer closes, the heartbeat times out or a message is malformed.
Drop(s) ==
  /\ Idle
  /\ s \in open
  /\ removeClient(s, pending)
  /\ UNCHANGED <<relayFailed, reached>>

maintainConnections ==
  /\ Idle
  /\ invitations' = expireInvitations
  /\ UNCHANGED <<memberships, rooms, peers, now, issued, uses, pending, serverVars>>

Tick ==
  /\ Idle
  /\ now < MaxTime
  /\ now' = now + 1
  /\ UNCHANGED <<memberships, rooms, peers, invitations, issued, uses, pending, serverVars>>

-----------------------------------------------------------------------------
(* deliver(): one delivery of the batch in progress.                       *)

\* The queue once the first delivery of its first batch is done with.
Popped ==
  IF Len(Head(pending)) = 1 THEN Tail(pending)
  ELSE <<Tail(Head(pending))>> \o Tail(pending)

BatchEnds == Len(Head(pending)) = 1

Relay(m)   == m.type = "signal.received"
Verdict(m) == m.type = "signal.accepted"

\* The message that goes out for the delivery m.
Outgoing(m) == IF Verdict(m) /\ relayFailed THEN Error(m.to, "recipient_unavailable") ELSE m

\* What the client of a message knows of its room once it has read it.
Knows(m) ==
  CASE m.type = "room.joined" -> m.peers
    [] m.type = "peer.joined" -> told[m.to] \cup {m.peerId}
    [] m.type = "peer.left"   -> told[m.to] \ {m.peerId}
    [] m.type \in {"room.created", "room.left"} -> {}
    [] OTHER -> told[m.to]

SendSucceeds ==
  LET m == Outgoing(Head(Head(pending))) IN
  /\ ~Idle
  /\ m.to \in open
  /\ told'        = [told EXCEPT ![m.to] = Knows(m)]
  /\ pending'     = Popped
  /\ relayFailed' = (relayFailed /\ ~BatchEnds)
  /\ reached'     = ((reached \/ Relay(m)) /\ ~BatchEnds)
  /\ UNCHANGED <<roomVars, open>>

\* Faulty: does not note that the relay failed.
Unsent_Unnoted(m) == relayFailed

Unsent(m) == relayFailed \/ Relay(m)

\* The session is gone, or its outgoing queue is full and it is closed now.
SendFails ==
  LET m == Head(Head(pending)) IN
  /\ ~Idle
  /\ \/ /\ m.to \notin open
        /\ pending' = Popped
        /\ UNCHANGED <<roomVars, open, told>>
     \/ /\ m.to \in open
        /\ removeClient(m.to, Popped)
  /\ relayFailed' = (Unsent(m) /\ ~BatchEnds)
  /\ reached'     = (reached /\ ~BatchEnds)

deliver == SendSucceeds \/ SendFails

Next ==
  \/ \E s \in Sessions : registerClient(s) \/ receive(s) \/ Drop(s)
  \/ maintainConnections
  \/ Tick
  \/ deliver

Spec == ServerInit /\ [][Next]_allVars

-----------------------------------------------------------------------------
(* Properties.                                                             *)

Deliveries ==
  [to : Sessions, type : {"room.created", "room.left", "invite.created",
                          "signal.received", "signal.accepted"}]
    \cup [to : Sessions, type : {"room.joined"}, peerId : PeerIds, peers : SUBSET PeerIds]
    \cup [to : Sessions, type : {"peer.joined", "peer.left"}, peerId : PeerIds]
    \cup [to : Sessions, type : {"error"},
          code : {"busy", "resource_limit", "invalid_invitation", "room_full", "not_in_room",
                  "room_mismatch", "invalid_target", "peer_not_found"}]

\* Every variable of the registry and of the transport has its type.
TypeOK ==
  /\ memberships \in [Sessions -> Membership \cup {None}]
  /\ rooms \in SUBSET RoomIds
  /\ peers \in [RoomIds -> [PeerIds -> Sessions \cup {None}]]
  /\ invitations \in [RoomIds -> [Tokens -> Invitation \cup {None}]]
  /\ now \in Nat
  /\ issued \in SUBSET Tokens
  /\ uses \in [Tokens -> Nat]
  /\ pending \in Seq(Seq(Deliveries) \ {<<>>})
  /\ open \in SUBSET Sessions
  /\ relayFailed \in BOOLEAN
  /\ told \in [Sessions -> SUBSET PeerIds]
  /\ reached \in BOOLEAN

\* The two indexes of the registry agree: a session is a member under a peer
\* id exactly when that room holds the session under that peer id
\* (memberships_ against rooms_ of RoomRegistry).
IndexesAgree ==
  \A s \in Sessions, r \in RoomIds, p \in PeerIds :
    peers[r][p] = s <=> (IsMember(s) /\ memberships[s] = [roomId |-> r, peerId |-> p])

\* A room exists exactly while somebody is in it: none is left behind empty
\* to count against MaxRooms, none is dropped under its members.
RoomsAreOccupied == \A r \in RoomIds : r \in rooms <=> Members(r) # {}

\* No sequence of joins, leaves and disconnects overfills a room.
WithinCapacity == \A r \in RoomIds : Cardinality(Members(r)) <= RoomCapacity

\* A closed socket leaves nothing behind: every member has an open socket,
\* even when the socket was closed in the middle of a delivery.
MembersAreOpen == \A s \in Sessions : IsMember(s) => s \in open

\* An invitation in force was issued by somebody who is in that room now, so
\* an issuer who left cannot still admit people.
IssuersArePresent ==
  \A r \in RoomIds, t \in Tokens :
    invitations[r][t] # None => peers[r][invitations[r][t].issuerPeerId] # None

\* A token admits at most one session, whatever expires, leaves or is
\* refused in between.
TokensAdmitOnce == \A t \in Tokens : uses[t] <= 1

\* What the events told a client adds up to the room's real members, for
\* every member at once, whenever the delivery queue is empty.
RostersAgree ==
  Idle => \A s \in Sessions :
    told[s] = IF IsMember(s)
              THEN Members(memberships[s].roomId) \ {memberships[s].peerId}
              ELSE {}

\* Join and leave events reach a client in order: it never hears that a peer
\* left which it does not know, nor that one joined which it knows already,
\* even if a client is closed while a batch is half sent.
EventsInOrder ==
  ~Idle =>
    LET m == Head(Head(pending)) IN
    m.to \in open =>
      /\ m.type = "peer.left" => m.peerId \in told[m.to]
      /\ m.type = "peer.joined" => m.peerId \notin told[m.to]

\* A sender is told that its signal was accepted exactly when the signal was
\* handed to the recipient's socket.
RelayVerdict ==
  ~Idle =>
    LET m == Head(Head(pending)) IN Verdict(m) => (Verdict(Outgoing(m)) <=> reached)

\* The rooms are sound in every state, a half-sent batch or a client being
\* closed included: their indexes agree, nobody is in one who is not connected,
\* none is empty or overfull, and no invitation outlives its issuer.
RoomsAreSound ==
  /\ TypeOK /\ IndexesAgree /\ RoomsAreOccupied /\ WithinCapacity
  /\ MembersAreOpen /\ IssuersArePresent

\* What clients are told is so: of the members of their room, in order, and of
\* the fate of what they sent.
ClientsAreTold == RostersAgree /\ EventsInOrder /\ RelayVerdict

\* The rooms as their guests see them: a room is the set of sessions in it and
\* an invitation is a ticket hosted by the session of its issuer.
GuestLists == [r \in RoomIds |-> SessionsOf(peers[r])]

TicketsInForce ==
  {k \in [token : Tokens, room : RoomIds, host : Sessions] :
     /\ invitations[k.room][k.token] # None
     /\ k.host = peers[k.room][invitations[k.room][k.token].issuerPeerId]}

A == INSTANCE Admission WITH
       guests <- GuestLists, tickets <- TicketsInForce, offered <- issued

\* The server implements one-use admission: every step of it, a half-sent batch
\* and a closing client included, is a step of the abstract rooms or none.
RoomsImplementAdmission == A!Spec

=============================================================================
