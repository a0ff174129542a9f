---------------------------- MODULE RoomRegistry ----------------------------
(***************************************************************************)
(* The rooms of the signaling server (server/src/room_registry.cpp): who   *)
(* is in which room, and the one-use invitations that admit a session.     *)
(*                                                                         *)
(* The registry runs on the server's event-loop thread.  A call returns    *)
(* the batch of deliveries the transport then sends, which is appended     *)
(* to "pending"; the transport empties "pending" before it reads another   *)
(* request, so a request finds it empty.                                   *)
(*                                                                         *)
(* Abstractions.  UUIDs and tokens are members of small sets.  A peer id   *)
(* or a room id is only fresh among those in use, which is all the code    *)
(* checks; a token of security::randomToken() has 256 random bits and is   *)
(* taken never to repeat ("issued" remembers the tokens handed out).  The  *)
(* payload of a relayed signal is not modelled.                            *)
(***************************************************************************)
EXTENDS Integers, FiniteSets, SequencesExt

CONSTANTS
  Sessions,               \* session ids of the connected sockets
  RoomIds,
  PeerIds,
  Tokens,
  None,                   \* an absent entry of a map
  RoomCapacity,           \* limits.h: 6
  MaxRooms,               \* 16
  MaxInvitationsPerRoom,  \* 16
  InvitationLifetime,     \* 600 s in the code
  MaxTime                 \* bound of the model's clock

ASSUME NoneAssumption ==
  /\ None \notin Sessions
  /\ None \notin [roomId : RoomIds, peerId : PeerIds]
  /\ None \notin [issuerPeerId : PeerIds, expiresAt : Int]

ASSUME LimitAssumption ==
  /\ RoomCapacity \in Nat \ {0}
  /\ MaxRooms \in Nat \ {0}
  /\ MaxInvitationsPerRoom \in Nat \ {0}
  /\ InvitationLifetime \in Nat \ {0}
  /\ MaxTime \in Nat

ASSUME FinitePeerIds == IsFiniteSet(PeerIds)

VARIABLES
  memberships,  \* [Sessions -> Membership or None]
  rooms,        \* the room ids with an entry in rooms_
  peers,        \* [RoomIds -> [PeerIds -> session or None]]
  invitations,  \* [RoomIds -> [Tokens -> Invitation or None]]
  now,          \* the server's clock
  issued,       \* every token handed out so far
  uses,         \* [Tokens -> number of joins the token has admitted], history
  pending       \* batches of deliveries to send, oldest first

roomVars == <<memberships, rooms, peers, invitations, now, issued, uses>>
vars     == <<roomVars, pending>>

Membership == [roomId : RoomIds, peerId : PeerIds]
Invitation == [issuerPeerId : PeerIds, expiresAt : Nat]

NoPeers       == [p \in PeerIds |-> None]
NoInvitations == [t \in Tokens |-> None]

Members(r)     == {p \in PeerIds : peers[r][p] # None}
IsMember(s)    == memberships[s] # None
InRoom(s, r)   == IsMember(s) /\ memberships[s].roomId = r

\* Faulty: lets one more in.
HasPlace_Late(r) == Cardinality(Members(r)) <= RoomCapacity

HasPlace(r) == Cardinality(Members(r)) < RoomCapacity

-----------------------------------------------------------------------------
(* Deliveries.                                                             *)

\* Faulty: lists the newcomer among the peers it finds.
Joined_WithSelf(s, p, ps) == [to |-> s, type |-> "room.joined", peerId |-> p, peers |-> ps \cup {p}]

Reply(s, type)      == [to |-> s, type |-> type]
Joined(s, p, ps)    == [to |-> s, type |-> "room.joined", peerId |-> p, peers |-> ps]
PeerJoined(s, p)    == [to |-> s, type |-> "peer.joined", peerId |-> p]
PeerLeft(s, p)      == [to |-> s, type |-> "peer.left", peerId |-> p]
Error(s, code)      == [to |-> s, type |-> "error", code |-> code]

\* Faulty: counts the places members have left.
SessionsOf_Left(roomPeers) == {roomPeers[p] : p \in PeerIds}

SessionsOf(roomPeers) == {roomPeers[p] : p \in PeerIds} \ {None}

Return(batch) == pending' = IF batch = <<>> THEN pending ELSE Append(pending, batch)

-----------------------------------------------------------------------------
(* expireInvitations, which every call that takes a time makes first.      *)

Expired(r, t) == invitations[r][t] # None /\ invitations[r][t].expiresAt <= now

expireInvitations ==
  [r \in RoomIds |-> [t \in Tokens |-> IF Expired(r, t) THEN None ELSE invitations[r][t]]]

Fail(s, code) ==
  /\ invitations' = expireInvitations
  /\ Return(<<Error(s, code)>>)
  /\ UNCHANGED <<memberships, rooms, peers, now, issued, uses>>

-----------------------------------------------------------------------------
(* The requests of handle().                                               *)

RoomCreateRefused(s) ==
  \/ IsMember(s) /\ Fail(s, "busy")
  \/ ~IsMember(s) /\ Cardinality(rooms) >= MaxRooms /\ Fail(s, "resource_limit")

RoomCreate(s, r, p) ==
  /\ ~IsMember(s)
  /\ Cardinality(rooms) < MaxRooms
  /\ r \notin rooms
  /\ rooms'       = rooms \cup {r}
  /\ peers'       = [peers EXCEPT ![r] = [NoPeers EXCEPT ![p] = s]]
  /\ memberships' = [memberships EXCEPT ![s] = [roomId |-> r, peerId |-> p]]
  /\ invitations' = [expireInvitations EXCEPT ![r] = NoInvitations]
  /\ Return(<<Reply(s, "room.created")>>)
  /\ UNCHANGED <<now, issued, uses>>

Honoured(r, t) == r \in rooms /\ expireInvitations[r][t] # None

\* Faulty: leaves the token in force.
Consumed_Not(r, t) == expireInvitations

Consumed(r, t) == [expireInvitations EXCEPT ![r][t] = None]

RoomJoinRefused(s, r, t) ==
  \/ IsMember(s) /\ Fail(s, "busy")
  \/ ~IsMember(s) /\ ~Honoured(r, t) /\ Fail(s, "invalid_invitation")
  \/ /\ ~IsMember(s)
     /\ Honoured(r, t)
     /\ ~HasPlace(r)
     /\ Fail(s, "room_full")

\* Consuming the token and adding the member is one step of the one thread.
RoomJoin(s, r, t, p) ==
  /\ ~IsMember(s)
  /\ Honoured(r, t)
  /\ HasPlace(r)
  /\ p \notin Members(r)
  /\ invitations' = Consumed(r, t)
  /\ peers'       = [peers EXCEPT ![r][p] = s]
  /\ memberships' = [memberships EXCEPT ![s] = [roomId |-> r, peerId |-> p]]
  /\ uses'        = [uses EXCEPT ![t] = @ + 1]
  /\ \E order \in SetToSeqs(SessionsOf(peers[r])) :
       Return(<<Joined(s, p, Members(r))>> \o [i \in DOMAIN order |-> PeerJoined(order[i], p)])
  /\ UNCHANGED <<rooms, now, issued>>

InviteCreateRefused(s, r) ==
  \/ ~IsMember(s) /\ Fail(s, "not_in_room")
  \/ IsMember(s) /\ ~InRoom(s, r) /\ Fail(s, "room_mismatch")
  \/ /\ InRoom(s, r)
     /\ Cardinality({t \in Tokens : expireInvitations[r][t] # None}) >= MaxInvitationsPerRoom
     /\ Fail(s, "resource_limit")

\* createInvitation, which the presence registry also calls.
CreateInvitation(s, r, t) ==
  /\ InRoom(s, r)
  /\ Cardinality({u \in Tokens : expireInvitations[r][u] # None}) < MaxInvitationsPerRoom
  /\ t \notin issued
  /\ invitations' = [expireInvitations EXCEPT
                       ![r][t] = [issuerPeerId |-> memberships[s].peerId,
                                  expiresAt    |-> now + InvitationLifetime]]
  /\ issued' = issued \cup {t}
  /\ UNCHANGED <<memberships, rooms, peers, now, uses>>

InviteCreate(s, r, t) ==
  /\ CreateInvitation(s, r, t)
  /\ Return(<<Reply(s, "invite.created")>>)

\* Faulty: the session is still taken for a member.
MembershipsWithout_Kept(s) == memberships

MembershipsWithout(s) == [memberships EXCEPT ![s] = None]

\* Faulty: the invitations of a member who left still admit people.
WithoutIssuer_Kept(kept, r, p) == kept

WithoutIssuer(kept, r, p) ==
  [kept EXCEPT ![r] =
     [t \in Tokens |->
        IF kept[r][t] # None /\ kept[r][t].issuerPeerId = p THEN None ELSE kept[r][t]]]

\* leave: the member goes, with the invitations it issued, and the last one
\* closes the room.  "kept" is the invitation map the call starts from.
Leave(s, kept) ==
  LET r    == memberships[s].roomId
      p    == memberships[s].peerId
      left == [peers[r] EXCEPT ![p] = None]
  IN
  /\ IsMember(s)
  /\ memberships' = MembershipsWithout(s)
  /\ rooms'       = IF SessionsOf(left) = {} THEN rooms \ {r} ELSE rooms
  /\ peers'       = [peers EXCEPT ![r] = left]
  /\ invitations' = WithoutIssuer(kept, r, p)
  /\ UNCHANGED <<now, issued, uses>>

\* What leave returns: the other members hear of it, in the order of the
\* hash that holds them.
LeaveEvents(s) ==
  LET r == memberships[s].roomId
      p == memberships[s].peerId
  IN {[i \in DOMAIN order |-> PeerLeft(order[i], p)] :
        order \in SetToSeqs(SessionsOf([peers[r] EXCEPT ![p] = None]))}

NotAMemberOf(s, r) ==
  \/ ~IsMember(s) /\ Fail(s, "not_in_room")
  \/ IsMember(s) /\ ~InRoom(s, r) /\ Fail(s, "room_mismatch")

RoomLeave(s, r) ==
  /\ InRoom(s, r)
  /\ Leave(s, expireInvitations)
  /\ \E events \in LeaveEvents(s) : Return(<<Reply(s, "room.left")>> \o events)

SignalSendRefused(s, r, p) ==
  \/ NotAMemberOf(s, r)
  \/ InRoom(s, r) /\ p = memberships[s].peerId /\ Fail(s, "invalid_target")
  \/ /\ InRoom(s, r)
     /\ p # memberships[s].peerId
     /\ peers[r][p] = None
     /\ Fail(s, "peer_not_found")

SignalSend(s, r, p) ==
  /\ InRoom(s, r)
  /\ p # memberships[s].peerId
  /\ peers[r][p] # None
  /\ invitations' = expireInvitations
  /\ Return(<<Reply(peers[r][p], "signal.received"), Reply(s, "signal.accepted")>>)
  /\ UNCHANGED <<memberships, rooms, peers, now, issued, uses>>

-----------------------------------------------------------------------------
(* The registry before its first call, and the requests a session may make. *)

RegistryInit ==
  /\ memberships = [s \in Sessions |-> None]
  /\ rooms       = {}
  /\ peers       = [r \in RoomIds |-> NoPeers]
  /\ invitations = [r \in RoomIds |-> NoInvitations]
  /\ now         = 0
  /\ issued      = {}
  /\ uses        = [t \in Tokens |-> 0]
  /\ pending     = <<>>

handle(s) ==
  \/ RoomCreateRefused(s)
  \/ \E r \in RoomIds, p \in PeerIds : RoomCreate(s, r, p)
  \/ \E r \in RoomIds, t \in Tokens : RoomJoinRefused(s, r, t)
  \/ \E r \in RoomIds, t \in Tokens, p \in PeerIds : RoomJoin(s, r, t, p)
  \/ \E r \in RoomIds : InviteCreateRefused(s, r)
  \/ \E r \in RoomIds, t \in Tokens : InviteCreate(s, r, t)
  \/ \E r \in RoomIds : NotAMemberOf(s, r) \/ RoomLeave(s, r)
  \/ \E r \in RoomIds, p \in PeerIds : SignalSendRefused(s, r, p) \/ SignalSend(s, r, p)

=============================================================================
