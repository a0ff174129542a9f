-------------------------------- MODULE Asks --------------------------------
(***************************************************************************)
(* What one client shows of the asks between its user and the friends      *)
(* (client/src/app/network_session_presence.cpp), beside what the server   *)
(* has of them: a knock asks into a conversation, a contact invitation     *)
(* asks into one's own.  PresenceRegistry is the server's side of it, for  *)
(* every client at once and with nothing on the way; here both directions  *)
(* of one client's connection keep what is on the way, in order.           *)
(*                                                                         *)
(* The friends and the clock are an environment that may ask, answer and   *)
(* withdraw whenever the server lets it.  A client has its room made by    *)
(* room recovery (RoomRecovery), here one request; a mesh it makes is a    *)
(* number, a mesh it is let into is the friend it belongs to.  Responses   *)
(* name what they answer instead of a request identifier; those that       *)
(* change nothing are left out, and so are requests the client's own queue *)
(* refuses.  The ten seconds between two asks of one friend are taken to   *)
(* outlast what is on the way and the making of a room.                    *)
(***************************************************************************)
EXTENDS Integers, Sequences, FiniteSets

CONSTANTS
  Friends,
  NoValue,
  MaxAskIds,     \* asks the server ever takes
  MaxOwnMeshes,  \* meshes the user makes
  MaxAskTroubles \* lost connections, changes of room and refusals for lack of room

\* What a client publishes, and the prompts it shows.
Conversations == Friends \cup Nat
Presences == [busy : BOOLEAN, mesh : Conversations \cup {NoValue}]
KnockPrompts  == [id : Nat, from : Friends, mesh : Conversations, accepting : BOOLEAN]
InvitePrompts == [id : Nat, from : Friends, accepting : BOOLEAN]

\* NoValue is nobody, no mesh and nothing that is published or shown.
ASSUME AsksAssumption ==
  /\ NoValue \notin Conversations
  /\ NoValue \notin Presences \cup KnockPrompts \cup InvitePrompts

VARIABLES
  askOnline,     \* signalingConnected
  askRegistered, \* presenceRegistered_
  askPublished,  \* lastPresence_: [busy, mesh], or NoValue
  askMesh,       \* [id, joined]
  askKnock,      \* outgoingKnockPeer_ and outgoingKnockId_: [peer, id]
  askInKnock,    \* incomingKnock_: [id, from, mesh, accepting], or NoValue
  askInvite,     \* incomingOnlineInvitation_, likewise
  askTarget,     \* pendingContactTarget_
  askTargets,    \* onlineInvitationTargets_
  askWanted,     \* serverInvitationRequested_
  askRoom,       \* whether serverRoomId_ is set
  askServerMesh, \* serverMesh_
  askOperation,  \* serverOperation_
  askUp,   \* what is on the way to the server
  askDown, \* what is on the way back: [first, says], first if it begins a step of the server
  srvProfile,    \* what the server has of the user: [busy, mesh], or NoValue
  srvRoom,       \* whether it has the user in a room
  srvAsks,       \* its asks from or to the user: [kind, id, mine, peer, mesh]
  srvCooling,    \* friends the user has asked in the last ten seconds
  askIds, askMade, askTroubles

promptVars  == <<askKnock, askInKnock, askInvite>>
askRoomVars == <<askTarget, askTargets, askWanted, askRoom, askServerMesh, askOperation>>
srvVars     == <<srvProfile, srvRoom, srvAsks, srvCooling>>
boundVars   == <<askIds, askMade, askTroubles>>
askVars == <<askOnline, askRegistered, askPublished, askMesh, promptVars, askRoomVars,
             askUp, askDown, srvVars, boundVars>>

NoMesh  == [id |-> NoValue, joined |-> FALSE]
NoKnock == [peer |-> NoValue, id |-> 0]

AskTrouble == askTroubles < MaxAskTroubles /\ askTroubles' = askTroubles + 1

signalingBusy == askOperation # "" \/ askWanted
inMesh        == askMesh # NoMesh

Submits(messages) == askUp' = askUp \o messages

\* One step of the server.
Said(messages) == [i \in 1 .. Len(messages) |-> [first |-> i = 1, says |-> messages[i]]]
Say(messages)  == askDown' = askDown \o Said(messages)

\* What the server sends at once comes in at once: the user acts before it or after.
userActs == askDown # <<>> => Head(askDown).first

\* The messages about an ask, by its kind.
By(kind, knock, contact) == IF kind = "knock" THEN knock ELSE contact
Responds(kind) == By(kind, "knock.respond", "contact.respond")
Respond(id, kind, accept) == [type |-> Responds(kind), id |-> id, accept |-> accept]

-----------------------------------------------------------------------------
(* The connection and what is published.                                   *)

resetPresence ==
  /\ askRegistered' = FALSE
  /\ askPublished'  = NoValue
  /\ askKnock'   = NoKnock
  /\ askInKnock' = NoValue
  /\ askInvite'  = NoValue
  /\ askTarget'  = NoValue
  /\ askTargets' = {}

\* connectionLost: the server forgets the user; a mesh that was still to be entered is given up.
signalingLost ==
  /\ resetPresence
  /\ askOnline' = FALSE
  /\ askRoom' = FALSE /\ askWanted' = FALSE /\ askOperation' = ""
  /\ askUp' = <<>> /\ askDown' = <<>>
  /\ srvProfile' = NoValue /\ srvRoom' = FALSE /\ srvAsks' = {} /\ srvCooling' = {}

SignalingFails ==
  /\ askOnline
  /\ AskTrouble
  /\ signalingLost
  /\ IF askServerMesh /\ ~askMesh.joined
     THEN askServerMesh' = FALSE /\ askMesh' = NoMesh
     ELSE UNCHANGED <<askServerMesh, askMesh>>
  /\ UNCHANGED <<askIds, askMade>>

presence == [busy |-> inMesh, mesh |-> IF askMesh.joined THEN askMesh.id ELSE NoValue]

\* readyChanged publishes at once.
Ready ==
  /\ ~askOnline
  /\ askOnline' = TRUE
  /\ Submits(<<[type |-> "publish", profile |-> presence]>>)
  /\ askPublished' = presence
  /\ UNCHANGED <<askRegistered, askMesh, promptVars, askRoomVars, askDown, srvVars, boundVars>>

publishPresence ==
  /\ askOnline
  /\ askPublished # presence
  /\ Submits(<<[type |-> "publish", profile |-> presence]>>)
  /\ askPublished' = presence
  /\ UNCHANGED <<askOnline, askRegistered, askMesh, promptVars, askRoomVars, askDown, srvVars, boundVars>>

-----------------------------------------------------------------------------
(* Meshes.                                                                 *)

createMesh ==
  /\ userActs
  /\ ~inMesh /\ ~signalingBusy
  /\ askMade < MaxOwnMeshes /\ askMade' = askMade + 1
  /\ askMesh' = [id |-> askMade + 1, joined |-> TRUE]
  /\ UNCHANGED <<askOnline, askRegistered, askPublished, promptVars, askRoomVars, askUp, askDown,
                 srvVars, askIds, askTroubles>>

\* The first link of a mesh being entered opens.
MeshJoined ==
  /\ inMesh /\ ~askMesh.joined /\ askRoom
  /\ askMesh' = [askMesh EXCEPT !.joined = TRUE]
  /\ UNCHANGED <<askOnline, askRegistered, askPublished, promptVars, askRoomVars, askUp, askDown,
                 srvVars, boundVars>>

\* The part of leaveServerRoom that is about asks.
leaveServerRoom == askInKnock' = NoValue /\ askTarget' = NoValue /\ askTargets' = {}

\* leaveMesh.  A client with a room and nothing under way leaves the room;
\* otherwise it breaks the connection off, so that no late answer finds it.
quitMesh ==
  /\ userActs
  /\ inMesh
  /\ askMesh' = NoMesh
  /\ UNCHANGED boundVars
  /\ LET farewell == IF askOnline /\ askMesh.joined
                     THEN <<[type |-> "mesh.leave", mesh |-> askMesh.id]>> ELSE <<>>
     IN
     \/ /\ ~askServerMesh /\ askOperation = ""
        /\ leaveServerRoom
        /\ Submits(farewell)
        /\ UNCHANGED <<askOnline, askRegistered, askPublished, askKnock, askInvite, askWanted, askRoom,
                       askServerMesh, askOperation, askDown, srvVars>>
     \/ /\ askServerMesh \/ askOperation # ""
        /\ askOnline /\ askRoom /\ askOperation = ""
        /\ leaveServerRoom
        /\ Submits(farewell \o <<[type |-> "room.leave"]>>)
        /\ askServerMesh' = FALSE /\ askRoom' = FALSE /\ askWanted' = FALSE
        /\ askOperation' = "leave"
        /\ UNCHANGED <<askOnline, askRegistered, askPublished, askKnock, askInvite, askDown, srvVars>>
     \/ /\ askServerMesh \/ askOperation # ""
        /\ ~(askOnline /\ askRoom /\ askOperation = "")
        /\ signalingLost
        /\ askServerMesh' = FALSE

\* recoverServerRoom: the client has a room made, or moves to a room that wins
\* over its own.
recoverServerRoom ==
  /\ askServerMesh /\ askMesh.joined /\ askOnline /\ askOperation = ""
  /\ \/ /\ ~askRoom
        /\ askOperation' = "recover-create"
        /\ Submits(<<[type |-> "room.create"]>>)
        /\ UNCHANGED <<askRoom, askTroubles>>
     \/ /\ askRoom /\ AskTrouble
        /\ askRoom' = FALSE
        /\ askOperation' = "recover-leave"
        /\ Submits(<<[type |-> "room.leave"]>>)
  /\ UNCHANGED <<askOnline, askRegistered, askPublished, askMesh, promptVars, askTarget, askTargets,
                 askWanted, askServerMesh, askDown, srvVars, askIds, askMade>>

-----------------------------------------------------------------------------
(* What the user asks and answers.                                         *)

\* The peer one's room is being made for is the one whose knock was accepted.
Accepts(peer) == askInKnock # NoValue /\ askInKnock.accepting /\ askInKnock.from = peer

\* submitOnlineInvitation.
Submission(peer) ==
  IF Accepts(peer)' THEN <<Respond(askInKnock'.id, "knock", TRUE)>>
                    ELSE <<[type |-> "contact.invite", peer |-> peer]>>

\* requestServerInvitationWhenReady, which both of the next two end with: with
\* a room the ask goes out at once, without one it waits for the room.
AskWhenReady(peer) ==
  /\ askServerMesh' = TRUE
  /\ IF askRoom
     THEN Submits(Submission(peer)) /\ UNCHANGED <<askTarget, askWanted>>
     ELSE askTarget' = peer /\ askWanted' = TRUE /\ UNCHANGED askUp

inviteAcquaintance(peer) ==
  /\ userActs
  /\ askRegistered /\ askOnline
  /\ askMesh.joined
  /\ ~signalingBusy /\ peer \notin askTargets
  /\ askMesh.id # peer
  /\ askTargets' = askTargets \cup {peer}
  /\ UNCHANGED promptVars
  /\ AskWhenReady(peer)
  /\ UNCHANGED <<askOnline, askRegistered, askPublished, askMesh, askRoom, askOperation, askDown,
                 srvVars, boundVars>>

respondToEntryRequest(accept) ==
  /\ userActs
  /\ askInKnock # NoValue /\ ~askInKnock.accepting /\ askOnline
  /\ \/ /\ ~accept \/ ~askMesh.joined \/ askInKnock.mesh # askMesh.id \/ signalingBusy
        /\ Submits(<<Respond(askInKnock.id, "knock", FALSE)>>)
        /\ askInKnock' = NoValue
        /\ UNCHANGED askRoomVars
     \/ /\ accept /\ askMesh.joined /\ askInKnock.mesh = askMesh.id /\ ~signalingBusy
        /\ askInKnock' = [askInKnock EXCEPT !.accepting = TRUE]
        /\ AskWhenReady(askInKnock.from)
        /\ UNCHANGED <<askTargets, askRoom, askOperation>>
  /\ UNCHANGED <<askOnline, askRegistered, askPublished, askMesh, askKnock, askInvite, askDown,
                 srvVars, boundVars>>

requestConversationEntry(peer) ==
  /\ userActs
  /\ ~inMesh /\ ~signalingBusy
  /\ askOnline /\ askRegistered
  /\ askKnock = NoKnock
  /\ askKnock' = [peer |-> peer, id |-> 0]
  /\ Submits(<<[type |-> "knock.request", peer |-> peer]>>)
  /\ UNCHANGED <<askOnline, askRegistered, askPublished, askMesh, askInKnock, askInvite, askRoomVars,
                 askDown, srvVars, boundVars>>

respondToOnlineInvitation(accept) ==
  /\ userActs
  /\ askInvite # NoValue /\ ~askInvite.accepting /\ askOnline
  /\ LET accepted == accept /\ ~inMesh /\ ~signalingBusy IN
     /\ Submits(<<Respond(askInvite.id, "contact", accepted)>>)
     /\ askInvite' = IF accepted THEN [askInvite EXCEPT !.accepting = TRUE] ELSE NoValue
  /\ UNCHANGED <<askOnline, askRegistered, askPublished, askMesh, askKnock, askInKnock, askRoomVars,
                 askDown, srvVars, boundVars>>

-----------------------------------------------------------------------------
(* What comes from the server.                                             *)

Arrival == Head(askDown).says

\* A message of one of these types comes in; the rest is what none of them touch.
Take(types) ==
  /\ askOnline /\ askDown # <<>> /\ Arrival.type \in types
  /\ askDown' = Tail(askDown)
  /\ UNCHANGED <<askOnline, srvVars, askIds, askMade>>

HandlePublished ==
  /\ Take({"published"})
  /\ askRegistered' = TRUE
  /\ UNCHANGED <<askPublished, askMesh, promptVars, askRoomVars, askUp, askTroubles>>

\* knock.request: the response has the identifier, a refusal ends the knock.
HandleKnockAnswer ==
  /\ \/ Take({"knock.requested"}) /\ askKnock' = [askKnock EXCEPT !.id = Arrival.id]
     \/ Take({"knock.refused"}) /\ askKnock' = NoKnock
  /\ UNCHANGED <<askRegistered, askPublished, askMesh, askInKnock, askInvite, askRoomVars, askUp, askTroubles>>

\* Faulty: a knock that comes to a busy user is dropped without an answer.
Declines_Silently(id, kind) == <<>>

\* "busy", at once and without the user.
Declines(id, kind) == <<Respond(id, kind, FALSE)>>

\* A knock is shown to a user who is in the mesh it is for and has nothing else
\* on screen or under way.
HandleKnockInvitation ==
  /\ Take({"knock.invitation"})
  /\ IF askInKnock # NoValue \/ askInvite # NoValue \/ ~askMesh.joined
          \/ askMesh.id # Arrival.mesh \/ signalingBusy
     THEN Submits(Declines(Arrival.id, "knock")) /\ UNCHANGED askInKnock
     ELSE /\ askInKnock' = [id |-> Arrival.id, from |-> Arrival.peer, mesh |-> Arrival.mesh,
                            accepting |-> FALSE]
          /\ UNCHANGED askUp
  /\ UNCHANGED <<askRegistered, askPublished, askMesh, askKnock, askInvite, askRoomVars, askTroubles>>

HandleContactInvitation ==
  /\ Take({"contact.invitation"})
  /\ IF askInvite # NoValue \/ inMesh \/ signalingBusy
     THEN Submits(Declines(Arrival.id, "contact")) /\ UNCHANGED askInvite
     ELSE /\ askInvite' = [id |-> Arrival.id, from |-> Arrival.peer, accepting |-> FALSE]
          /\ UNCHANGED askUp
  /\ UNCHANGED <<askRegistered, askPublished, askMesh, askKnock, askInKnock, askRoomVars, askTroubles>>

\* joinServerInvitation and submitServerJoin, into the mesh of a friend.
Enter(peer) ==
  IF inMesh \/ signalingBusy
  THEN UNCHANGED <<askMesh, askServerMesh, askOperation, askUp>>
  ELSE /\ askMesh' = [id |-> peer, joined |-> FALSE]
       /\ askServerMesh' = TRUE
       /\ askOperation' = "joining"
       /\ Submits(<<[type |-> "room.join"]>>)

HandleKnockAccepted ==
  /\ Take({"knock.accepted"})
  /\ IF Arrival.id # askKnock.id \/ inMesh
     THEN UNCHANGED <<askKnock, askMesh, askServerMesh, askOperation, askUp>>
     ELSE askKnock' = NoKnock /\ Enter(Arrival.peer)
  /\ UNCHANGED <<askRegistered, askPublished, askInKnock, askInvite, askTarget, askTargets, askWanted,
                 askRoom, askTroubles>>

HandleContactAccepted ==
  /\ Take({"contact.accepted"})
  /\ IF askInvite # NoValue /\ askInvite.id = Arrival.id /\ askInvite.accepting
     THEN askInvite' = NoValue /\ Enter(Arrival.peer)
     ELSE UNCHANGED <<askInvite, askMesh, askServerMesh, askOperation, askUp>>
  /\ UNCHANGED <<askRegistered, askPublished, askKnock, askInKnock, askTarget, askTargets, askWanted,
                 askRoom, askTroubles>>

\* knock.closed, and the failure of an acceptance, which names its knock.
HandleKnockClosed ==
  /\ \/ /\ Take({"knock.closed"})
        /\ IF askInKnock # NoValue /\ askInKnock.accepting /\ askInKnock.id = Arrival.id
                /\ askTarget = askInKnock.from
           THEN askTarget' = NoValue /\ askWanted' = FALSE
           ELSE UNCHANGED <<askTarget, askWanted>>
     \/ /\ Take({"knock.failed"})
        /\ UNCHANGED <<askTarget, askWanted>>
  /\ askInKnock' = IF askInKnock # NoValue /\ askInKnock.id = Arrival.id THEN NoValue ELSE askInKnock
  /\ UNCHANGED <<askRegistered, askPublished, askMesh, askKnock, askInvite, askTargets, askRoom,
                 askServerMesh, askOperation, askUp, askTroubles>>

HandleKnockResult ==
  /\ Take({"knock.result"})
  /\ askKnock' = IF askKnock.id = Arrival.id THEN NoKnock ELSE askKnock
  /\ UNCHANGED <<askRegistered, askPublished, askMesh, askInKnock, askInvite, askRoomVars, askUp, askTroubles>>

\* contact.closed, and the failure of a contact.respond.
HandleContactClosed ==
  /\ Take({"contact.closed", "contact.failed"})
  /\ askInvite' = IF askInvite # NoValue /\ askInvite.id = Arrival.id THEN NoValue ELSE askInvite
  /\ UNCHANGED <<askRegistered, askPublished, askMesh, askKnock, askInKnock, askRoomVars, askUp, askTroubles>>

\* contact.result, and the failure of a contact.invite.
HandleContactResult ==
  /\ Take({"contact.result", "contact.refused"})
  /\ askTargets' = askTargets \ {Arrival.peer}
  /\ UNCHANGED <<askRegistered, askPublished, askMesh, promptVars, askTarget, askWanted, askRoom,
                 askServerMesh, askOperation, askUp, askTroubles>>

\* handleRecoveryResponse and handleServerResponse: the ask that was waiting
\* for the room goes out, unless the mesh has become full.
HandleRoomReady ==
  /\ Take({"room.created", "room.joined"})
  /\ askRoom' = TRUE
  /\ askOperation' = ""
  /\ UNCHANGED promptVars
  /\ IF askWanted
     THEN /\ askTarget' = NoValue /\ askWanted' = FALSE
          /\ \/ /\ \E peer \in {askTarget} : Submits(Submission(peer))
                /\ UNCHANGED <<askTargets, askTroubles>>
             \/ /\ AskTrouble
                /\ askTargets' = askTargets \ {askTarget}
                /\ UNCHANGED askUp
     ELSE UNCHANGED <<askTarget, askWanted, askTargets, askUp, askTroubles>>
  /\ UNCHANGED <<askRegistered, askPublished, askMesh, askServerMesh>>

\* handleRecoveryFailure.
HandleRoomRefused ==
  /\ Take({"room.refused"})
  /\ askOperation' = ""
  /\ askTargets' = IF askWanted THEN askTargets \ {askTarget} ELSE askTargets
  /\ askTarget'  = IF askWanted THEN NoValue ELSE askTarget
  /\ askWanted'  = FALSE
  /\ UNCHANGED <<askRegistered, askPublished, askMesh, promptVars, askRoom, askServerMesh, askUp, askTroubles>>

\* The response to a room.leave, whoever sent it.
HandleRoomLeft ==
  /\ Take({"room.left"})
  /\ askOperation' = ""
  /\ UNCHANGED <<askRegistered, askPublished, askMesh, promptVars, askTarget, askTargets, askWanted,
                 askRoom, askServerMesh, askUp, askTroubles>>

\* A join that was refused rolls the mesh back and keeps the connection.
HandleJoinRefused ==
  /\ Take({"join.refused"})
  /\ askOperation' = "" /\ askServerMesh' = FALSE
  /\ askMesh' = NoMesh
  /\ leaveServerRoom
  /\ UNCHANGED <<askRegistered, askPublished, askKnock, askInvite, askWanted, askRoom, askUp, askTroubles>>

-----------------------------------------------------------------------------
(* The server, as far as it concerns the user (presence_registry.cpp).     *)

\* finish and finishKnock: the asker and the asked are both told.
Ended(k) ==
  [type |-> IF k.mine THEN By(k.kind, "knock.result", "contact.result")
                      ELSE By(k.kind, "knock.closed", "contact.closed"),
   id |-> k.id, peer |-> k.peer]

\* All of them in any order, which is that of a hash.
EndedAll(asks) ==
  {[i \in 1 .. Cardinality(asks) |-> Ended(order[i])] :
     order \in {f \in [1 .. Cardinality(asks) -> asks] :
                 /\ \A k \in asks : \E i \in DOMAIN f : f[i] = k
                 /\ \A i, j \in DOMAIN f : f[i] = f[j] => i = j}}

\* maintainInvitations, over the profile and the room as the request leaves them:
\* who would come into a conversation must be free to, and it must still be there.
Stale(k, profile, inRoom) ==
  \/ (k.kind = "knock") = k.mine /\ (profile.busy \/ inRoom)
  \/ k.kind = "knock" /\ ~k.mine /\ profile.mesh # k.mesh
  \/ k.kind = "contact" /\ k.mine /\ ~inRoom

\* The server answers, then reports the asks that the request has ended.
Settle(answer, profile, inRoom) ==
  LET ended == {k \in srvAsks : profile # NoValue /\ Stale(k, profile, inRoom)} IN
  /\ srvProfile' = profile /\ srvRoom' = inRoom
  /\ srvAsks' = srvAsks \ ended
  /\ \E reports \in EndedAll(ended) : Say(answer \o reports)
  /\ UNCHANGED <<srvCooling, askIds, askTroubles>>

Answer(type) == <<[type |-> type]>>

\* Refused for lack of a room, which the client would not cause by itself.
Refuse(type) ==
  /\ AskTrouble
  /\ Say(Answer(type))
  /\ UNCHANGED <<srvVars, askIds>>

\* A new ask between the user and a friend.
newId == askIds + 1
Begin(kind, mine, peer, mesh, messages) ==
  /\ askIds < MaxAskIds /\ askIds' = newId
  /\ srvAsks' = srvAsks \cup
       {[kind |-> kind, id |-> newId, mine |-> mine, peer |-> peer, mesh |-> mesh]}
  /\ Say(messages)
  /\ UNCHANGED <<srvProfile, srvRoom>>

Refused(type, peer) ==
  /\ Say(<<[type |-> type, peer |-> peer]>>)
  /\ UNCHANGED <<srvVars, askIds>>

\* A request for a knock or an invitation: a friend may also be away, busy or
\* being asked by somebody else.
ServerAsked(request) ==
  \/ /\ request.type = "knock.request"
     /\ UNCHANGED askTroubles
     /\ \/ Refused("knock.refused", request.peer)
        \/ /\ srvProfile # NoValue /\ ~srvProfile.busy /\ ~srvRoom
           /\ request.peer \notin srvCooling
           /\ \A k \in srvAsks : ~(k.kind = "knock" /\ k.mine)
           /\ srvCooling' = srvCooling \cup {request.peer}
           /\ Begin("knock", TRUE, request.peer, request.peer,
                    <<[type |-> "knock.requested", id |-> newId]>>)
  \/ /\ request.type = "contact.invite"
     /\ UNCHANGED askTroubles
     /\ \/ Refused("contact.refused", request.peer)
        \/ /\ srvProfile # NoValue /\ srvRoom
           /\ request.peer \notin srvCooling
           /\ \A k \in srvAsks : ~(k.kind = "contact" /\ k.mine /\ k.peer = request.peer)
           /\ srvCooling' = srvCooling \cup {request.peer}
           /\ Begin("contact", TRUE, request.peer, NoValue, <<>>)

\* An answer of the user: final whatever comes of it.  Accepted, an invitation
\* hands the user a token before its end is reported.
ServerAnswered(request, kind) ==
  /\ request.type = Responds(kind)
  /\ LET answered == {k \in srvAsks : k.id = request.id /\ k.kind = kind /\ ~k.mine} IN
     \/ /\ answered = {}
        /\ Say(IF kind = "contact" \/ request.accept
               THEN <<[type |-> By(kind, "knock.failed", "contact.failed"), id |-> request.id]>>
               ELSE <<>>)
        /\ UNCHANGED srvAsks
     \/ \E k \in answered :
          /\ srvAsks' = srvAsks \ {k}
          /\ Say(IF kind = "contact" /\ request.accept /\ ~Stale(k, srvProfile, srvRoom)
                 THEN <<[type |-> "contact.accepted", id |-> k.id, peer |-> k.peer], Ended(k)>>
                 ELSE <<Ended(k)>>)
  /\ UNCHANGED <<srvProfile, srvRoom, srvCooling, askIds, askTroubles>>

ServerRoom(request) ==
  \/ /\ request.type = "room.create"
     /\ \/ Settle(Answer("room.created"), srvProfile, TRUE) \/ Refuse("room.refused")
  \/ /\ request.type = "room.join"
     /\ \/ Settle(Answer("room.joined"), srvProfile, TRUE) \/ Refuse("join.refused")
  \/ /\ request.type = "room.leave"
     /\ Settle(Answer("room.left"), srvProfile, FALSE)

ServerPresence(request) ==
  \/ /\ request.type = "publish"
     /\ Settle(Answer("published"), request.profile, srvRoom)
  \/ /\ request.type = "mesh.leave"
     /\ IF srvProfile # NoValue /\ srvProfile.mesh = request.mesh
        THEN Settle(<<>>, [srvProfile EXCEPT !.mesh = NoValue], srvRoom)
        ELSE UNCHANGED <<srvVars, askDown, askIds, askTroubles>>

ServerReceives ==
  /\ askOnline /\ askUp # <<>>
  /\ askUp' = Tail(askUp)
  /\ LET request == Head(askUp) IN
     \/ ServerPresence(request) \/ ServerRoom(request) \/ ServerAsked(request)
     \/ \E kind \in {"knock", "contact"} : ServerAnswered(request, kind)
  /\ UNCHANGED <<askOnline, askRegistered, askPublished, askMesh, promptVars, askRoomVars, askMade>>

clientSide == <<askOnline, askRegistered, askPublished, askMesh, promptVars, askRoomVars, askUp>>

FriendKnocks(peer) ==
  /\ srvProfile # NoValue /\ srvProfile.mesh \notin {NoValue, peer}
  /\ \A k \in srvAsks : k.kind # "knock" \/ (k.mine /\ k.peer # peer)
  /\ Begin("knock", FALSE, peer, srvProfile.mesh,
           <<[type |-> "knock.invitation", id |-> newId, peer |-> peer, mesh |-> srvProfile.mesh]>>)
  /\ UNCHANGED <<clientSide, srvCooling, askMade, askTroubles>>

FriendInvites(peer) ==
  /\ srvProfile # NoValue /\ ~srvProfile.busy /\ ~srvRoom
  /\ \A k \in srvAsks : k.kind # "contact" \/ k.mine
  /\ Begin("contact", FALSE, peer, NoValue,
           <<[type |-> "contact.invitation", id |-> newId, peer |-> peer]>>)
  /\ UNCHANGED <<clientSide, srvCooling, askMade, askTroubles>>

\* A friend answers or can no longer answer, or an ask expires.
AskEnds(k) ==
  /\ k \in srvAsks
  /\ srvAsks' = srvAsks \ {k}
  /\ \/ Say(<<Ended(k)>>)
     \/ /\ k.kind = "knock" /\ k.mine
        /\ Say(<<[type |-> "knock.accepted", id |-> k.id, peer |-> k.peer], Ended(k)>>)
  /\ UNCHANGED <<clientSide, srvProfile, srvRoom, srvCooling, boundVars>>

\* Ten seconds after an ask, its friend may be asked again.
CoolDown(peer) ==
  /\ peer \in srvCooling
  /\ askUp = <<>> /\ askDown = <<>> /\ ~askWanted
  /\ srvCooling' = srvCooling \ {peer}
  /\ UNCHANGED <<clientSide, askDown, srvProfile, srvRoom, srvAsks, boundVars>>

-----------------------------------------------------------------------------

AsksInit ==
  /\ askOnline = FALSE /\ askRegistered = FALSE /\ askPublished = NoValue
  /\ askMesh = NoMesh
  /\ askKnock = NoKnock /\ askInKnock = NoValue /\ askInvite = NoValue
  /\ askTarget = NoValue /\ askTargets = {} /\ askWanted = FALSE
  /\ askRoom = FALSE /\ askServerMesh = FALSE /\ askOperation = ""
  /\ askUp = <<>> /\ askDown = <<>>
  /\ srvProfile = NoValue /\ srvRoom = FALSE /\ srvAsks = {} /\ srvCooling = {}
  /\ askIds = 0 /\ askMade = 0 /\ askTroubles = 0

Handle ==
  \/ HandlePublished \/ HandleKnockAnswer \/ HandleKnockInvitation \/ HandleContactInvitation
  \/ HandleKnockAccepted \/ HandleContactAccepted \/ HandleKnockClosed \/ HandleKnockResult
  \/ HandleContactClosed \/ HandleContactResult
  \/ HandleRoomReady \/ HandleRoomRefused \/ HandleRoomLeft \/ HandleJoinRefused

AsksNext ==
  \/ SignalingFails \/ Ready \/ publishPresence
  \/ createMesh \/ MeshJoined \/ quitMesh \/ recoverServerRoom
  \/ \E peer \in Friends : inviteAcquaintance(peer) \/ requestConversationEntry(peer)
                             \/ FriendKnocks(peer) \/ FriendInvites(peer) \/ CoolDown(peer)
  \/ \E accept \in BOOLEAN : respondToEntryRequest(accept) \/ respondToOnlineInvitation(accept)
  \/ Handle
  \/ ServerReceives
  \/ \E k \in srvAsks : AskEnds(k)

AsksSpec == AsksInit /\ [][AsksNext]_askVars

-----------------------------------------------------------------------------
(* Properties.                                                             *)

\* The knock a user is shown is for the conversation the user is in, and one
\* prompt is on screen at a time.
PromptsFit ==
  askInKnock # NoValue => askMesh = [id |-> askInKnock.mesh, joined |-> TRUE] /\ askInvite = NoValue

\* Once nothing is on the way in either direction and no room is being made,
\* the client shows what the server has: the knock that waits for an answer,
\* the prompt of the friend who waits for one, and every invitation that is
\* out.  No prompt is left that can no longer be answered, and no friend waits
\* for an answer the user was never asked for.
AsksAgree ==
  /\ PromptsFit
  /\ askOnline /\ askRegistered /\ askUp = <<>> /\ askDown = <<>> /\ ~askWanted =>
       LET Open(kind, mine) == {<<k.id, k.peer>> : k \in {k \in srvAsks : k.kind = kind /\ k.mine = mine}}
       IN /\ Open("knock", TRUE) = IF askKnock = NoKnock THEN {} ELSE {<<askKnock.id, askKnock.peer>>}
          /\ Open("knock", FALSE) = IF askInKnock = NoValue THEN {} ELSE {<<askInKnock.id, askInKnock.from>>}
          /\ Open("contact", FALSE) = IF askInvite = NoValue THEN {} ELSE {<<askInvite.id, askInvite.from>>}
          /\ {p[2] : p \in Open("contact", TRUE)} \subseteq askTargets

=============================================================================
