---------------------------- MODULE RoomRecovery ----------------------------
(***************************************************************************)
(* How the members of a mesh find themselves a common room again when the  *)
(* signaling server has lost some of them or all                           *)
(* (client/src/app/network_session_recovery.cpp).                          *)
(*                                                                         *)
(* The mesh is complete and stays so: every two members have an open link  *)
(* that keeps the order of its packets and loses none.  The members' own   *)
(* connections to the server come and go.  Of the server there are the     *)
(* rooms, who is in them, and the invitations, as RoomRegistry has them.   *)
(* Members and rooms are numbers, whose order stands for the order of      *)
(* their identifiers.                                                      *)
(*                                                                         *)
(* Clocks are left out.  The timer of recoverServerRoom may fire at any    *)
(* time.  Two periods are taken to be long enough: the pause before a      *)
(* member acts anew (recoveryAfter_, one to five seconds) outlasts the     *)
(* packets then under way between the members, and the ten seconds a       *)
(* request for an invitation stands outlast the request and its answer.    *)
(* Nothing is said of how long the server takes.                           *)
(***************************************************************************)
EXTENDS Integers, Sequences, FiniteSets, Functions

CONSTANTS
  Members,   \* members of the mesh
  Rooms,     \* the rooms the server may ever make
  MaxLosses  \* connections to the server that are lost

ASSUME RoomRecoveryAssumption ==
  /\ Members \subseteq Nat \ {0} /\ IsFiniteSet(Members)
  /\ Rooms \subseteq Nat \ {0}
  /\ MaxLosses \in Nat

VARIABLES
  online,    \* whether the client of a member is ready
  session,   \* the number of its latest session
  room,      \* serverRoomId_, or 0
  operation, \* serverOperation_ less the "recover-", or ""
  pausing,   \* whether recoveryAfter_ is still to come
  wanted,    \* recoveryJoin_, or NoRequest
  view,      \* recoveryPeers_: what a member knows of another
  jobs,      \* recoveryInvites_: the invitations it is having made for others
  cache,     \* recoveryTokens_
  packets,   \* packets[m][n]: on their way from m to n
  up, down,  \* the two directions of its connection to the server
  memberOf,  \* the server's room of a member's session, or 0
  made,      \* the rooms that have been made
  tokens,    \* the invitations in force: [room, issuer, number]
  minted,
  losses

memberVars == <<online, session, room, operation, pausing, wanted, view, jobs, cache>>
serverVars == <<memberOf, made, tokens, minted>>
vars == <<memberVars, packets, up, down, serverVars, losses>>

Others(m) == Members \ {m}

NoRequest  == [peer |-> 0, room |-> 0, id |-> 0]
NoToken    == [room |-> 0]
Unknown    == [session |-> 0, room |-> 0]

State(s, r)         == [kind |-> "state", session |-> s, room |-> r]
JoinRequest(i, s, r) == [kind |-> "request", id |-> i, session |-> s, room |-> r]
Invitation(i, s, r, t) ==
  [kind |-> "invitation", id |-> i, session |-> s, room |-> r, token |-> t]

send(m, n, packet) == packets' = [packets EXCEPT ![m][n] = Append(@, packet)]

\* broadcastSignalingState: what m tells the others of itself.
broadcast(m, s, r) ==
  packets' = [packets EXCEPT ![m] = [n \in Members |->
                IF n = m THEN <<>> ELSE Append(packets[m][n], State(s, r))]]

request(m, message) == up' = [up EXCEPT ![m] = Append(@, message)]

-----------------------------------------------------------------------------
(* The timer: recoverServerRoom.                                           *)

\* The members that are connected to the server, as far as m knows.
Seen(m) == {n \in Others(m) : view[m][n].session # 0}

Least(S) == CHOOSE x \in S : \A y \in S : x <= y

\* Faulty: a member that has a room looks no further.
Target_Own(m) ==
  LET known == {view[m][n].room : n \in Seen(m)} \ {0}
  IN  IF room[m] # 0 THEN room[m] ELSE IF known = {} THEN 0 ELSE Least(known)

\* Any room wins over none, and the smallest over the others.
Target(m) ==
  LET known == ({view[m][n].room : n \in Seen(m)} \cup {room[m]}) \ {0}
  IN  IF known = {} THEN 0 ELSE Least(known)

Issuer(m) == Least({n \in Seen(m) : view[m][n].room = Target(m)})

Leads(m) == \A n \in Seen(m) : m < n

\* Faulty: the timer does not wait for the move that is under way.
Recovers_Again(m) == online[m] /\ ~pausing[m]

Recovers(m) == online[m] /\ operation[m] = "" /\ ~pausing[m]

\* The pause is over; what was under way has arrived.
PauseEnds(m) ==
  /\ pausing[m]
  /\ \A n \in Others(m) : packets[m][n] = <<>> /\ packets[n][m] = <<>>
  /\ pausing' = [pausing EXCEPT ![m] = FALSE]
  /\ UNCHANGED <<online, session, room, operation, wanted, view, jobs, cache, packets, up, down,
                 serverVars, losses>>

\* The server membership moves to the smaller room; the mesh is not touched.
RecoverLeave(m) ==
  /\ Recovers(m)
  /\ room[m] # 0 /\ room[m] # Target(m)
  /\ operation' = [operation EXCEPT ![m] = "leave"]
  /\ wanted' = [wanted EXCEPT ![m] = NoRequest]
  /\ request(m, [type |-> "room.leave"])
  /\ room'  = [room EXCEPT ![m] = 0]
  /\ jobs'  = [jobs EXCEPT ![m] = {}]
  /\ cache' = [cache EXCEPT ![m] = [n \in Members |-> NoToken]]
  /\ broadcast(m, session[m], 0)
  /\ UNCHANGED <<online, session, pausing, view, down, serverVars, losses>>

\* A request for an invitation still stands while the peer that was asked has
\* the room, and its answer may still come.
UnderWay(m) ==
  LET n == wanted[m].peer
      mine(S) == \E i \in DOMAIN S : S[i].kind # "state" /\ S[i].id = wanted[m].id
  IN  mine(packets[m][n]) \/ mine(packets[n][m]) \/ \E j \in jobs[n] : j.peer = m /\ j.id = wanted[m].id

Stands(m) ==
  /\ wanted[m] # NoRequest
  /\ wanted[m].peer = Issuer(m) /\ wanted[m].room = Target(m)
  /\ UnderWay(m)

\* createUuid: an identifier none of the requests of m that are still about has.
Fresh(m) ==
  LET used == {wanted[m].id} \cup
        UNION {{j.id : j \in {k \in jobs[n] : k.peer = m}} : n \in Members} \cup
        UNION {{p.id : p \in {q \in Range(packets[m][n]) : q.kind = "request"} \cup
                             {q \in Range(packets[n][m]) : q.kind = "invitation"}} : n \in Members} \cup
        UNION {{a.for : a \in {b \in Range(up[n]) \cup Range(down[n]) :
                                b.type = "invite.create" /\ b.peer = m}} : n \in Members}
  IN  CHOOSE i \in 1..Cardinality(used) + 1 : i \notin used

RecoverJoin(m) ==
  /\ Recovers(m)
  /\ room[m] = 0 /\ Target(m) # 0
  /\ ~Stands(m)
  /\ wanted' = [wanted EXCEPT ![m] =
                  [peer |-> Issuer(m), room |-> Target(m), id |-> Fresh(m)]]
  /\ send(m, Issuer(m), JoinRequest(Fresh(m), session[m], Target(m)))
  /\ UNCHANGED <<online, session, room, operation, pausing, view, jobs, cache, up, down, serverVars, losses>>

RecoverCreate(m) ==
  /\ Recovers(m)
  /\ room[m] = 0 /\ Target(m) = 0
  /\ Leads(m)
  /\ operation' = [operation EXCEPT ![m] = "create"]
  /\ wanted' = [wanted EXCEPT ![m] = NoRequest]
  /\ request(m, [type |-> "room.create"])
  /\ UNCHANGED <<online, session, room, pausing, view, jobs, cache, packets, down, serverVars, losses>>

-----------------------------------------------------------------------------
(* Packets from the other members: handleRecoveryPacket, at n from m.      *)

Rest(m, n) == [packets EXCEPT ![m][n] = Tail(@)]

\* What a member says of itself; an invitation made for it is worth nothing
\* once it has a room or another session.
HandleState(m, n, p) ==
  /\ p.kind = "state"
  /\ view' = [view EXCEPT ![n][m] = [session |-> p.session, room |-> p.room]]
  /\ cache' = IF cache[n][m] # NoToken /\ (cache[n][m].session # p.session \/ p.room # 0)
              THEN [cache EXCEPT ![n][m] = NoToken] ELSE cache
  /\ packets' = Rest(m, n)
  /\ UNCHANGED <<online, session, room, operation, pausing, wanted, jobs, up>>

\* The invitation answers the request that stands, and nothing has changed.
MayJoin(m, n, p) ==
  /\ online[n] /\ operation[n] = "" /\ room[n] = 0
  /\ wanted[n].peer = m /\ wanted[n].id = p.id /\ wanted[n].room = p.room
  /\ p.session = session[n]
  /\ view[n][m].room = p.room

HandleInvitation(m, n, p) ==
  /\ p.kind = "invitation"
  /\ packets' = Rest(m, n)
  /\ IF MayJoin(m, n, p)
     THEN /\ operation' = [operation EXCEPT ![n] = "join"]
          /\ request(n, [type |-> "room.join", token |-> p.token])
     ELSE UNCHANGED <<operation, up>>
  /\ UNCHANGED <<online, session, room, pausing, wanted, view, jobs, cache>>

\* Whether the request comes from the session of m that n knows of, which has
\* no room, and asks for the room of n.
MayInvite(m, n, p) ==
  /\ online[n] /\ room[n] # 0 /\ p.room = room[n]
  /\ p.session = view[n][m].session /\ view[n][m].room = 0

\* The invitation that was made before, the one being made, or a new one.
HandleRequest(m, n, p) ==
  LET t == cache[n][m]
      same(j) == j.session = p.session /\ j.room = p.room
      mine == {j \in jobs[n] : j.peer = m}
  IN
  /\ p.kind = "request"
  /\ IF ~MayInvite(m, n, p)
     THEN packets' = Rest(m, n) /\ UNCHANGED <<jobs, up>>
     ELSE \/ /\ t # NoToken /\ same(t)
             /\ packets' = [Rest(m, n) EXCEPT ![n][m] =
                              Append(@, Invitation(p.id, t.session, t.room, t.token))]
             /\ UNCHANGED <<jobs, up>>
          \/ /\ ~(t # NoToken /\ same(t))
             /\ packets' = Rest(m, n)
             /\ IF mine # {}
                THEN /\ jobs' = [jobs EXCEPT ![n] = (@ \ mine) \cup
                           {IF same(j) THEN [j EXCEPT !.id = p.id] ELSE j : j \in mine}]
                     /\ up' = up
                ELSE /\ jobs' = [jobs EXCEPT ![n] = @ \cup
                           {[peer |-> m, id |-> p.id, session |-> p.session, room |-> p.room,
                             for |-> p.id]}]
                     /\ request(n, [type |-> "invite.create", room |-> room[n], peer |-> m, for |-> p.id])
  /\ UNCHANGED <<online, session, room, operation, pausing, wanted, view, cache>>

Deliver(m, n) ==
  /\ packets[m][n] # <<>>
  /\ LET p == Head(packets[m][n]) IN
       HandleState(m, n, p) \/ HandleInvitation(m, n, p) \/ HandleRequest(m, n, p)
  /\ UNCHANGED <<down, serverVars, losses>>

-----------------------------------------------------------------------------
(* The server.                                                             *)

leaveRoom(m) ==
  /\ memberOf' = [memberOf EXCEPT ![m] = 0]
  /\ tokens' = {t \in tokens : t.issuer # m}

\* A request with what the server adds to it in its answer.
with(asks, given) ==
  [field \in DOMAIN asks \cup DOMAIN given |->
     IF field \in DOMAIN given THEN given[field] ELSE asks[field]]

\* It reads the next request of m and answers.
Serve(m) ==
  LET asks == Head(up[m])
      answer(message) == down' = [down EXCEPT ![m] = Append(@, message)]
      reply(r) == answer(with(asks, [kind |-> "reply", room |-> r]))
      error(code) == answer(with(asks, [kind |-> "error", code |-> code])) /\ UNCHANGED serverVars
  IN
  /\ up[m] # <<>>
  /\ up' = [up EXCEPT ![m] = Tail(@)]
  /\ CASE asks.type = "room.create" /\ memberOf[m] = 0 ->
            \E r \in Rooms \ made :
              /\ reply(r)
              /\ made' = made \cup {r}
              /\ memberOf' = [memberOf EXCEPT ![m] = r]
              /\ UNCHANGED <<tokens, minted>>
       [] asks.type = "room.join" /\ memberOf[m] = 0 /\ asks.token \in tokens ->
            /\ reply(asks.token.room)
            /\ memberOf' = [memberOf EXCEPT ![m] = asks.token.room]
            /\ tokens' = tokens \ {asks.token}
            /\ UNCHANGED <<made, minted>>
       [] asks.type = "room.leave" /\ memberOf[m] # 0 ->
            /\ reply(memberOf[m])
            /\ leaveRoom(m)
            /\ UNCHANGED <<made, minted>>
       [] asks.type = "invite.create" /\ memberOf[m] # 0 /\ memberOf[m] = asks.room ->
            LET t == [room |-> memberOf[m], issuer |-> m, number |-> minted + 1] IN
            /\ answer(with(asks, [kind |-> "reply", token |-> t]))
            /\ tokens' = tokens \cup {t}
            /\ minted' = minted + 1
            /\ UNCHANGED <<memberOf, made>>
       [] asks.type = "room.join" /\ memberOf[m] = 0 /\ asks.token \notin tokens ->
            error("invalid_invitation")
       [] asks.type \in {"room.create", "room.join"} /\ memberOf[m] # 0 -> error("busy")
       [] asks.type \in {"room.leave", "invite.create"} /\ memberOf[m] = 0 -> error("not_in_room")
       [] asks.type = "invite.create" /\ memberOf[m] \notin {0, asks.room} ->
            error("room_mismatch")
  /\ UNCHANGED <<memberVars, packets, losses>>

-----------------------------------------------------------------------------
(* Answers from the server: handleRecoveryResponse, handleRecoveryFailure. *)

\* Faulty: the room survives the connection.
roomForgotten_Not(m) == room

roomForgotten(m) == [room EXCEPT ![m] = 0]

\* connectionLost, for whatever reason, with the socket it was on.
disconnect(m) ==
  /\ online' = [online EXCEPT ![m] = FALSE]
  /\ room' = roomForgotten(m)
  /\ operation' = [operation EXCEPT ![m] = ""]
  /\ wanted' = [wanted EXCEPT ![m] = NoRequest]
  /\ jobs' = [jobs EXCEPT ![m] = {}]
  /\ cache' = [cache EXCEPT ![m] = [n \in Members |-> NoToken]]
  /\ broadcast(m, 0, 0)
  /\ up' = [up EXCEPT ![m] = <<>>]
  /\ down' = [down EXCEPT ![m] = <<>>]
  /\ leaveRoom(m)
  /\ pausing' = [pausing EXCEPT ![m] = TRUE]
  /\ UNCHANGED <<session, view, made, minted>>

Job(m, a) == {j \in jobs[m] : a.type = "invite.create" /\ j.peer = a.peer /\ j.for = a.for}

\* The token an invitation was to carry; it is passed on if the peer still
\* wants it, and kept for when it asks again.
InvitationMade(m, a) ==
  /\ a.kind = "reply"
  /\ \E j \in Job(m, a) :
       /\ jobs' = [jobs EXCEPT ![m] = @ \ {j}]
       /\ IF room[m] = j.room /\ view[m][j.peer] = [session |-> j.session, room |-> 0]
          THEN /\ cache' = [cache EXCEPT ![m][j.peer] =
                              [session |-> j.session, room |-> j.room, token |-> a.token]]
               /\ send(m, j.peer, Invitation(j.id, j.session, j.room, a.token))
          ELSE UNCHANGED <<cache, packets>>
  /\ down' = [down EXCEPT ![m] = Tail(@)]
  /\ UNCHANGED <<online, session, room, operation, pausing, wanted, view, up, serverVars>>

\* The answer to a job of a room that was left in the meantime.
Forgotten(m, a) ==
  /\ a.type = "invite.create" /\ Job(m, a) = {}
  /\ down' = [down EXCEPT ![m] = Tail(@)]
  /\ UNCHANGED <<memberVars, packets, up, serverVars>>

Mine(a) == a.type \in {"room.create", "room.join", "room.leave"}

\* The move is done.
OperationDone(m, a) ==
  LET r == IF a.type = "room.leave" THEN room[m] ELSE a.room IN
  /\ a.kind = "reply" /\ Mine(a)
  /\ operation' = [operation EXCEPT ![m] = ""]
  /\ wanted' = IF a.type = "room.leave" THEN wanted ELSE [wanted EXCEPT ![m] = NoRequest]
  /\ room' = [room EXCEPT ![m] = r]
  /\ broadcast(m, session[m], r)
  /\ down' = [down EXCEPT ![m] = Tail(@)]
  /\ pausing' = [pausing EXCEPT ![m] = TRUE]
  /\ UNCHANGED <<online, session, view, jobs, cache, up, serverVars>>

\* A token that is no longer good is forgotten, and the member asks anew.
OperationRefused(m, a) ==
  /\ a.kind = "error" /\ a.code = "invalid_invitation"
  /\ operation' = [operation EXCEPT ![m] = ""]
  /\ wanted' = [wanted EXCEPT ![m] = NoRequest]
  /\ down' = [down EXCEPT ![m] = Tail(@)]
  /\ pausing' = [pausing EXCEPT ![m] = TRUE]
  /\ UNCHANGED <<online, session, room, view, jobs, cache, packets, up, serverVars>>

\* The server contradicts what the client takes for its membership: the client
\* starts again with a new connection.
Contradicts(m, a) ==
  /\ a.kind = "error"
  /\ \/ a.code = "busy"
     \/ a.type = "room.leave"
     \/ a.code = "not_in_room" /\ Job(m, a) # {}

Receive(m) ==
  /\ down[m] # <<>>
  /\ LET a == Head(down[m]) IN
       \/ InvitationMade(m, a)
       \/ Forgotten(m, a)
       \/ OperationDone(m, a)
       \/ OperationRefused(m, a)
       \/ Contradicts(m, a) /\ disconnect(m)
  /\ losses' = losses

-----------------------------------------------------------------------------
(* Connections to the server.                                              *)

Lose(m) ==
  /\ online[m]
  /\ losses < MaxLosses /\ losses' = losses + 1
  /\ disconnect(m)

Ready(m) ==
  /\ ~online[m]
  /\ online' = [online EXCEPT ![m] = TRUE]
  /\ session' = [session EXCEPT ![m] = @ + 1]
  /\ broadcast(m, session[m] + 1, 0)
  /\ pausing' = [pausing EXCEPT ![m] = TRUE]
  /\ UNCHANGED <<room, operation, wanted, view, jobs, cache, up, down, serverVars, losses>>

-----------------------------------------------------------------------------
Init ==
  /\ online = [m \in Members |-> FALSE]
  /\ session = [m \in Members |-> 0]
  /\ room = [m \in Members |-> 0]
  /\ operation = [m \in Members |-> ""]
  /\ pausing = [m \in Members |-> TRUE]
  /\ wanted = [m \in Members |-> NoRequest]
  /\ view = [m \in Members |-> [n \in Members |-> Unknown]]
  /\ jobs = [m \in Members |-> {}]
  /\ cache = [m \in Members |-> [n \in Members |-> NoToken]]
  /\ packets = [m \in Members |-> [n \in Members |-> <<>>]]
  /\ up = [m \in Members |-> <<>>]
  /\ down = [m \in Members |-> <<>>]
  /\ memberOf = [m \in Members |-> 0]
  /\ made = {} /\ tokens = {} /\ minted = 0
  /\ losses = 0

recoverServerRoom(m) == RecoverLeave(m) \/ RecoverJoin(m) \/ RecoverCreate(m)

Next ==
  \E m \in Members :
    \/ PauseEnds(m)
    \/ RecoverLeave(m) \/ RecoverJoin(m) \/ RecoverCreate(m)
    \/ \E n \in Others(m) : Deliver(m, n)
    \/ Serve(m) \/ Receive(m)
    \/ Lose(m) \/ Ready(m)

Spec == Init /\ [][Next]_vars

\* The timer keeps running, links and sockets deliver, and a lost connection
\* to the server is made anew.
Fairness ==
  \A m \in Members :
    /\ WF_vars(recoverServerRoom(m)) /\ WF_vars(PauseEnds(m))
    /\ \A n \in Others(m) : WF_vars(Deliver(m, n))
    /\ WF_vars(Serve(m)) /\ WF_vars(Receive(m)) /\ WF_vars(Ready(m))

FairSpec == Spec /\ Fairness

-----------------------------------------------------------------------------
\* Nothing is under way that would change a member's membership.
Settled(m) ==
  /\ \A i \in DOMAIN up[m] : ~Mine(up[m][i])
  /\ \A i \in DOMAIN down[m] : ~Mine(down[m][i])

\* A client and the server agree on the client's room whenever no request that
\* changes it is under way, and the client then is free to make one: the
\* server never finds that a client is where it does not take itself to be
\* (recoverServerRoom, handleRecoveryResponse, 86-123 and 214-237).
MembershipsAgree ==
  \A m \in Members :
    Settled(m) => room[m] = memberOf[m] /\ operation[m] = ""

\* The server never contradicts a client about its membership.
NeverContradicted ==
  \A m \in Members : down[m] # <<>> => ~Contradicts(m, Head(down[m]))

\* The two views of a member's room are never out of step but for what is under
\* way between them.
OneViewOfRooms == MembershipsAgree /\ NeverContradicted

\* Once connections stop being lost, all members come to one room and stay
\* there, whatever rooms they were in or were making (recoverServerRoom 60-75).
Converges ==
  <>[](\E r \in Rooms : \A m \in Members : room[m] = r /\ memberOf[m] = r)
=============================================================================
