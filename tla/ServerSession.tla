--------------------------- MODULE ServerSession ---------------------------
(***************************************************************************)
(* A client's connection to the signaling server                           *)
(* (client/src/signaling_client/signaling_client.cpp) and what             *)
(* NetworkSession does over it to join a mesh through a room and to leave  *)
(* it (client/src/app/network_session_signaling.cpp).                      *)
(*                                                                         *)
(* One client, one server.  The server is Sessions and RoomRegistry cut    *)
(* down to what this client meets: the session on the client's socket, the *)
(* session on a socket the client gave up and the server has not missed    *)
(* yet, and the room either of them is in.  Both directions of a socket    *)
(* keep their order and are lost with it.                                  *)
(*                                                                         *)
(* Clocks are left out: a timeout may pass whenever its timer runs.        *)
(***************************************************************************)
EXTENDS Integers, Sequences

CONSTANTS
  MaxLosses,   \* sockets lost and requests timed out
  MaxJoins,    \* invitations the user follows
  MaxRefreshes \* turn.refresh requests on one socket

VARIABLES
  state,        \* SignalingClient::State
  enabled,      \* reconnectEnabled_
  accessToken,  \* whether a one-use access token is held: accessToken_
  grant,        \* whether grants_ holds a grant of this server
  nextRequest,
  pending,      \* set of [id, type]
  refresh,      \* turnRefreshRequestId_, or 0
  up, down,     \* what is under way on the socket

  serverMesh, inRoom,   \* serverMesh_; whether serverRoomId_ is set
  operation,            \* serverOperation_: "", "join", "joining" or "leave"
  pendingJoin,          \* pendingServerJoin_
  mesh,                 \* "none", "joining" or "joined"
  link,                 \* the link that bootstraps the mesh: "none", "trying", "open"
  untried,              \* members of the room not yet tried

  session,      \* the server's session on this socket: [access, member]
  lost,         \* whether it still has a session of a socket the client gave up
  tokenValid,   \* whether the server would still take the access token
  redeemed,     \* how often the client has sent the token
  blamed,       \* whether a message of the server made the client hang up
  losses, joins, turns

clientVars  == <<state, enabled, accessToken, grant, nextRequest, pending, refresh>>
wireVars    == <<up, down>>
meshVars    == <<serverMesh, inRoom, operation, pendingJoin, mesh, link, untried>>
serverVars  == <<session, lost, tokenValid>>
countVars   == <<losses, joins, turns>>
sessionVars == <<clientVars, wireVars, meshVars, serverVars, redeemed, blamed, countVars>>

States == {"Disabled", "Connecting", "Authenticating", "Ready", "Reconnecting", "AccessRequired"}
Idle   == {"Disabled", "Reconnecting", "AccessRequired"}
Types  == {"auth.authenticate", "access.redeem", "room.join", "room.leave", "turn.refresh"}

\* access: "none" (no socket), "open" (challenged), "granted".
NoSession == [access |-> "none", member |-> FALSE]
Opened    == [access |-> "open", member |-> FALSE]

Request(type, id)  == [type |-> type, id |-> id]
Reply(type, id)    == [kind |-> "reply", type |-> type, id |-> id]
Error(type, id, c) == [kind |-> "error", type |-> type, id |-> id, code |-> c]
Challenge          == [kind |-> "challenge"]

ready == state = "Ready"
busy  == operation # ""

-----------------------------------------------------------------------------
(* The socket.                                                             *)

Under(type) == \E i \in DOMAIN up : up[i].type = type

\* The client's socket is gone; whether the server learns of it at once, and
\* what it still reads of it, is up to the network.
abandon ==
  /\ session' = NoSession
  /\ lost' \in IF session.access = "granted" \/ up # <<>> THEN {lost, TRUE} ELSE {lost}
  /\ tokenValid' \in IF Under("access.redeem") THEN {tokenValid, FALSE} ELSE {tokenValid}
  /\ up' = <<>> /\ down' = <<>>

resetSocket ==
  /\ abandon
  /\ pending' = {}
  /\ refresh' = 0
  /\ turns'   = 0
  /\ nextRequest' = 0

\* Faulty: a join under way outlives the connection.
connectionLost_KeepsJoin ==
  /\ inRoom' = FALSE
  /\ operation' = operation
  /\ pendingJoin' = pendingJoin
  /\ link' = IF link = "trying" THEN "none" ELSE link
  /\ untried' = 0
  /\ UNCHANGED <<serverMesh, mesh>>

\* connectionLost: the room is forgotten, a link still being made is given up,
\* and a client that was joining leaves the mesh; open links stay.
connectionLost ==
  /\ inRoom' = FALSE
  /\ operation' = ""
  /\ pendingJoin' = FALSE
  /\ link' = IF link = "trying" THEN "none" ELSE link
  /\ untried' = 0
  /\ IF serverMesh /\ mesh # "joined"
     THEN serverMesh' = FALSE /\ mesh' = "none"
     ELSE UNCHANGED <<serverMesh, mesh>>

\* stop, and openSocket if the client is to connect anew.
hangUp(newState) ==
  /\ state' = newState
  /\ enabled' = (newState = "Connecting")
  /\ resetSocket

fail ==
  /\ state \notin Idle
  /\ state' = "Reconnecting"
  /\ resetSocket
  /\ connectionLost
  /\ UNCHANGED <<enabled, accessToken, grant>>

requireAccess ==
  /\ state' = "AccessRequired"
  /\ enabled' = FALSE
  /\ accessToken' = FALSE
  /\ resetSocket
  /\ connectionLost
  /\ grant' = grant

\* The user gives the server's address, and with it perhaps an access token:
\* connectTo and redeemAccess, which are refused while a mesh is joined.
connectTo ==
  /\ ~serverMesh /\ ~busy
  /\ joins < MaxJoins /\ joins' = joins + 1
  /\ hangUp("Connecting")
  /\ accessToken' = FALSE
  /\ UNCHANGED <<grant, meshVars, redeemed, blamed, losses>>

redeemAccess ==
  /\ ~serverMesh /\ ~busy
  /\ joins < MaxJoins /\ joins' = joins + 1
  /\ state = "AccessRequired" \/ state = "Disabled"
  /\ state' = "Connecting" /\ enabled' = TRUE /\ nextRequest' = 0
  /\ accessToken' = TRUE /\ tokenValid' = TRUE /\ redeemed' = 0
  /\ UNCHANGED <<grant, pending, refresh, wireVars, meshVars, session, lost, blamed, losses, turns>>

\* The reconnect timer: openSocket.
Reconnect ==
  /\ state = "Reconnecting" /\ enabled
  /\ state' = "Connecting"
  /\ nextRequest' = 0
  /\ UNCHANGED <<enabled, accessToken, grant, pending, refresh, wireVars, meshVars, serverVars,
                 redeemed, blamed, countVars>>

\* The server accepts the socket and sends its challenge.
Accept ==
  /\ state = "Connecting" /\ session.access = "none"
  /\ session' = Opened
  /\ down' = Append(down, Challenge)
  /\ UNCHANGED <<clientVars, up, meshVars, lost, tokenValid, redeemed, blamed, countVars>>

\* The network loses the socket, a ping or the attempt goes unanswered for too
\* long, or a request does, whose outcome is then unknown.
ConnectionFails ==
  /\ losses < MaxLosses /\ losses' = losses + 1
  /\ fail
  /\ UNCHANGED <<redeemed, blamed, joins>>

\* The server misses a session at last.
ServerNotices ==
  /\ lost
  /\ lost' = FALSE
  /\ UNCHANGED <<clientVars, wireVars, meshVars, session, tokenValid, redeemed, blamed, countVars>>

-----------------------------------------------------------------------------
(* Requests.                                                               *)

\* request: a number of this socket, kept until the answer comes.
request(type) ==
  /\ nextRequest' = nextRequest + 1
  /\ pending' = pending \cup {[id |-> nextRequest + 1, type |-> type]}
  /\ up' = Append(up, Request(type, nextRequest + 1))

Arrives(kind) == down # <<>> /\ Head(down).kind = kind

\* Faulty: the token is kept until the server says what became of it.
redeemToken_Keeps ==
  /\ request("access.redeem")
  /\ redeemed' = redeemed + 1
  /\ accessToken' = accessToken

\* The token is forgotten as it is sent: it is never sent twice.
redeemToken ==
  /\ request("access.redeem")
  /\ redeemed' = redeemed + 1
  /\ accessToken' = FALSE

handleChallenge ==
  /\ Arrives("challenge") /\ state = "Connecting"
  /\ \/ /\ accessToken
        /\ redeemToken
        /\ grant' = grant
     \/ /\ ~accessToken /\ grant
        /\ request("auth.authenticate")
        /\ UNCHANGED <<accessToken, grant, redeemed>>
  /\ state' = "Authenticating"
  /\ down' = Tail(down)
  /\ UNCHANGED <<enabled, refresh, meshVars, serverVars, blamed, countVars>>

\* Without a token and without a grant there is nothing to answer.
AccessMissing ==
  /\ Arrives("challenge") /\ state = "Connecting"
  /\ ~accessToken /\ ~grant
  /\ requireAccess
  /\ UNCHANGED <<redeemed, blamed, losses, joins>>

\* submitServerJoin, when the client becomes ready or already is.
submitServerJoin ==
  /\ request("room.join")
  /\ operation' = "joining"

\* readyChanged submits the join that waited for it.
becomeReady ==
  /\ state' = "Ready"
  /\ down' = Tail(down)
  /\ IF pendingJoin /\ operation = "join"
     THEN /\ nextRequest' = nextRequest + 1
          /\ pending' = {[id |-> nextRequest + 1, type |-> "room.join"]}
          /\ up' = Append(up, Request("room.join", nextRequest + 1))
          /\ operation' = "joining"
     ELSE /\ pending' = {}
          /\ UNCHANGED <<nextRequest, up, operation>>
  /\ UNCHANGED <<refresh, serverMesh, inRoom, pendingJoin, mesh, link, untried>>

\* A challenge comes first, and then nothing but answers to pending requests.
expected(m) ==
  IF m.kind = "challenge" THEN state = "Connecting"
  ELSE state \in {"Authenticating", "Ready"} /\ [id |-> m.id, type |-> m.type] \in pending

Answers(kind, types) ==
  /\ Arrives(kind) /\ expected(Head(down))
  /\ Head(down).type \in types

handleAuthenticationResponse ==
  /\ Answers("reply", {"auth.authenticate", "access.redeem"})
  /\ grant' = (grant \/ Head(down).type = "access.redeem")
  /\ becomeReady
  /\ UNCHANGED <<enabled, accessToken, session, lost, tokenValid, redeemed, blamed, countVars>>

\* A proof that is refused costs the access, unless an old session of ours is
\* still in the server: then the client comes back later.
AuthenticationFails ==
  /\ Answers("error", {"auth.authenticate", "access.redeem"})
  /\ IF Head(down).code = "identity_in_use" THEN fail ELSE requireAccess
  /\ UNCHANGED <<redeemed, blamed, losses, joins>>

read == pending' = {p \in pending : p.id # Head(down).id} /\ down' = Tail(down)

-----------------------------------------------------------------------------
(* TURN credentials.                                                       *)

maintainTurnCredentials ==
  /\ ready /\ refresh = 0
  /\ turns < MaxRefreshes /\ turns' = turns + 1
  /\ request("turn.refresh")
  /\ refresh' = nextRequest + 1
  /\ UNCHANGED <<state, enabled, accessToken, grant, down, meshVars, serverVars, redeemed, blamed,
                 losses, joins>>

\* A refresh that is not answered is forgotten; the connection stays.
RefreshTimesOut ==
  /\ ready
  /\ \E p \in pending :
       /\ p.type = "turn.refresh"
       /\ pending' = pending \ {p}
       /\ refresh' = IF refresh = p.id THEN 0 ELSE refresh
  /\ UNCHANGED <<state, enabled, accessToken, grant, nextRequest, wireVars, meshVars, serverVars,
                 redeemed, blamed, countVars>>

\* The credentials are there, or another refresh is tried later.
RefreshAnswered ==
  /\ Answers("reply", {"turn.refresh"}) \/ Answers("error", {"turn.refresh"})
  /\ read
  /\ refresh' = 0
  /\ UNCHANGED <<state, enabled, accessToken, grant, nextRequest, up, meshVars, serverVars,
                 redeemed, blamed, countVars>>

\* Faulty: every answer to no pending request is an offence.
retired_Never(m) == FALSE

\* The answer to a refresh that timed out is known by its number.
retired(m) ==
  /\ m.kind # "challenge" /\ state \in {"Authenticating", "Ready"}
  /\ m.type = "turn.refresh" /\ m.id <= nextRequest

\* A challenge or an answer that the client does not wait for.
UnknownAnswer ==
  /\ down # <<>> /\ ~expected(Head(down))
  /\ IF retired(Head(down))
     THEN /\ down' = Tail(down)
          /\ UNCHANGED <<clientVars, up, meshVars, serverVars, turns, blamed>>
     ELSE /\ fail
          /\ blamed' = TRUE
  /\ UNCHANGED <<redeemed, losses, joins>>

-----------------------------------------------------------------------------
(* Joining and leaving.                                                    *)

\* The user follows an invitation; without a connection one is opened.
joinServerInvitation ==
  /\ mesh = "none" /\ ~busy
  /\ joins < MaxJoins /\ joins' = joins + 1
  /\ serverMesh' = TRUE /\ pendingJoin' = TRUE /\ mesh' = "joining"
  /\ IF ready
     THEN /\ submitServerJoin
          /\ UNCHANGED <<state, enabled, accessToken, refresh, down, serverVars, turns>>
     ELSE /\ operation' = "join"
          /\ hangUp("Connecting")
          /\ accessToken' = FALSE
  /\ UNCHANGED <<grant, inRoom, link, untried, redeemed, blamed, losses>>

\* The join succeeded: bootstrap over one of the members after the other.
JoinAccepted ==
  /\ Answers("reply", {"room.join"})
  /\ read
  /\ IF serverMesh /\ operation = "joining" /\ pendingJoin
     THEN inRoom' = TRUE /\ pendingJoin' = FALSE /\ operation' = "" /\ untried' = 1 /\ link' = "trying"
     ELSE UNCHANGED <<inRoom, pendingJoin, operation, untried, link>>
  /\ UNCHANGED <<state, enabled, accessToken, grant, nextRequest, refresh, up, serverMesh, mesh,
                 serverVars, redeemed, blamed, countVars>>

\* continueServerBootstrap, when the link of an attempt has failed.
BootstrapFails ==
  /\ link = "trying"
  /\ IF untried > 0 /\ inRoom /\ ready
     THEN untried' = untried - 1 /\ link' = "trying"
     ELSE untried' = untried /\ link' = "none"
  /\ UNCHANGED <<clientVars, wireVars, serverMesh, inRoom, operation, pendingJoin, mesh, serverVars,
                 redeemed, blamed, countVars>>

BootstrapOpens ==
  /\ link = "trying"
  /\ link' = "open"
  /\ mesh' = "joined"
  /\ UNCHANGED <<clientVars, wireVars, serverMesh, inRoom, operation, pendingJoin, untried,
                 serverVars, redeemed, blamed, countVars>>

\* Whether the room can be left by a request.
canLeave == ready /\ inRoom /\ operation = ""

forgetMesh ==
  /\ serverMesh' = FALSE /\ inRoom' = FALSE /\ pendingJoin' = FALSE
  /\ mesh' = "none" /\ link' = "none" /\ untried' = 0

\* Faulty: lets a join that is under way go on.
dropConnection_Keeps ==
  /\ operation' = ""
  /\ UNCHANGED <<clientVars, wireVars, serverVars, turns>>

\* A join that is under way is cut off with the connection, so that a late
\* reply leaves no orphan room; the configured server is dialled again.
dropConnection ==
  /\ operation' = ""
  /\ \E newState \in {"Disabled", "Connecting"} : hangUp(newState)
  /\ accessToken' = FALSE
  /\ grant' = grant

\* leaveMesh with leaveServerRoom.
leaveMesh ==
  /\ forgetMesh
  /\ \/ /\ canLeave
        /\ request("room.leave")
        /\ operation' = "leave"
        /\ UNCHANGED <<state, enabled, accessToken, grant, refresh, down, serverVars, turns>>
     \/ /\ ~canLeave
        /\ dropConnection
  /\ UNCHANGED <<redeemed, blamed, losses, joins>>

\* The user leaves.
Leave == mesh = "joined" /\ leaveMesh

\* The join takes too long, or the user thinks better of it.
serverJoinDeadline == serverMesh /\ mesh = "joining" /\ leaveMesh

LeaveAnswered ==
  /\ Answers("reply", {"room.leave"})
  /\ read
  /\ operation' = ""
  /\ UNCHANGED <<state, enabled, accessToken, grant, nextRequest, refresh, up, serverMesh, inRoom,
                 pendingJoin, mesh, link, untried, serverVars, redeemed, blamed, countVars>>

\* A join that was refused for good made no membership, and the connection is
\* kept; after any other refusal it is dropped.
JoinRejected ==
  /\ Answers("error", {"room.join"})
  /\ forgetMesh
  /\ \/ /\ Head(down).code = "invalid_invitation"
        /\ read
        /\ operation' = ""
        /\ UNCHANGED <<state, enabled, accessToken, grant, nextRequest, refresh, up, serverVars,
                       turns>>
     \/ /\ Head(down).code # "invalid_invitation"
        /\ dropConnection
  /\ UNCHANGED <<redeemed, blamed, losses, joins>>

-----------------------------------------------------------------------------
(* The server, as the client meets it.                                     *)

\* It answers a request and closes the sessions whose proof it refuses.
answer(message, newSession) ==
  /\ up' = Tail(up)
  /\ down' = Append(down, message)
  /\ session' = newSession
  /\ UNCHANGED <<clientVars, meshVars, redeemed, blamed, countVars>>

Asked(types) == up # <<>> /\ Head(up).type \in types

refused(code) == answer(Error(Head(up).type, Head(up).id, code), session)
granted(newSession) == answer(Reply(Head(up).type, Head(up).id), newSession)

\* The identity must not be in use; then a token is used up.
ServeProof ==
  /\ Asked({"auth.authenticate", "access.redeem"})
  /\ \/ /\ lost
        /\ answer(Error(Head(up).type, Head(up).id, "identity_in_use"), NoSession)
        /\ tokenValid' = tokenValid
     \/ /\ ~lost /\ Head(up).type = "access.redeem" /\ ~tokenValid
        /\ answer(Error(Head(up).type, Head(up).id, "access_denied"), NoSession)
        /\ tokenValid' = tokenValid
     \/ /\ ~lost /\ (Head(up).type = "access.redeem" => tokenValid)
        /\ granted([session EXCEPT !.access = "granted"])
        /\ tokenValid' = (tokenValid /\ Head(up).type # "access.redeem")
  /\ lost' = lost

ServeJoin ==
  /\ Asked({"room.join"})
  /\ \/ granted([session EXCEPT !.member = TRUE])
     \/ \E code \in {"invalid_invitation", "resource_limit"} : refused(code)
  /\ UNCHANGED <<lost, tokenValid>>

ServeLeave ==
  /\ Asked({"room.leave"})
  /\ granted([session EXCEPT !.member = FALSE])
  /\ UNCHANGED <<lost, tokenValid>>

ServeRefresh ==
  /\ Asked({"turn.refresh"})
  /\ granted(session) \/ refused("resource_limit")
  /\ UNCHANGED <<lost, tokenValid>>

-----------------------------------------------------------------------------
SessionInit ==
  /\ state \in {"Disabled", "Connecting"} /\ enabled = (state = "Connecting")
  /\ accessToken = FALSE /\ grant \in BOOLEAN
  /\ nextRequest = 0 /\ pending = {} /\ refresh = 0
  /\ up = <<>> /\ down = <<>>
  /\ serverMesh = FALSE /\ inRoom = FALSE /\ operation = "" /\ pendingJoin = FALSE
  /\ mesh = "none" /\ link = "none" /\ untried = 0
  /\ session = NoSession /\ lost = FALSE /\ tokenValid = FALSE
  /\ redeemed = 0 /\ blamed = FALSE
  /\ losses = 0 /\ joins = 0 /\ turns = 0

SessionNext ==
  \/ connectTo \/ redeemAccess \/ Reconnect \/ Accept
  \/ ConnectionFails \/ ServerNotices
  \/ handleChallenge \/ AccessMissing
  \/ handleAuthenticationResponse \/ AuthenticationFails
  \/ maintainTurnCredentials \/ RefreshTimesOut \/ RefreshAnswered \/ UnknownAnswer
  \/ joinServerInvitation \/ JoinAccepted \/ JoinRejected \/ serverJoinDeadline
  \/ BootstrapFails \/ BootstrapOpens
  \/ Leave \/ LeaveAnswered
  \/ ServeProof \/ ServeJoin \/ ServeLeave \/ ServeRefresh

SessionSpec == SessionInit /\ [][SessionNext]_sessionVars

-----------------------------------------------------------------------------
\* The type of every variable.
SessionTypeOK ==
  /\ state \in States
  /\ enabled \in BOOLEAN /\ accessToken \in BOOLEAN /\ grant \in BOOLEAN
  /\ serverMesh \in BOOLEAN /\ inRoom \in BOOLEAN /\ pendingJoin \in BOOLEAN
  /\ lost \in BOOLEAN /\ tokenValid \in BOOLEAN /\ blamed \in BOOLEAN
  /\ nextRequest \in Nat /\ refresh \in 0..nextRequest
  /\ pending \subseteq [id : 1..nextRequest, type : Types]
  /\ operation \in {"", "join", "joining", "leave"}
  /\ mesh \in {"none", "joining", "joined"}
  /\ link \in {"none", "trying", "open"}
  /\ untried \in 0..1
  /\ session \in [access : {"none", "open", "granted"}, member : BOOLEAN]
  /\ losses \in Nat /\ joins \in Nat /\ turns \in Nat /\ redeemed \in Nat

\* The server never holds a place in a room for a client that has left the mesh,
\* unless the request to leave the room is under way: whatever the client does
\* with a join whose answer is still on its way (leaveServerRoom,
\* network_session_signaling.cpp 539-544).
NoOrphanRoom ==
  session.member => serverMesh \/ \E p \in pending : p.type = "room.leave"

\* An operation that keeps the user from starting another is waiting for
\* something that will come: the answer to its request, or a connection that
\* is being made (connectionLost, network_session_signaling.cpp 72-109).
OperationsEnd ==
  /\ operation = "join"    => state \in {"Connecting", "Authenticating"} /\ pendingJoin
  /\ operation = "joining" => \E p \in pending : p.type = "room.join"
  /\ operation = "leave"   => \E p \in pending : p.type = "room.leave"

\* An access token the user pasted once is sent to a server once, however often
\* the connection is made anew (handleChallenge, signaling_client.cpp 399-412).
TokenSentOnce == redeemed <= 1

\* A server that answers every request once never makes the client hang up on it,
\* not even with the late answer to a refresh that was given up
\* (handleResponse, signaling_client.cpp 450-462).
HonestServerKept == ~blamed

\* What the client thinks of its connection is true of the server: a room is
\* left or lost on both sides, every operation under way will be answered, the
\* access token is sent once at most, and a server that keeps to the protocol is
\* never hung up on (signaling_client.cpp, network_session_signaling.cpp).
ClientAndServerAgree ==
  SessionTypeOK /\ NoOrphanRoom /\ OperationsEnd /\ TokenSentOnce /\ HonestServerKept
=============================================================================
