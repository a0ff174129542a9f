# TinyMeshChat: verification

TLA+ models of TinyMeshChat, a serverless group chat (text, voice, files, screen
sharing) over a full mesh of WebRTC links, with an optional signaling server that
lets peers find each other. The models are written from the sources; where a
document and the code differ, the code is what is modelled. Source paths below
are relative to the repository root.

## The system

### Server (`server/`, one event-loop thread, state in memory only)

| component | state | operations | called by / calls |
|---|---|---|---|
| room registry (`room_registry.cpp`) | `memberships_` (session → room, peer id), `rooms_` (room → peers, invitations) | `room.create`, `room.join`, `invite.create`, `room.leave`, `signal.send`, `disconnect`, `expireInvitations` | called by the transport, and by the presence registry for tokens; returns a batch of deliveries |
| presence registry (`presence_registry.cpp`) | profiles, knocks, contact invitations, pauses between asks, last snapshots | `presence.publish`, `mesh.leave`, `knock.*`, `contact.*`, `direct.send`, `mesh.relay`, `maintainInvitations`, `disconnect` | reads the room registry, issues its tokens |
| transport (`signaling_server.cpp`) | sockets, clients, `pendingDeliveries_`, `delivering_` | `registerClient`, `receive`, `deliver`, `send`, `removeClient`, `maintainConnections` | routes requests, sends the batches; a failed send closes its client, which calls back into both registries |
| access control (`handleAccess`) | nonce and identity of a session, access invitations | `auth.authenticate`, `access.redeem`, `access.invite` | the transport |
| TURN service | the shared secret | issues credentials | `handleAccess`, `turn.refresh` |

### Client (`client/`, one GUI thread, with worker threads below WebRTC, audio, capture and updates)

| component | state | what makes it hard |
|---|---|---|
| signaling client (`signaling_client.cpp`) | connection state, generation, pending requests, TURN credentials, retry counter | unknown outcomes; stale TURN answers; one-use tokens across reconnections |
| network session (`network_session*.cpp`) | which server room it is in, pending joins, asks, recovery tokens, reachability | glue of all that follows; server and mesh membership move separately |
| mesh coordinator (`mesh_coordinator.cpp`) | known peers, departed peers, link generations, retries | announcements, departures and rejoins that overtake each other |
| connection manager (`connection_manager.cpp`, `peer_connection.cpp`) | links, deadlines, grace periods, audio negotiation | timers of an earlier stage; callbacks posted from another thread; crossing renegotiations |
| router (`signaling_router.cpp`) | reverse routes, packets seen, requests under way | flooding, loops, requests that are lost |
| room recovery (`network_session_recovery.cpp`) | what each peer said about its server room, cached tokens | distributed convergence after a server restart |
| presence and asks (`network_session_presence.cpp`) | knocks and invitations as the user sees them | asks that end on the server while an answer is under way |
| messaging (`messaging_service.cpp`, `delivery_tracker.cpp`) | logical clock, messages seen, acknowledgements | duplicates over two links, bounded memory, the end of the clock |
| file transfer (`file_transfer_service.cpp`) | one entry per transfer and end, one reply slot, retired transfers | links that break while frames are under way; two ends that notice at different times |
| personal connections (`personal_connections.cpp`) | links outside the mesh for files | simultaneous offers, lost descriptions |
| screen sharing (`screen_share_service.cpp`) | local or remote stream, stopped streams; pieces and pictures in workers | simultaneous starts without a server; a channel that loses and reorders |
| audio (`voice_session.cpp`, `rtp_audio_engine.cpp`, `audio_transport_worker.cpp`) | the call's flags, half-made frames, gates and queues | three threads |
| updates (`update_service.cpp`) | task queue, what was found, what is pending | a worker that answers later than the user acts |
| UI, codecs, identity, settings | | I/O or pure functions; not modelled |

### What each component must get right

* Rooms: a one-use invitation admits one session; it does not outlive its
  issuer's stay; no room is overfull, empty or held by a closed socket; what
  clients are told adds up to who is there.
* Access: one session per identity; a nonce and an access invitation are used
  once; a refused identity does not cost its invitation; silent sockets give
  their places back.
* Presence: an ask can be answered only while the situation it was made in
  lasts; both clients and the server agree on the open asks; every ask ends;
  snapshots are current.
* Signaling client: an access token is sent once; an operation under way is
  always waiting for something that comes; nobody is left in a room of the server
  unknowingly.
* Mesh: every two members get a link; a member that left is gone and one that
  came back is back; a member within reach is not forgotten.
* Links: no wait without its timer; no timer acts for an earlier stage; handshake
  and audio negotiation end.
* Recovery: members in contact end up in one server room.
* Transfers: the saved file is the offered one; a broken link costs no chunk;
  both ends learn the outcome.
* Messaging: a message is shown once, ordered after what its author had seen.
* Screen sharing: one owner; whole pictures that never go back.
* Voice: nothing recorded while silenced gets out; a closed gate is closed.
* Updates: what is installed is what was shown.

`PROJECT.json` lists the hazards at their lines with the properties that cover
them; the four without a property say why.

## Modules

| module | models | kind |
|---|---|---|
| `Admission` | what the rooms promise: guests, one-use tickets, hosts | abstract specification |
| `RoomRegistry` | `room_registry.cpp` | component |
| `SignalingServer` | the transport around it; EXTENDS `RoomRegistry` | composition |
| `SignalingServerProofs` | theorems about `SignalingServer` | proofs |
| `Sessions` | sockets and access control of `signaling_server.cpp` | component |
| `SessionsProofs` | theorems about `Sessions` | proofs |
| `PresenceRegistry` | `presence_registry.cpp` over `Admission` | component |
| `PresenceProofs` | theorems about `PresenceRegistry` and `Asks` | proofs |
| `ServerSession` | `signaling_client.cpp` and the room operations of `network_session_signaling.cpp`, with what they meet of the server | client and server |
| `Asks` | `network_session_presence.cpp`, with its server side | client and server |
| `RoomRecovery` | `network_session_recovery.cpp` at every member, with the server's rooms | distributed protocol |
| `MeshCoordinator` | `mesh_coordinator.cpp`, the view of one peer, as operators | component |
| `Mesh` | the mesh packets, links and timers of `network_session*.cpp` over the views; EXTENDS `MeshCoordinator` | composition |
| `MeshProofs` | theorems about `Mesh` and `RoomRecovery` | proofs |
| `Reachability` | route requests and the reachability timer | distributed protocol |
| `Link` | `connection_manager.cpp`, `peer_connection.cpp`, hello and audio negotiation, at both ends of one link | component |
| `LinkProofs` | theorems about `Link` | proofs |
| `PersonalLink` | `personal_connections.cpp` at both ends | component |
| `Delivery` | what a file transfer promises its two users | abstract specification |
| `FileTransfer` | `file_transfer_service.cpp` at both ends of a personal link | component |
| `FileTransferProofs` | theorems about `FileTransfer` | proofs |
| `Messaging` | `messaging_service.cpp`, `delivery_tracker.cpp` and the text queues, over two links | component |
| `ScreenShare` | who shares and who views, in `screen_share_service.cpp` | distributed protocol |
| `ScreenVideo` | pictures and sounds of a stream, in `screen_share_service.cpp` | component |
| `Voice` | three threads of a call | component |
| `VoiceProofs` | theorems about `Voice` | proofs |
| `Updates` | `update_service.cpp` | component |
| `ServiceProofs` | theorems about `Messaging`, `Updates`, `ScreenShare`, `ScreenVideo` and `ServerSession` | proofs |
| `MC…` | instances for TLC; `MCServices` and `MCSettling` put several small modules side by side | model checking |

### Rooms: `RoomRegistry`, `SignalingServer`

`memberships` is `memberships_`; `rooms`, `peers` and `invitations` are the keys
and the two hashes of `rooms_`. Each request of `handle` is an action that
succeeds and one that is refused, with the conditions in the order of the code.
An action returns its deliveries by appending a batch to `pending`
(`pendingDeliveries_`). While `pending` is not empty the only enabled action is
`deliver`, which sends one delivery at a time; the send succeeds, finds nobody,
or fails and closes the client (`removeClient`), which appends the events of
that disconnect behind the batch in progress, as the `delivering_` flag makes
the code do. So the one re-entrant path of the server is explored with every
send failing. `relayFailed` is the local of `deliver`, carried from one delivery
of a batch to the next. Order within a broadcast is the order of a `QHash`: any.

History variables: `issued` (tokens handed out), `uses` (joins a token has
admitted), `told` (what a client can conclude from the events it was sent),
`reached` (the relay of the current batch was handed over). They are read by
properties only, except that a new token is outside `issued`: a 256-bit random
token never repeats.

Abstractions: a delivered event counts as known to the client; a client that
does not read is one whose next send fails. Heartbeats (see `Sessions`), malformed messages and
byte limits appear as `Drop` and as a failing send. The clock advances between
deliveries only, in units of the invitation lifetime. Presence deliveries in the
same batch and the access layer are left out: they touch neither map. `close()`
of the whole server is left out here (`Sessions` has it).

### Sockets and access: `Sessions`

`place` says whether a socket is in `clients_`, only in `sockets_` (it is being
closed and still takes a place) or in neither. `nonce`, `identity`, `age`, `pinged` and
`pending` are the fields of a client, `invitations` is `accessInvitations_`. Each
branch of `handleAccess` is an action, in the order of its checks: the identity in
use is tested before a token is consumed. `maintainConnections` is one action over
all clients and invitations, closing sockets have their own timer (`CloseTimer`).
A socket in `hung` sends nothing more; `close` is the shutdown of the server, after
which it registers nobody.

### Presence: `PresenceRegistry`

Over the abstract rooms, because the registry asks of them only who is in which
room and for a token; `SignalingServerProofs` shows that the concrete ones
implement them. A session stands for its identity, which the access layer makes
unique. `knocks`, `contacts`, `profiles`, `cooling` and `snapshot` are `knocks_`,
`invitations_`, the profile fields, `lastInvite` and the last snapshot.
`maintainInvitations` is an operator evaluated over the next state of whatever
the step has changed, because the code calls it after the change and before it
returns. `waiting` and `asked` are what the two clients show. Times count down
and stop at zero; since expiry is only acted on by the timer or an answer, the
order of the clock and the timer is free.

### File transfer: `FileTransfer`

One transfer at both ends. `phase`, `reply`, `position`, `sent` and `error` are
the fields of `Transfer`, `dismissed` the move to `retired`, `connected` the
service's set of connected peers. The link has a state at each end: it is
opened, lost and dropped at each end separately, and frames that arrive at an
end that has not opened it are dropped (`Ignore`). One action per frame kind in
`receive`, one per kind of work in `pump`. `intact` says whether what was
written is what was hashed; it turns false when a chunk was read after `Modify`.
Offsets count chunks. The pauses between offers and finishes are left to
stuttering, so more interleavings are allowed than a clock would allow.

A mesh link differs in one respect, listed as a hazard at
`network_session.cpp:170`: two links to a peer may be open at once. The model is
of the personal link.

### Mesh: `MeshCoordinator`, `Mesh`

`node[p]` is the session of peer `p`: `known`, `departed`, `gen`, `retry` are
`peers_`, `departedPeers_`, `linkGenerations_`, `retryStates_`; `meshed` says that
`meshId_` is set, `joined` is `joined_`, `conn` is `links_` of the connection
manager and `seen` is `seenPackets_`. An identity is a number, because the code
compares identities to decide who calls. One mesh is modelled, so packets carry
no mesh id.

A connection has a record at each of its two ends under one id. `in` holds the
packets on their way to an end, in the order of its channel, and is lost with the
record. Every handler is one action and sends all its mail in the same step; the
calls that `ensureDynamicMesh` makes belong to the action that makes them. The
set-up of a channel and the exchange of hello and proof are one step of each end
(`linkOpened`), and the two ends open at different times. Links go in three ways:
a peer discards them; they fail at will, within a bound (`LinkFails`); they have
no other end that could still open or answer, and a deadline or the heartbeat
takes them away (`LinkDies`). An invitation is a text that any user but its author
may import, once.

`maintainPeerReachability` may forget any of the peers that have not been
reachable: those to which no path of links leads. The thirty seconds are longer
than the ten a link has between its two ends opening, and shorter than a deadline
(60 s) or the heartbeat (up to 45 s), which is why a link that is open at one end
counts as a path, and a half-open one without another end does not.

Left out: the signaling server (relayed link packets, recovery, `recipient_left`),
routes, display names, failures of local calls, overflow and expiry of the set of
seen packets.

### Mesh, continued: `Reachability`

One member asks for another over four peers: `requestRoute` floods a request, each
peer remembers where the first copy came from, the answer goes back that way, and
a link that opens or a packet that arrives refreshes `lastReachable_`. The timer
fires once a unit (a second), so the limits of the code (5 s for a request, 10 s
of silence before probing, 30 s before forgetting) appear as `RequestLife`,
`QuietAfter` and `LostAfter`, of which only what `ReachAssumption` states is
assumed: a request lives two units at least, silence is borne for longer than it
takes to ask, and a packet may take as many hops as there are members.
The clock ticks at most once while a packet is under way.

An answer to an earlier request says nothing in the code, but it removes the one made
since (`flushRouted`, `network_session.cpp:700`), so that the answer to that
one is for an earlier request, too. Where every answer comes after the next request, a
peer in reach is never heard of, and is forgotten: four changes of the links bring it
about in the model. `ReachIsKnown` therefore counts from the last such
answer (`reachStable`): one of them does no lasting harm. The exemption of a
peer that uses the same signaling server is left out.

`routes_`, `nextHop` and the queues of `sendRouted` are in no model: routes are
learned and expire, but nothing in the code sends a packet by them.

### Links: `Link`, `PersonalLink`

`Link` has both ends of one connection as records with the fields of `struct Link`;
a handler of `ConnectionManager` is an operator from links to links. The WebRTC
library posts its callbacks to the client's thread, so each is a step, in any order
the library allows. `deadline` is the stage the running deadline was set for,
`graces` the generations of grace timers that have not fired: a stale timer fires
in the model as in the program and must find that it does not count. Two
*troubles* (a lost description, a transport that disconnects, an error) may happen.
A user who renames between hello and proof of an opening link makes the other end
discard it, as the code does; `KeysStand` excepts exactly that.

`PersonalLink` has the stages of a link as the two ends see them, and the offers,
answers, hellos and proofs between them. `WantedLinkOpens` is the answer to glare:
`keepsOwn` compares identities.

### Client and server: `ServerSession`, `Asks`, `RoomRecovery`

`ServerSession` is one client with the part of the server it meets: `up` and
`down` are the two directions of its socket, `pending` its request table. A socket
the client gives up leaves the server a session (`lost`) until the server notices.
`expected` and `retired` are the table's test of what comes: anything else ends the
connection (`UnknownAnswer`). An error answer to `turn.refresh` is read like a reply and keeps
the connection (`RefreshAnswered`).
`Asks` is the client side of `PresenceRegistry`, with both directions of the
connection: the friends are an environment that asks, answers and withdraws
whenever the server would let it. `RoomRecovery` is every member of a complete mesh
with its own connection to the server, and what members tell each other of their
rooms. Two periods are assumed long enough, and named in its header.

Of `Asks` two oddities of the code are kept and the property respects them.
Accepting a knock whose room is still being made, and inviting the same friend
meanwhile, answers the knock twice, and the friend stays "being invited" until the
mesh is left. A `contact.result` is matched by the friend alone.

### Chat and screens: `Messaging`, `ScreenShare`, `ScreenVideo`

`Messaging` has two peers joined by two links, each with an ordered channel and
the sender's queue before it. The clock ends at `MaxLogicalClock`, the memory of
messages seen at `MaxSeenMessages`; a message forgotten may be shown again, which
`SeenOnce` states as a distance.

`ScreenShare` has the set of messages under way as a set, because the channel
neither orders nor repeats. A comment in `screen_share_service.cpp` promises that
simultaneous starts converge to the same owner: `StartsConverge`, which fails (see
Findings). What does hold is in two parts. `NoneMisled`: one at most shares, and what is
viewed is shared. It is reached whatever happens. `NoneLeftOut`: who is connected to a
sharer views a screen. It is reached unless, at some step of the behaviour, a sharer
ended its stream while another shared too and before it had heard of it
(`WithdrawsFromContest`), or an announcement that came after the end of its stream
turned a viewer to it (`TurnsToEnded`). In both a viewer may retire a stream that goes
on; `abandoned` of `MCSettling` remembers that one of them happened, and TLC shows that there is no third.

`leave` is `NetworkSession::leaveMesh`: it discards all links before it calls
`ScreenShareService::clear`, and each takes its peer along, so `clear` finds nobody to
tell and nothing to retire. The cap of 128 on retired streams is left out. A viewer times out
either because the stream has ended (`ViewTimesOut`) or because five seconds of
announcements were lost (`AllLost`, one of the troubles).

`ScreenVideo` follows one stream's pictures through the encoder, the pieces, the
assembly and the decoder, both workers finishing whenever they like.

### Voice: `Voice`

A command of the user is a list of steps of the main thread (`todo`), between any
two of which the engine's worker (`loop`) and the transport's (`carrier`) may move.
`gate` is `receiveEnabled` and `transmitEnabled`, taken under the mutexes of the
code; `engine` the atomics. A frame in `outgoing` says whether any of it was
recorded while silenced. `posted` are talking events that the main thread reads
later. `kept` is the `std::erase_if` of the transport's queues, written as a
recursive function so that theorems can speak of it.

### Updates: `Updates`

The worker takes `updateTasks` in order and answers with closures in
`updatePosted`. `updateFound`, `updatePending` and `updateOnDisk` are
`worker_->update`, `worker_->pending` and the package downloaded. `compareSemVer` is modelled on
versions cut into parts, since a property is about it.

## Runs

| run | instance | states | what it shows |
|---|---|---|---|
| `rooms` | 4 sessions, 2 rooms of 3, 4 peer ids, 3 tokens, 1 invitation per room, 1 tick; symmetric in all four sets | 10 820 | the rooms are sound in mid-delivery too, tokens admit once, clients are told the truth in order, the server implements `Admission` |
| `presence` | 3 users, 1 conversation, 2 rooms of 2, 2 tokens, lifetime 2, pause 1, 2 asks of each kind | 198 596 | asks stand, one at a time; clients agree; snapshots current |
| `transfer` | 3 chunks, window 2, budget 2, channel of 2, 2 losses | 612 938 | losses harmless; implements `Delivery`; accepted transfers finish; the source learns the outcome |
| `mesh_rejoin` | the full mesh of 3; peer 3 leaves, peer 1 invites | | a violation: see Findings |
| `sessions` | 3 sockets for 2 places, 2 identities (1 granted), 2 invitations | 85 216 | the server's tables fit, identities stand, invitations admit once, silent sockets go |
| `links` | two parts side by side. A link: both ends, 2 troubles. A mesh of 3 peers: from nothing with one inviter; or full, and one leaves (any), one link fails and one invites; packets read promptly | 1 465 116 | timers, handshake, audio negotiation, grace; one attempt at a link, views and links agree, full at rest, nobody back by hearsay |
| `room_recovery` | 2 members, 6 rooms, 2 losses of a connection | 697 951 | both come to one room; views agree but for what is under way |
| `voice` | 2 links to a peer, 3 commands, 1 change of links, queues of 2 and 1 | 1 816 032 | nothing overheard, gates hold, indicator and microphone true |
| `services` | six parts side by side: `ServerSession`, `Messaging`, `ScreenShare`, `ScreenVideo`, `Asks`, `Reachability` | 2 698 570 | the safety of each |
| `settling` | five parts side by side: `ScreenShare`, `Updates`, `PersonalLink`, `PresenceRegistry`, `Mesh` | 56 171 | what each promises in the end; updates are as shown |
| `screen_owner` | 3 peers in a full mesh, 2 starts, nothing lost | | a violation: see Findings |
| `updates_portable` | the standalone ZIP and two stable releases | | a violation: see Findings |

The parts of `links`, `services` and `settling` share no variable: a behaviour is one of
exactly one part (`subject`), the others stay in their initial states, and each
property speaks of one part. They share a run because each is small; nothing is
composed. In `settling` each part has the fairness its own module
states, and its mesh reads packets at any time (`Prompt = FALSE`).

Why the bounds are enough. In `rooms` every limit is reached (a full room, all
rooms, all invitations), three members suffice for a broadcast with one failing
receiver and one that must still hear of it, and a fourth session is refused at
a full room. One tick takes an invitation from valid to expired. In `presence`
two users ask and a third competes; a publication is one of four, which covers
each condition on each side (unknown, busy, in a conversation, free). In
`transfer` three chunks with a window of two give a first, a middle and a last
chunk and a window that closes; two losses let a frame of the first link be
overtaken by the second, and the second be lost as well. `MaxLosses` also bounds
the times an end gives its peer up; `MaxTime` bounds the clock; `MaxAsks`,
`Window`, `Budget` and `Capacity` are limits of the code made small.

In the mesh runs three peers make a pair that knows of each other only through a
third, which is what announcements, flooding and tombstones are for. `MaxPeers` is
three so that a full mesh is at its limit. `RetryDelays` of one makes the second
retry a degraded one. `MaxLinks` bounds the calls that users and timers make,
never what a handler does; a peer of the mesh from nothing has one call less. `Prompt` says that packets, which take milliseconds,
are read before a user, a link or a timer (seconds) acts; the mesh of `settling`
does without it. A copy of `PeerLeave` that arrives after the rejoin (a listed
hazard) needs a rejoin without `Prompt`, an instance too large to finish.

In `sessions` a third socket finds the server full, two identities compete for an
invitation, and every timer is shorter than the next as in the code. In `links` two
troubles let a link recover and fall again, or lose a description and a transport.
In `room_recovery` two members with two losses each make a room, lose it and meet
again; three members are too large. In `voice` three commands interleave (mute, test, leave,
return); a second link tells whether a peer is heard twice. In `services` the
client joins four times and loses its connection three times; two chat peers
write three messages with two remembered, so that one is forgotten; three sharers
start twice with one mishap; two streams send three pictures of up to two pieces;
peers 1 and 4 are joined by a short way, a long one or a direct one, and four links
change, enough for answers that come after the next request. Among the asks of the user and two friends two identifiers let one ask overtake
or replace another, of the user or of a friend; the trouble is a lost connection, a
change of room or a refusal.

The runs of components that may simply stop (an ended link, a client that has used
up its bounds, members at rest) say `CHECK_DEADLOCK FALSE`; `rooms`, `presence`,
`transfer` and `sessions` check for deadlock.

## Fairness

Weak fairness throughout, but for one case. Nothing is assumed of users.

* `PresenceRegistry`: the clock runs and the one-second timer (`maintenance_`) fires.
* `FileTransfer`: both event loops run (the 16 ms timer and the delivery of
  frames), a link which is being opened opens or is lost at each end, an end whose
  peer lost the link loses it too (ping and the 30 s limit of
  `PersonalConnections::maintain`), and the client makes another link while a
  transfer is active (`maintain`, every second). That losses are finite is the
  bound `MaxLosses`.
* `Mesh`: packets on open links are read, descriptions get ready, links with two
  ends open and dead ones go (deadlines and the heartbeat), the retry and
  reachability timers fire. Nothing is assumed of `LinkFails`. `MeshCloses`
  excepts a pair of which one has forgotten the other; `FullMesh`, the promise of
  the repository's README, does not, and fails.
* `Sessions`: the clock, `maintainConnections` and each close timer. A hung client
  sends nothing, so `SilentSocketsGo` rests on the server's timers alone.
* `RoomRecovery`: the timer of `recoverServerRoom`, the end of its pause, delivery
  between members, the server's work, and reconnection. That losses end is the
  bound `MaxLosses`.
* `Voice`: the two workers run; strong fairness for the main thread, which waits
  for gates that the workers free again and again.
* `ScreenShare`: the announcing timer, the timeout of a viewer whose stream has ended, the delivery of what
  is sent again and again, and links that are noticed to open and close. Nothing is
  assumed of `AllLost`, `leave` or what links and users do.
* `Updates`: both threads go on and a download ends.
* `PersonalLink`: each end works: `maintain`, descriptions, signals, frames, and
  deadlines that the other end can no longer meet.

`ServerSession`, `Asks`, `Messaging`, `ScreenVideo`, `Reachability`, `Link` and the
rooms are checked for safety only.

A limit the transfer properties respect: when the *source* is cancelled and its only
Cancel frame is lost with the link, the sink stays in Receiving, because a
cancelled source has nothing more to offer. `AcceptedTransfersFinish` therefore
promises completion unless an end has stopped, and `EndReachesTheSource` speaks
of the other direction only, where the code does repeat itself.

## Findings

**A mesh that stays incomplete.** `README.md:13` promises a full mesh built automatically. `mesh_rejoin` shows a way
in which the mesh stays incomplete for good. Peer 3 leaves; peers 1 and 2 put it
into `departedPeers_`, which no snapshot, announcement or offer overrides
(`mesh_coordinator.cpp:61`, `network_session_packets.cpp:333`). Peer 1 invites it
again: the direct link clears the entry at peer 1 (`connectionOpened`), but peer 2
goes on ignoring peer 3, and nothing ever links the two. The same happens without
anybody leaving when a peer was unreachable for thirty seconds and comes back
through one member.

**A version check that never succeeds.** `docs/ARCHITECTURE.md:46` says that the portable ZIP compares its version
with the latest release. `parseSemVer` (`update_service.cpp:79`) splits the text after the `-`
with `Qt::KeepEmptyParts`; a stable version has none, the split gives one empty
part, and a version with an empty part is refused. So every comparison of stable
releases fails, and the check of the standalone ZIP always ends in an error
(`updates_portable`). Comparisons of prereleases work, which is why the updates of
`settling` have prereleases only.

**A viewer that is left out.** `screen_share_service.cpp:367` says "Simultaneous starts
converge to the same owner without a server." `screen_owner` shows a way in which they do
not, in a full mesh of three in which nothing fails or is lost. Peers 2 and 3 start at the same time,
once each, and peer 1 views 3. Peer 2 stops at once. Its announcement reaches peer 1, which prefers 2
and retires 3's stream (`clearRemote`, line 374). Peer 3 hears 2's Stop before 2's
announcement, as the stream channel keeps no order, and so goes on sharing. When peer
1 hears the Stop it views nobody, and drops every further announcement of 3, because
3's stream is retired (line 353). Peer 2 views 3, and peer 1 does not until 3 starts anew. `SharingSettles` says how far the
promise is kept.

## Proofs

Eight modules hold theorems. All are for every value of the constants, from the named
assumptions of the module they are about.

`SignalingServerProofs`, from the assumptions of `RoomRegistry` (`None` is not a
session or a record, the limits are natural numbers, peer ids are finitely many):

| theorem | statement |
|---|---|
| `RoomsSound` | `Spec => []RoomsAreSound`, the property the run checks |
| `OneUse` | `Spec => []TokensAdmitOnce` |
| `RoomsRefineAdmission` | `Spec => RoomsImplementAdmission` |
| `ClientsAlwaysTold` | `Spec => []ClientsAreTold` |
| `RoomsAlwaysSound` | `Spec => []RoomsInv`, the inductive invariant |
| `IndexesAlwaysAgree` | `Spec => [](IndexesAgree /\ RoomsAreOccupied)` |
| `IssuersAlwaysPresent` | `Spec => []IssuersArePresent` |
| `NeverOverfull` | `Spec => []WithinCapacity` |
| `NoGhostMembers` | `Spec => []MembersAreOpen` |
| `TypeCorrect` | `Spec => []TypeOK` |

The argument. A step of the server is one of many handlers, each possibly in the
middle of a batch, but it changes the registry in one of five ways
(`StepShapes`): a room is opened, a session joins, a member leaves, an invitation
is issued, or at most invitations expire. Everything about the registry is proved
once for each of the five. `RoomsInv` is `RegistryInv /\ WithinCapacity /\
SocketsInv`. What the code promises is not inductive by itself:

* `TokensAdmitOnce` needs `TokensFresh`: a token in force has admitted nobody, is
  in force in one room only, and was handed out, so that issuing never revives
  a spent one.
* `IssuersArePresent` needs `IndexesAgree`, since a departure removes the
  invitations of the departing *peer id* and membership is looked up by session.
* `WithinCapacity` is about cardinalities and rests on the finite-set theorems.
* `MembersAreOpen` needs that a join or a creation comes from an open session,
  which holds as requests are read only while no delivery is in progress.

The refinement maps a room to the set of sessions in it, and an invitation to a
ticket hosted by the session of its issuer; each of the five kinds of step is an
action of `Admission` or a stutter, using `RoomsInv`. `TypeCorrect` adds the
types of the deliveries through the queue operations.

`ClientsAreTold` speaks of a queue that is empty or in the middle of a batch; its
invariant, `ToldInv`, speaks of the queue as a whole. `Orderly`: only the first
batch can answer a request, those behind it are the farewells of clients whose
send failed, and no message is queued twice. `ToldInTheEnd`: for every open
session, what it knows once it has had its answer, with the joins queued for it and
without the departures queued for it, is exactly who shares its room. That a
departure can be queued behind the batch that announces the arrival, and that a
client can be closed with messages queued for it, are the cases that make it needed.

`SessionsProofs`, from `SessionsAssumption` (`None` is not an identity, sockets are
finitely many, the limits are natural numbers):

| theorem | statement |
|---|---|
| `SessionsSound` | `Spec => []SessionsAreSound`, the property the run checks |
| `IdentityStandsHolds` | `Spec => IdentityStands` |
| `InvitationsAdmitOnceHolds` | `Spec => InvitationsAdmitOnce` |
| `OneSessionEachHolds` | `Spec => []OneSessionEach` |
| `InvitationsHaveIssuersHolds` | `Spec => []InvitationsHaveIssuers` |
| `WithinPlacesHolds` | `Spec => []WithinPlaces` |
| `SessionsTypeCorrect` | `Spec => []TypeOK` |

The inductive invariant `Inv` adds `IdentitiesLive` to the parts of
`SessionsAreSound`: only a live socket has an identity. Without it a socket that is
reused could open with the identity of the session before. Places are counted with the finite-set theorems (`FewerPlaces`,
`OneMorePlace`); what a loss of sessions does to identities and invitations is one
lemma (`RemoveClients`) for the failing send, the close and the maintenance pass.
`ProofPending` needs `Inv` but not the other way round, and is proved after it.

`PresenceProofs`, from `PresenceAssumption` (a room holds somebody, the limits are
natural numbers, what users publish is of the type of a publication):

| theorem | statement |
|---|---|
| `AsksAlwaysSound` | `Spec => []AsksAreSound` |
| `ClientsAlwaysAgree` | `Spec => []ClientsAgree` |
| `SnapshotsAlwaysCurrent` | `Spec => []SnapshotsCurrent` |

With them all the run `presence` checks is proved. `AsksAreSound` speaks of the
asks whose time is not up; `AsksStand` is what every step keeps, for the others as well,
until the timer looks at them: what the ask was made in still holds. Each action ends in `maintainInvitations` and `updateSnapshots`,
so that two lemmas (`Maintained`, `AfterMaintenance`) do the work for all actions
that change the situation: whatever does not stand is ended, and reported to both
parties. `PresentAreOpen` is needed since an ask is reported to open sockets only.
The limit on open invitations is about cardinalities (`FewerInvites`).

Of `Asks`, from `AsksAssumption` (`NoValue` is no friend, mesh, publication or prompt), for any
friends, asks, meshes and troubles:

| theorem | statement |
|---|---|
| `AsksInvariant` | `AsksSpec => []AsksInv`, the inductive invariant |
| `AsksAlwaysAgree` | `AsksSpec => []AsksAgree` |

`AsksAgree` speaks of a client with nothing on the way; `AsksInv` says what is on the way
whenever the two differ. For each kind of ask there is an agreement: the user's
knock (`KnockAgrees`), a friend's (`PromptAgrees`), a friend's invitation (`InviteAgrees`), the
user's invitations (`InvitesAgree`). Each says of an ask at the server that the client shows it, or an
invitation is coming, or an answer is going; and of a prompt that the ask is there, or
its end is coming. Two more are about the room an ask waits for (`RoomAgrees`, `WantAgrees`). They
hold since each direction keeps its order: `OrderedUp` and `OrderedDown` say what may follow
what, such as that no request about the room is behind another, and that what a
departure ends is told of in the step that answers it. The lemmas are in two
layers: what a message, a request or the end of an ask does to each agreement, over
any sets of asks and messages (`KnockEnds`, `PromptBegins`, …), and each action by them. What
`maintainInvitations` reports, in any order, is one lemma (`EndingKeeps`) for publications, departures,
rooms, answers and the clock.

`LinkProofs`, from `LinkAssumption` and `NoneAssumption` (the two ends differ, the
troubles are a natural number, `None` is none of the values it stands beside):

| theorem | statement |
|---|---|
| `NoWaitIsEndless` | `Spec => []EveryWaitHasItsTimer` |
| `GraceAlwaysWhole` | `Spec => GraceIsWhole` |
| `NoHandshakeIsStuck` | `Spec => []HandshakeEnds` |
| `AudioOffersAreAnswered` | `Spec => []AudioAnswerIsComing` |

There are two invariants. `Stand` is about each end by itself, its timers and the
stages it goes through (`Staged`, `Graced`), with the little the ends know of each
other: channels open only between two links (`Paired`), descriptions follow one
another (`SignalsCome`). It gives the first two theorems. `Inv` adds what is under
way on the wires, as statements about sequences of packets. `Talk`: no proof comes
before a hello, an end that can send has said hello, and an end whose hello was
heard has the proof or has it on its way. `Names`: unless a user renamed early, each proof is for the
name in the last hello before it, so that reading it cannot break the link
(`KeysStand` speaks of a link that is already broken). `AudioRoles`, `AudioOffer`, `AudioAnswer`: who offers
and who answers never change, there is one offer, it comes after a proof, and
whoever waits for the answer has the offer, the work or the answer ahead of it.

`FileTransferProofs`, from `SizeAssumption` (sizes and losses are natural numbers;
window, budget and capacity are positive):

| theorem | statement |
|---|---|
| `LinkLossIsHarmless` | `Spec => []LossesAreHarmless` |
| `TransferIsDelivery` | `Spec => TransferImplementsDelivery` |

The heart is `InFlow`: as long as the sink receives, the chunks on their way to it
are one unbroken run that starts at the chunk it needs and ends where the source goes
on (`Flow`). It survives the loss of a link only because of `Offers`: a source that
has to ask where to go on has no chunk of the former link under way on the new one, and an accept it reads is
up to date. `Links`, `Stages` and `Answers` say what the ends may believe of
the link and of each other. The refinement follows step by step (`DeliveryStep`): an
upload is acknowledged only by a frame that a complete sink sent, which is
`Answers`.

`VoiceProofs`, from `VoiceAssumption` (finitely many links and at least one; the
queues hold something; the other limits are natural numbers):

| theorem | statement |
|---|---|
| `AlwaysHeardAsMeant` | `Spec => []HeardAsMeant` |
| `ThreadsAlwaysAgree` | `Spec => []ThreadsAgree` |
| `GatesAlwaysHold` | `Spec => GatesHold` |
| `VoiceInvariant` | `Spec => []Inv`, the inductive invariant |

With them all of the safety the run `voice` checks is proved. The threads agree
only between commands; during one, the invariant has to say where the steps ahead
lead. `OnTurn`: the starts, stops and joins among the steps left take the
worker from where it is to where the session believes it to be. `GatesOK`: a gate is as the call
needs it, or the last step that sets it will make it so. `CarrierOK`: a frame between two mutexes has an open
gate. `Telling`: the indicator is right or an event on its way
will put it right. What a command plans is shown once for all commands
(`Proper`), and a step taken from a plan leaves a plan for the same end.
`IncomingOK` needs to know what `kept` returns. That is induction over data; the
library's induction theorems have an operator for a parameter, and `Induct` is
the same statement for a set, from `WFMin` and `NatLessThanWellFounded`.

`MeshProofs`, from `PeersAssumption` (identities are finitely many positive numbers, the
retry delays a natural number), `MeshAssumption` (founder, inviters and leavers are peers,
the bounds natural numbers) and `RoomRecoveryAssumption` (as `RoomRecovery` states it of its members,
rooms and bounds):

| theorem | statement |
|---|---|
| `LinksAlwaysSound` | `MeshSpec => []LinksAreSound` |
| `ForgottenAlwaysAway` | `MeshSpec => ForgottenStayAway` |
| `MeshInvariant` | `MeshSpec => []MeshInv`, the inductive invariant |
| `OneViewAlways` | `Spec => []OneViewOfRooms`, of room recovery |
| `OneMoveAtATime` | `Spec => []Inv`, the inductive invariant of room recovery |

That nobody holds two attempts at one link cannot be seen from the links alone: it
depends on every offer and answer still on its way. `MeshInv` is therefore about
each peer by itself (`Own`) with what is on its way to it, relative to the number of
links each peer has made and to the set `C` of all calls there have been, which is
chosen anew in each state. `Fits` says of one end of a link: a call is
made by the smaller of the two identities, at an id in `C` that is its maker's; an
answer is for an id of the other side; and what came of an invitation is not in `C`, so that
neither can be taken for the other. `Calls` says the same of an offer on its way.
`Wired` is the property itself at one peer: two attempts that the mesh made at one
link are one. A step concerns one peer, what it sends, and the numbers of links; since
`C` and the numbers only grow, what holds of the others is not disturbed
(`Own` is monotone in both). So each handler is shown once, for the peer it runs at.
`Views` (nobody is known and forgotten; a retry is only where one is the caller) is
needed for the call itself, and gives `ForgottenStayAway`. Whether packets are read promptly
does not matter to any of this.

Of room recovery: `OneViewOfRooms` speaks only of members with no message under way and of the first
answer a client is to read; neither is inductive. `Inv` puts every member into one of three stages.
`AtRest`: client and server have the same room, and what is asked or answered is
about invitations for it. `Moving`: a join, create or leave is on its way behind
all other requests, and those are for the room the server still has it in, so that
the server can grant them. `Moved`: the server has answered the move after all
else, and its room is the one that answer leaves the client in. That a client
starts no second move while it waits for one (`serverOperation_`) keeps the stages
apart, and the loss of a connection ends all of them at once on both sides. The
lemmas about the stages are about values, not about the state, so that each action
has only to say which values it sets.

`ServiceProofs`, from `ChatAssumption` (a peer remembers at least one message; the
bounds of clock and messages are natural numbers), `UpdateAssumption` (releases
are versions: numbers with a prerelease in parts), `ShareAssumption`,
`VideoAssumption` and `ReachAssumption` (as their modules state them); about
`ServerSession` nothing is assumed:

| theorem | statement |
|---|---|
| `ChatAlwaysTrue` | `ChatSpec => []ChatIsTrue` |
| `ChatInvariant` | `ChatSpec => []ChatInv`, the inductive invariant |
| `UpdateAlwaysAsShown` | `UpdateSpec => []UpdateIsAsShown` |
| `UpdateInvariant` | `UpdateSpec => []UpdateInv`, the inductive invariant |
| `OneScreenAlways` | `ShareSpec => []OneScreenEach` |
| `SettledMeansSameOwner` | `ShareSpec => [](NoneMisled /\ NoneLeftOut => SameOwner)` |
| `ShareInvariant` | `ShareSpec => []ShareInv`, the inductive invariant |
| `ScreenAlwaysWhole` | `VideoSpec => []ScreenIsWhole` |
| `NeverGoesBack` | `VideoSpec => StreamNeverGoesBack` |
| `PicturesAlwaysTrue` | `VideoSpec => PicturesAreTrue`, both of them |
| `VideoInvariant` | `VideoSpec => []VideoInv`, the inductive invariant |
| `ClientAndServerAlwaysAgree` | `SessionSpec => []ClientAndServerAgree` |
| `SessionInvariant` | `SessionSpec => []SessionInv`, the inductive invariant |
| `ReachIsAlwaysKnown` | `ReachSpec => []ReachIsKnown` |
| `ReachInvariant` | `ReachSpec => []ReachInv`, the inductive invariant |

Of the chat, `Memory` says of each peer that the ids it remembers are the last ones
of its log (`Window`) and that its clock has caught up with the log; that is what
makes a duplicate impossible until `MaxSeenMessages` others came in between, and
an answer later than its question. `Carries` says of each channel and the queue before it that
message ids rise through both, and that whoever acknowledges has shown the message.
The two meet in `AnsweredIsShown`. Links play no part: the invariant does not
ask which are open, so it holds whatever the mesh does. `ChatTyped` keeps every clock
within `MaxLogicalClock`: no clock wraps.

Of the updates, the invariant says which of four things the worker does: nothing, it
has a task queued, works at one, or has answered. The state of the main thread fits
the one task there is (`During`), and an answer fits the state it will meet
(`Ends`), so that closures that run later never meet another task's state.
`Stands` says that what is shown can be had: an update offered is the one found with
none pending, and one that is ready is the one `Install` chooses. `ComparingIsRight` proves
that `compareSemVer` agrees with SemVer's order on any two versions it can
read.

Of the screens, `ShareInv` adds to `OneScreenEach` its types and that nobody hears of
a stream of its own. `SettledMeansSameOwner` ties the two halves of `SharingSettles` to
the promise of the code: in a full mesh `NoneMisled` and `NoneLeftOut` mean one owner for all. `VideoInv` is the path of one picture: the viewer has not seen
what the sharer has yet to number (`NotAhead`), all pieces of a number are of one picture
(`PiecesTrue`), what is put together is of the one picture it is for (`Assembling`), and
so is what a worker has or the user sees (`Showing`). That a picture with as many
pieces as it should have has all of them is `AllPieces`, a count of a finite set.

Of the connection, the invariant has three phases. `Quiet`: before the challenge is
answered nothing is under way but the challenge. `Proving`: one proof, or its answer.
`Working`: requests about rooms and answers to them, no two for the same number
(`Ordered`), each of them awaited or about a refresh that was given up; so nothing can come
that the client would hang up for. One request about rooms waits at a time and is
the operation the client is at (`OneAtATime`), and while a request to join, its refusal or
the answer to a leave is on its way the server holds no place for the client
(`NoPlace`). From these follows that a reply to a join finds the client still
joining, so that a place is never given to a client that has gone.

Of the probing, `ReachIsKnown` speaks of the numbers alone; what bears them is the
flood. Let `V` be who has seen a request and `W` who has passed its answer on
(`Flooded`). Until the sought is in `V`, the request is under way over every
link out of `V` (`FloodGoesOn`), so it goes on while the seeker reaches the sought.
Then one answer is under way, a step ahead of `W` (`AnswerComes`). The reverse routes lead home:
no set of members but the seeker is routed within itself, which says that there is
no circle without counting steps, and gives that the next hop of the answer has not had it yet.
A packet has lost one hop for each member of `V` or `W` at most, and two members who
have not seen it leave it two hops. All this holds of a request made since the links
last changed (`AnswerWillCome`). The clock tells two requests apart (`ProbesApart`): packets
of one are late, those of the other are not. So a request that is alive once the links
are settled is a tick old at most, and silence is never longer than until the next
timer and its answer (`HeardInTime`). The other way round, no answer crosses
a cut, and those within are gone in two ticks (`ReachMissed`).

What is left to TLC: all liveness, which is beyond the prover, and `ViewsAreLinks` of
`Mesh`. The latter cannot hold for every value of the constants: where packets are not
read promptly, a copy of `PeerLeave` that arrives after a rejoin (a listed hazard) takes
a peer out of view to whom there is a link. With `Prompt` its argument follows each
packet of a flood and what it tells of its sender's view, and is not written down.
`PersonalLink` promises liveness only.

## Plan

What is left, in this order:

1. Proofs: of `Mesh` with `Prompt`, `ViewsAreLinks`.
2. `Mesh`, continued: `recipient_left` and the relayed link packets, composed with
   the mesh field of `PresenceRegistry`; theorem: the view of a peer is
   consistent (`known` and `departed` disjoint, retries only for known peers)
   whatever packets arrive.
3. `FileTransfer` over a mesh link that may be doubled (`network_session.cpp:170`).
4. `RoomRecovery` with three members, by a smaller model of the server.

## Not modelled

Cryptography and codecs (pure functions; the models start from decoded, verified
messages); Opus, jitter buffers, mixing and screen capture (numeric, real time);
user interface, settings and logging (I/O); WebRTC itself, taken as channels that
can be lost, ordered or not as they are configured; the TURN service. Of modelled components: the paths of a mesh through the signaling
server, the bound of 2048 on packets seen and of 128 on retired streams, and the
choice among several open links of a peer for control packets. Branches left out
because no property depends on them:

* a socket that is closed but still among the clients: nothing is sent, nothing is
  removed (`signaling_server.cpp:333`);
* the cap of 1024 on retired transfers (`file_transfer_service.cpp:208`);
* an audio answer that the library refuses (`peer_connection.cpp:752`);
* an answer of another authority (`signaling_client.cpp:406`), and the request
  `mesh.leave` that goes before leaving a room;
* a refusal of the publication itself (`network_session_presence.cpp:317`): `Asks` starts
  with a user whose identity the server has registered;
* a worker of the call that goes on with what its ring still holds after it was told
  to stop (`rtp_audio_engine.cpp:276`): the gates were closed before.

## Running

    tlc -workers 2 -config MCSignalingServer.cfg MCSignalingServer.tla
    tlc -workers 2 -config MCPresenceRegistry.cfg MCPresenceRegistry.tla
    tlc -workers 2 -config MCFileTransfer.cfg MCFileTransfer.tla
    tlc -workers 2 -config MCMeshRejoin.cfg MCMesh.tla
    tlc -workers 2 -config MCSessions.cfg MCSessions.tla
    tlc -workers 2 -config MCLinks.cfg MCLinks.tla
    tlc -workers 2 -config MCRoomRecovery.cfg MCRoomRecovery.tla
    tlc -workers 2 -config MCVoice.cfg MCVoice.tla
    tlc -workers 2 -config MCServices.cfg MCServices.tla
    tlc -workers 2 -config MCSettling.cfg MCSettling.tla
    tlc -workers 2 -config MCScreenOwner.cfg ScreenShare.tla
    tlc -workers 2 -config MCUpdatesPortable.cfg MCUpdates.tla
    tlapm SignalingServerProofs.tla
    tlapm SessionsProofs.tla
    tlapm PresenceProofs.tla
    tlapm LinkProofs.tla
    tlapm FileTransferProofs.tla
    tlapm VoiceProofs.tla
    tlapm MeshProofs.tla
    tlapm ServiceProofs.tla

Each run takes up to three minutes with two workers.
