-------------------------------- MODULE Mesh --------------------------------
(***************************************************************************)
(* A mesh that grows by invitations and closes into a full mesh by itself: *)
(* the membership and link packets of network_session*.cpp over the views  *)
(* of MeshCoordinator, without a signaling server.                         *)
(*                                                                         *)
(* A link is a connection record at each of its two ends, under one id;    *)
(* "in" holds the packets on their way to that end, in order, and goes     *)
(* with the record.  The channels and the exchange of hello and proof are  *)
(* one step of each end, which opens the link there; packets of the other  *)
(* end come behind its proof.  Links fail a bounded number of times at     *)
(* will, and whenever they have no other end any more.  Invitations and    *)
(* answers are texts that a user carries to one other program.             *)
(*                                                                         *)
(* Routes are left out: nothing here is sent along them.  The set of seen  *)
(* packets is taken not to overflow or expire.                             *)
(***************************************************************************)
EXTENDS MeshCoordinator, Sequences

CONSTANTS
  Founder,   \* the peer that creates the mesh
  Inviters,  \* the peers whose users invite others
  Leavers,   \* the peers whose users may leave
  MaxLinks,  \* bound on the connections that timers and users make a peer create
  MaxLeaves, \* bound on the times users leave
  MaxFaults, \* bound on the links that fail by themselves
  Prompt     \* bound: packets are read before anything slower happens

ASSUME MeshAssumption ==
  /\ Founder \in Peers
  /\ Inviters \subseteq Peers /\ Leavers \subseteq Peers
  /\ MaxLinks \in Nat /\ MaxLeaves \in Nat /\ MaxFaults \in Nat
  /\ Prompt \in BOOLEAN

VARIABLES
  node,     \* [Peers -> the session of that peer, see FreshNode]
  founded,  \* the mesh has been created
  texts,    \* invitations and answers the programs have shown
  leaves,   \* times a user has left
  faults    \* links that failed by themselves

meshVars == <<node, founded, texts, leaves, faults>>

Nobody == 0
NoLink == [by |-> Nobody, no |-> 0]

NoConnections == [id \in {} |-> Nobody]

FreshNode ==
  [ meshed   |-> FALSE,
    joined   |-> FALSE,
    known    |-> {},
    departed |-> {},
    gen      |-> [q \in Peers |-> 0],
    retry    |-> [q \in Peers |-> NoRetry],
    conn     |-> NoConnections,  \* id -> connection record
    seen     |-> {},             \* ids of the packets seen
    made     |-> 0,              \* ids given to links
    sent     |-> 0 ]             \* ids given to packets

Connection(kind, remote, generation, answerer) ==
  [ kind     |-> kind,      \* how it came about, and which side this is
    remote   |-> remote,    \* Nobody until the hello, for a manual link
    gen      |-> generation,
    answerer |-> answerer,  \* whose answer was applied; at that side itself
    produced |-> FALSE,     \* the local description has been sent
    open     |-> FALSE,     \* the channels are up, the key of the peer proved
    in       |-> <<>> ]

isOffer(c)       == c.kind \in {"ManualOffer", "MeshOffer"}
isMeshManaged(c) == c.kind \in {"MeshOffer", "MeshAnswer"}

openIds(n)        == {id \in DOMAIN n.conn : n.conn[id].open}
linksTo(n, q)     == {id \in DOMAIN n.conn : n.conn[id].remote = q}
hasLink(n, q)     == linksTo(n, q) # {}
without(f, xs)    == [x \in DOMAIN f \ xs |-> f[x]]
including(f, g)   == [x \in DOMAIN f \cup DOMAIN g |-> IF x \in DOMAIN g THEN g[x] ELSE f[x]]
withConn(n, id, c) == [n EXCEPT !.conn = including(@, [x \in {id} |-> c])]

\* Faulty: the id of the connection created last.
unusedLink_Last(p, n) == [by |-> p, no |-> n.made]

unusedLink(p, n) == [by |-> p, no |-> n.made + 1]

\* p and q hold the two ends of one connection.
Joins(id, p, q) ==
  /\ p # q
  /\ id \in DOMAIN node[p].conn /\ id \in DOMAIN node[q].conn
  /\ id.by \in {p, q}
  /\ node[id.by].conn[id].answerer \in {p, q}

HasOtherEnd(p, id) == \E q \in Peers : Joins(id, p, q)

-----------------------------------------------------------------------------
(* Sending.  A mail maps connections to the packets to send on each.       *)

NoMail        == [id \in {} |-> <<>>]
To(ids, m)    == [id \in ids |-> <<m>>]
m1 ++ m2      == [id \in DOMAIN m1 \cup DOMAIN m2 |->
                    (IF id \in DOMAIN m1 THEN m1[id] ELSE <<>>) \o
                    (IF id \in DOMAIN m2 THEN m2[id] ELSE <<>>)]

\* The mail of p is on its way to those of q's ends f that join them.
delivered(f, p, q, mail) ==
  [id \in DOMAIN f |-> IF id \in DOMAIN mail /\ Joins(id, p, q)
                       THEN [f[id] EXCEPT !.in = @ \o mail[id]] ELSE f[id]]

\* p becomes n and its mail is on its way to whoever holds the other ends.
Step(p, n, mail) ==
  node' = [q \in Peers |-> IF q = p THEN n
                           ELSE [node[q] EXCEPT !.conn = delivered(@, p, q, mail)]]

\* The bound on calls: timers and users make no more of them.
Within(p, n) == n.made <= MaxLinks \/ n.made = node[p].made

PeerSnapshot(p, n) == [type |-> "snapshot", sender |-> p, peers |-> n.known]

\* A packet that is flooded.
Routed(type, p, n, target, link, generation) ==
  [type |-> type, sender |-> p, id |-> [by |-> p, no |-> n.sent + 1], ttl |-> MaxPeers,
   target |-> target, link |-> link, gen |-> generation]

originated(n, packet) == [n EXCEPT !.sent = @ + 1, !.seen = @ \cup {packet.id}]
remembered(n, packet) == [n EXCEPT !.seen = @ \cup {packet.id}]

forwarded(n, via, packet) ==
  IF packet.ttl > 1 THEN To(openIds(n) \ {via}, [packet EXCEPT !.ttl = @ - 1]) ELSE NoMail

-----------------------------------------------------------------------------
(* Helpers of the session.                                                 *)

\* Faulty: both ends call.
due_Both(p, n) ==
  {q \in n.known \ {p} : canAttemptLink(n, q) /\ ~hasLink(n, q)}

\* The peers an attempt is due for.
due(p, n) ==
  {q \in n.known \ {p} : /\ shouldInitiateNegotiation(p, q)
                         /\ canAttemptLink(n, q)
                         /\ ~hasLink(n, q)}

\* The fresh id of the call to q, one of the calls to the peers qs.
callTo(p, n, qs, q) == [by |-> p, no |-> n.made + Cardinality({r \in qs : r <= q})]

\* The calls to the peers qs, each with its generation.
calls(p, n, qs, generation) ==
  [id \in {callTo(p, n, qs, q) : q \in qs} |->
     LET whom == CHOOSE q \in qs : callTo(p, n, qs, q) = id
     IN  Connection("MeshOffer", whom, generation[whom], Nobody)]

\* Faulty: a call has the generation of the one before it.
afterOffers_SameGeneration(p, n, qs) ==
  LET generation == [q \in Peers |-> IF q \in qs /\ n.gen[q] = 0 THEN 1 ELSE n.gen[q]]
  IN  [n EXCEPT !.made = @ + Cardinality(qs),
                !.gen  = generation,
                !.conn = including(@, calls(p, n, qs, generation))]

\* startMeshOffer for each of the peers qs.
afterOffers(p, n, qs) ==
  LET generation == [q \in Peers |-> IF q \in qs THEN n.gen[q] + 1 ELSE n.gen[q]]
  IN  [n EXCEPT !.made = @ + Cardinality(qs),
                !.gen  = generation,
                !.conn = including(@, calls(p, n, qs, generation))]

ensureDynamicMesh(p, n) == afterOffers(p, n, due(p, n))

\* ConnectionManager::remove, and handleLinkRemoved.
removed(p, n, id) ==
  LET c == n.conn[id]
      m == [n EXCEPT !.conn = without(@, {id})]
  IN  IF c.open /\ shouldInitiateNegotiation(p, c.remote)
      THEN scheduleRetry(m, c.remote) ELSE m

\* ConnectionManager::fail: removed, then attemptFailed.
failed(p, n, id) ==
  LET c == n.conn[id]
      m == removed(p, n, id)
  IN  IF m.joined /\ shouldInitiateNegotiation(p, c.remote)
      THEN scheduleRetry(m, c.remote) ELSE m

\* The link infoForPeer finds: an open one if there is one.
infoForPeer(n, q) ==
  IF linksTo(n, q) \cap openIds(n) # {} THEN linksTo(n, q) \cap openIds(n) ELSE linksTo(n, q)

\* removeMeshPeer for each of the known peers qs: one link to each is discarded.
withoutMeshPeers(n, qs) ==
  LET some == UNION {infoForPeer(n, q) : q \in qs}
      one(dropped) == \A q \in qs : hasLink(n, q) => Cardinality(dropped \cap linksTo(n, q)) = 1
  IN  {[forgetPeers(n, qs) EXCEPT !.conn = without(@, dropped)] :
         dropped \in {d \in SUBSET some : one(d)}}

\* leaveMesh: the peer says so on every open link and closes all of them.
Leaving(p, n) ==
  LET packet == Routed("leave", p, n, Nobody, NoLink, 0)
  IN  Step(p, [leave(n) EXCEPT !.conn = NoConnections, !.seen = {}, !.sent = @ + 1],
           To(openIds(n), packet))

-----------------------------------------------------------------------------
(* The users.                                                              *)

createMesh(p) ==
  /\ p = Founder /\ ~founded
  /\ ~node[p].meshed /\ DOMAIN node[p].conn = {}
  /\ founded' = TRUE
  /\ Step(p, [create(p, node[p]) EXCEPT !.seen = {}], NoMail)
  /\ UNCHANGED <<texts, leaves, faults>>

leaveMesh(p) ==
  /\ p \in Leavers /\ leaves < MaxLeaves
  /\ node[p].meshed
  /\ leaves' = leaves + 1
  /\ Leaving(p, node[p])
  /\ UNCHANGED <<founded, texts, faults>>

\* An invitation of this peer that still waits.
Inviting(n) == \E id \in DOMAIN n.conn : n.conn[id].kind = "ManualOffer" /\ ~n.conn[id].open

createInvitation(p) ==
  /\ p \in Inviters
  /\ node[p].meshed /\ node[p].joined
  /\ Cardinality(node[p].known) < MaxPeers
  /\ ~Inviting(node[p])
  /\ LET n == node[p]
         m == [withConn(n, unusedLink(p, n), Connection("ManualOffer", Nobody, 0, Nobody))
                 EXCEPT !.made = @ + 1]
     IN  Within(p, m) /\ Step(p, m, NoMail)
  /\ UNCHANGED <<founded, texts, leaves, faults>>

cancelInvitation(p) ==
  /\ faults < MaxFaults
  /\ faults' = faults + 1
  /\ \E id \in DOMAIN node[p].conn :
       /\ node[p].conn[id].kind = "ManualOffer" /\ ~node[p].conn[id].open
       /\ Step(p, removed(p, node[p], id), NoMail)
  /\ UNCHANGED <<founded, texts, leaves>>

\* An invitation is pasted by somebody who does not hold that link already.
importOffer(p, text) ==
  /\ text \in texts /\ text.kind = "offer"
  /\ text.from # p
  /\ texts' = texts \ {text}
  /\ text.link \notin DOMAIN node[p].conn
  /\ LET n == IF node[p].meshed THEN node[p] ELSE [beginJoin(p, node[p]) EXCEPT !.seen = {}]
     IN  Step(p, withConn(n, text.link, Connection("ManualAnswer", Nobody, 0, p)), NoMail)
  /\ UNCHANGED <<founded, leaves, faults>>

importAnswer(p, text) ==
  /\ text \in texts /\ text.kind = "answer"
  /\ text.link.by = p
  /\ text.link \in DOMAIN node[p].conn
  /\ node[p].meshed
  /\ node[p].conn[text.link].answerer = Nobody
  /\ texts' = texts \ {text}
  /\ Step(p, [node[p] EXCEPT !.conn[text.link].answerer = text.from], NoMail)
  /\ UNCHANGED <<founded, leaves, faults>>

-----------------------------------------------------------------------------
(* The transport.                                                          *)

\* The local description is ready: it is flooded, or shown to the user.
localDescriptionReady(p, id) ==
  LET c == node[p].conn[id]
      n == [node[p] EXCEPT !.conn[id].produced = TRUE]
      packet == Routed(IF isOffer(c) THEN "linkOffer" ELSE "linkAnswer",
                       p, n, c.remote, id, c.gen)
  IN  /\ ~c.produced
      /\ IF isMeshManaged(c)
         THEN /\ Step(p, originated(n, packet), To(openIds(n), packet))
              /\ UNCHANGED texts
         ELSE /\ Step(p, n, NoMail)
              /\ texts' = texts \cup {[kind |-> IF isOffer(c) THEN "offer" ELSE "answer",
                                       link |-> id, from |-> p]}
      /\ UNCHANGED <<founded, leaves, faults>>

\* Faulty: only the peer at the other end is told.
linkOpened_Quiet(p, id, q) ==
  LET n == connectionOpened([rememberPeer(node[p], q) EXCEPT
             !.conn[id].remote = q, !.conn[id].open = TRUE], q)
  IN  /\ Joins(id, p, q)
      /\ ~node[p].conn[id].open
      /\ node[p].conn[id].produced
      /\ Step(p, ensureDynamicMesh(p, n), To({id}, PeerSnapshot(p, n)))
      /\ UNCHANGED <<founded, texts, leaves, faults>>

\* The key of the peer q is proved: handlePeerProof and handleLinkOpened.
linkOpened(p, id, q) ==
  LET n == connectionOpened([rememberPeer(node[p], q) EXCEPT
             !.conn[id].remote = q, !.conn[id].open = TRUE], q)
      packet == Routed("announce", p, n, Nobody, NoLink, 0)
  IN  /\ Joins(id, p, q)
      /\ ~node[p].conn[id].open
      /\ node[p].conn[id].produced
      /\ Step(p, ensureDynamicMesh(p, originated(n, packet)),
              To(openIds(n), PeerSnapshot(p, n)) ++ To(openIds(n), packet))
      /\ UNCHANGED <<founded, texts, leaves, faults>>

\* A packet that may still bring an offer or an answer about this link.
SignalUnderWay(id) ==
  \E q \in Peers : \E i \in DOMAIN node[q].conn : \E k \in DOMAIN node[q].conn[i].in :
    LET m == node[q].conn[i].in[k]
    IN  m.type \in {"linkOffer", "linkAnswer"} /\ m.link = id

\* The answer to this link has not been given, or not been taken back yet.
Unanswered(id) ==
  id \in DOMAIN node[id.by].conn /\ node[id.by].conn[id].answerer = Nobody

\* The link can still open, or is open at both ends.
Alive(p, id) ==
  LET c == node[p].conn[id]
  IN  \/ HasOtherEnd(p, id)
      \/ ~c.produced
      \/ /\ Unanswered(id)
         /\ \/ ~isMeshManaged(c)
            \/ SignalUnderWay(id)
            \/ \E q \in Peers : id \in DOMAIN node[q].conn /\ ~node[q].conn[id].produced

\* A deadline, a lost connection or a missing heartbeat.
fail(p, id) ==
  /\ Step(p, failed(p, node[p], id), NoMail)
  /\ UNCHANGED <<founded, texts, leaves>>

\* An open link whose other end is gone, which the heartbeat notices.
HalfOpen(p, id) == node[p].conn[id].open /\ ~HasOtherEnd(p, id)

\* The deadline of an attempt, 60 seconds, is longer than the 45 it may take to
\* notice that an open link is lost.
LinkDies(p, id) ==
  /\ ~Alive(p, id)
  /\ HalfOpen(p, id) \/ \A q \in Peers : \A i \in DOMAIN node[q].conn : ~HalfOpen(q, i)
  /\ fail(p, id)
  /\ UNCHANGED faults

LinkFails(p, id) == faults < MaxFaults /\ faults' = faults + 1 /\ fail(p, id)

-----------------------------------------------------------------------------
(* Packets.  "n" is the receiver with the packet m of link id taken off.   *)

handlePeerSnapshot(p, id, m, n) ==
  /\ m.type = "snapshot"
  /\ \E k \in ingestPeerList(p, n, m.peers) :
       Step(p, ensureDynamicMesh(p, k),
            IF k.known # n.known THEN To(openIds(k) \ {id}, PeerSnapshot(p, k)) ELSE NoMail)

handlePeerAnnounce(p, id, m, n) ==
  LET k == rememberPeer(routeAvailable(remembered(n, m), m.sender), m.sender)
  IN  /\ m.type = "announce"
      /\ m.id \notin n.seen
      /\ Step(p, ensureDynamicMesh(p, k), forwarded(k, id, m))

\* The duplicate check guards the forwarding only.
handlePeerLeave(p, id, m, n) ==
  /\ m.type = "leave"
  /\ \E k \in withoutMeshPeers(remembered(n, m), {m.sender} \cap (n.known \ {p})) :
       Step(p, k, IF m.id \in n.seen THEN NoMail ELSE forwarded(n, id, m))

routeLinkSignaling(p, id, m, n) ==
  /\ m.type \in {"linkOffer", "linkAnswer"}
  /\ m.id \notin n.seen
  /\ m.target # p
  /\ Step(p, remembered(n, m), forwarded(n, id, m))

DropDuplicate(p, m, n) ==
  /\ m.type \in {"announce", "linkOffer", "linkAnswer"}
  /\ m.id \in n.seen
  /\ Step(p, n, NoMail)

\* Faulty: an offer is accepted although there is a link to the peer.
answering_Twice(p, m, n) ==
  IF m.sender \notin n.known \/ m.gen <= n.gen[m.sender] THEN n
  ELSE withConn([n EXCEPT !.gen[m.sender] = m.gen], m.link,
                Connection("MeshAnswer", m.sender, m.gen, p))

\* The receiver of an offer: only of a known peer, only of a later generation.
answering(p, m, n) ==
  IF m.sender \notin n.known \/ m.gen <= n.gen[m.sender] THEN n
  ELSE LET k == [n EXCEPT !.gen[m.sender] = m.gen]
       IN  IF m.link \in DOMAIN n.conn \/ hasLink(n, m.sender) THEN k
           ELSE withConn(k, m.link, Connection("MeshAnswer", m.sender, m.gen, p))

handleLinkOffer(p, id, m, n) ==
  /\ m.type = "linkOffer"
  /\ m.id \notin n.seen
  /\ m.target = p
  /\ Step(p, answering(p, m, remembered(n, m)), NoMail)

\* Whether an answer belongs to an offer of this peer that still waits.
answers(m, n) ==
  /\ m.link \in DOMAIN n.conn
  /\ n.conn[m.link].kind = "MeshOffer"
  /\ n.conn[m.link].remote = m.sender
  /\ n.conn[m.link].answerer = Nobody
  /\ n.conn[m.link].gen = m.gen

handleLinkAnswer(p, id, m, n) ==
  /\ m.type = "linkAnswer"
  /\ m.id \notin n.seen
  /\ m.target = p
  /\ LET k == remembered(n, m)
     IN  Step(p, IF answers(m, n) THEN [k EXCEPT !.conn[m.link].answerer = m.sender] ELSE k,
              NoMail)

handleIncoming(p, id) ==
  /\ node[p].conn[id].open
  /\ node[p].conn[id].in # <<>>
  /\ LET m == Head(node[p].conn[id].in)
         n == [node[p] EXCEPT !.conn[id].in = Tail(@)]
     IN  \/ handlePeerSnapshot(p, id, m, n)
         \/ handlePeerAnnounce(p, id, m, n)
         \/ handlePeerLeave(p, id, m, n)
         \/ routeLinkSignaling(p, id, m, n)
         \/ handleLinkOffer(p, id, m, n)
         \/ handleLinkAnswer(p, id, m, n)
         \/ DropDuplicate(p, m, n)
  /\ UNCHANGED <<founded, texts, leaves, faults>>

-----------------------------------------------------------------------------
(* Timers.                                                                 *)

retryRequested(p, q) ==
  LET n == [node[p] EXCEPT !.retry[q].scheduled = FALSE]
      m == afterOffers(p, n, {q} \cap {r \in n.known : canAttemptLink(n, r) /\ ~hasLink(n, r)})
  IN  /\ node[p].retry[q].scheduled
      /\ Within(p, m) /\ Step(p, m, NoMail)
      /\ UNCHANGED <<founded, texts, leaves, faults>>

NetworkChanged(p) ==
  /\ LET m == ensureDynamicMesh(p, resetRetryBackoff(node[p]))
     IN  Within(p, m) /\ Step(p, m, NoMail)
  /\ UNCHANGED <<founded, texts, leaves, faults>>

\* Open links with two ends.
Linked(p, q) ==
  \E id \in DOMAIN node[p].conn :
    Joins(id, p, q) /\ node[p].conn[id].open /\ node[q].conn[id].open

\* The same, or open at one end: then the other one opens within the ten seconds
\* it has for the hello, or goes.
Opening(p, q) ==
  \E id \in DOMAIN node[p].conn :
    Joins(id, p, q) /\ (node[p].conn[id].open \/ node[q].conn[id].open)

Reachable(p) ==
  LET within[hops \in 0 .. Cardinality(Peers)] ==
        IF hops = 0 THEN {p}
        ELSE {q \in Peers : \E r \in within[hops - 1] : q = r \/ Opening(r, q)}
  IN  within[Cardinality(Peers)]

\* Thirty seconds without a packet, or an answer to a route request, of "gone".
maintainPeerReachability(p) ==
  /\ node[p].joined
  /\ \E gone \in SUBSET (node[p].known \ ({p} \cup Reachable(p))) :
       \E n \in withoutMeshPeers(node[p], gone) :
         IF gone # {} /\ Cardinality(n.known) = 1
         THEN Leaving(p, n)
         ELSE LET m == ensureDynamicMesh(p, n)
              IN  Within(p, m) /\ Step(p, m, NoMail)
  /\ UNCHANGED <<founded, texts, leaves, faults>>

-----------------------------------------------------------------------------
(* The specification.                                                      *)

MeshInit ==
  /\ node = [p \in Peers |-> FreshNode]
  /\ founded = FALSE
  /\ texts = {}
  /\ leaves = 0
  /\ faults = 0

User(p) ==
  \/ createMesh(p)
  \/ leaveMesh(p)
  \/ createInvitation(p)
  \/ cancelInvitation(p)
  \/ \E text \in texts : importOffer(p, text) \/ importAnswer(p, text)

Transport(p) ==
  \E id \in DOMAIN node[p].conn :
    \/ localDescriptionReady(p, id)
    \/ \E q \in Peers : linkOpened(p, id, q)
    \/ LinkDies(p, id)

Timers(p) ==
  \/ \E q \in Peers : retryRequested(p, q)
  \/ maintainPeerReachability(p)

Packets(p) == \E id \in DOMAIN node[p].conn : handleIncoming(p, id)

Quiet ==
  \A p \in Peers : \A id \in DOMAIN node[p].conn :
    node[p].conn[id].open => node[p].conn[id].in = <<>>

MeshNext ==
  \E p \in Peers :
    \/ Packets(p)
    \/ /\ Prompt => Quiet
       /\ \/ User(p)
          \/ Transport(p)
          \/ \E id \in DOMAIN node[p].conn : LinkFails(p, id)
          \/ Timers(p)
          \/ NetworkChanged(p)

\* The network and the timers, not the users and the faults.  No peer keeps
\* another from its turn for ever: what a peer can do by itself is bounded.
MeshFairness ==
  /\ WF_meshVars(\E p \in Peers : Packets(p))
  /\ WF_meshVars((Prompt => Quiet) /\ \E p \in Peers : Transport(p))
  /\ WF_meshVars((Prompt => Quiet) /\ \E p \in Peers : Timers(p))

MeshSpec == MeshInit /\ [][MeshNext]_meshVars

-----------------------------------------------------------------------------
(* Properties.                                                             *)

\* Types; in particular, ids of connections are fresh and the retries of a peer
\* stay within the delays there are.
MeshTypeOK ==
  /\ \A p \in Peers :
       LET n == node[p]
       IN  /\ n.meshed \in BOOLEAN /\ n.joined \in BOOLEAN
           /\ n.known \subseteq Peers /\ n.departed \subseteq Peers
           /\ n.gen \in [Peers -> Nat]
           /\ n.retry \in [Peers -> [attempts : 0 .. RetryDelays + 1, scheduled : BOOLEAN]]
           /\ n.made \in Nat
           /\ \A id \in DOMAIN n.conn :
                /\ id.by \in Peers /\ id.no \in 1 .. node[id.by].made
                /\ n.conn[id].remote \in Peers \cup {Nobody}
                /\ n.conn[id].answerer \in Peers \cup {Nobody}
  /\ founded \in BOOLEAN
  /\ leaves \in 0 .. MaxLeaves
  /\ faults \in 0 .. MaxFaults

\* A link that works is to a peer the view has, or nothing would ever close it.
LinksAreKnown == \A p, q \in Peers : Linked(p, q) => q \in node[p].known

\* A peer has at most one link to another that the mesh made by itself, and two
\* peers never call each other at once: of two attempts neither would be taken.
OneAttempt ==
  \A p, q \in Peers :
    LET own(a, b) == {id \in linksTo(node[a], b) : isMeshManaged(node[a].conn[id])}
    IN  /\ Cardinality(own(p, q)) <= 1
        /\ ~(/\ \E id \in own(p, q) : node[p].conn[id].kind = "MeshOffer"
             /\ \E id \in own(q, p) : node[q].conn[id].kind = "MeshOffer")

\* Whatever is lost, late or refused, there is one attempt at each link.
LinksAreSound == MeshTypeOK /\ OneAttempt

\* Nobody is brought back by hearsay: a peer that was forgotten is known again
\* only where a link to it has just opened.
ForgottenStayAway ==
  [][\A p \in Peers : \A q \in node[p].departed \cap node'[p].known :
       \E id \in openIds(node'[p]) : node'[p].conn[id].remote = q]_meshVars

\* Nothing is under way: no packets, attempts, half-open links, retries, and
\* nobody left to forget.
AtRest ==
  /\ Quiet
  /\ \A p \in Peers :
       LET n == node[p]
       IN  /\ \A q \in Peers : ~n.retry[q].scheduled
           /\ \A id \in DOMAIN n.conn : n.conn[id].open /\ HasOtherEnd(p, id)
           /\ n.joined => n.known \subseteq Reachable(p)
           /\ due(p, n) = {}

\* Peers that can reach each other have an open link.
FullyLinked(p, q) == q \in Reachable(p) => Linked(p, q)

\* Whether one of two peers has forgotten the other.
Tombstone(p, q) == q \in node[p].departed \/ p \in node[q].departed

FullyLinkedPeers == \A p, q \in Peers : p # q /\ ~Tombstone(p, q) => FullyLinked(p, q)

\* The mesh rests only when it is full: whatever was lost, overtaken or refused
\* on the way, every two peers that can reach each other, neither of which was
\* forgotten, have learned of each other and have their link.
FullAtRest == AtRest => FullyLinkedPeers

\* Links and views fit: no link works to a peer out of view, and at rest none is
\* missing to a peer in view.
ViewsAreLinks == LinksAreKnown /\ FullAtRest

\* And it comes to that: stale generations, half-open links and lost offers do
\* not keep two peers apart for ever.
CloseAgain == []<>FullyLinkedPeers

\* (README.md, "automatic building of a full mesh") However peers joined, left
\* and lost links: those that can reach each other become a full mesh again.
FullMesh == []<>(\A p, q \in Peers : p # q => FullyLinked(p, q))
=============================================================================
