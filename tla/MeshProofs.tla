----------------------------- MODULE MeshProofs -----------------------------
(***************************************************************************)
(* Two things the members of a mesh do among themselves: close it into a   *)
(* full mesh of links, and find a common room at the server again.  The    *)
(* first for any number of peers, links, departures and faults, the second *)
(* for any number of members, rooms and lost connections.                  *)
(*                                                                         *)
(* Of the links: a call is made by the peer with the smaller identity, at  *)
(* an id that is nobody else's, and only that peer ever answers for it, so *)
(* what either end holds of it fits whatever is still on its way.  Of the  *)
(* rooms: a member makes one move at a time, and whatever else it asked of *)
(* the server before is for the room it moves from; so what is under way   *)
(* is in one of three stages, and in each of them the server can do what   *)
(* it is asked.                                                            *)
(***************************************************************************)
EXTENDS RoomRecovery, Mesh, SequenceTheorems, FiniteSetTheorems, TLAPS

-----------------------------------------------------------------------------
(* The links of a mesh.                                                    *)

Kinds     == {"ManualOffer", "ManualAnswer", "MeshOffer", "MeshAnswer"}
LinkIds   == [by : Peers, no : Nat \ {0}]
PacketIds == [by : Peers, no : Nat]
Retries   == [attempts : 0..RetryDelays + 1, scheduled : BOOLEAN]

\* The packets about a mesh.  Here and below b has the links each peer has made:
\* an offer is for a link its sender made, to a peer that does not call it.
Snapshots == [type : {"snapshot"}, sender : Peers, peers : SUBSET Peers]
FloodTypes == {"announce", "leave", "linkOffer", "linkAnswer"}
Floods ==
  [type : FloodTypes, sender : Peers, id : PacketIds, ttl : Nat, target : Peers \cup {Nobody},
   link : LinkIds \cup {NoLink}, gen : Nat]

Calls(m, b) ==
  m.type = "linkOffer" =>
    m.link \in LinkIds /\ m.link.no <= b[m.link.by] /\ m.link.by = m.sender /\ m.sender < m.target

Carried(b) == Snapshots \cup {m \in Floods : Calls(m, b)}

\* The connections of a peer, with packets of P on their way to it.
LinkEnds(P) ==
  [kind : Kinds, remote : Peers \cup {Nobody}, gen : Nat, answerer : Peers \cup {Nobody},
   produced : BOOLEAN, open : BOOLEAN, in : Seq(P)]

Conns(P) == UNION {[S -> LinkEnds(P)] : S \in SUBSET LinkIds}

Nodes(P) ==
  [meshed : BOOLEAN, joined : BOOLEAN, known : SUBSET Peers, departed : SUBSET Peers,
   gen : [Peers -> Nat], retry : [Peers -> Retries], conn : Conns(P), seen : SUBSET PacketIds,
   made : Nat, sent : Nat]

\* What a peer knows of its mesh: nobody it has forgotten, and it tries again
\* only where it is the one to call.
Views(p, n) ==
  /\ n.known \cap n.departed = {} /\ p \notin n.departed
  /\ \A q \in Peers : n.retry[q].scheduled => p < q

\* One end of a link.  C has the ids of the calls there have been: a call is one
\* of them, and no invitation is.
Fits(p, id, c, b, C) ==
  /\ id.no <= b[id.by]
  /\ c.kind = "MeshOffer" =>
       id.by = p /\ p < c.remote /\ c.answerer \in {Nobody, c.remote} /\ id \in C
  /\ c.kind = "MeshAnswer" => id.by = c.remote /\ c.remote # p
  /\ ~isMeshManaged(c) => id \notin C

\* The ends of a peer fit, and no two of its attempts are at one link.
Wired(p, f, b, C) ==
  /\ \A id \in DOMAIN f : Fits(p, id, f[id], b, C)
  /\ \A i, j \in DOMAIN f :
       isMeshManaged(f[i]) /\ isMeshManaged(f[j]) /\ f[i].remote = f[j].remote => i = j

Own(p, n, b, C) ==
  /\ n \in Nodes(Carried(b)) /\ n.made = b[p]
  /\ Views(p, n) /\ Wired(p, n.conn, b, C)

madeBy == [p \in Peers |-> node[p].made]

\* Texts are about invitations, which are no calls.
TextsFit(b, C) ==
  \A text \in texts :
    /\ text \in [kind : {"offer", "answer"}, link : LinkIds, from : Peers]
    /\ text.link.no <= b[text.link.by] /\ text.link \notin C

\* All of it, with the calls C there have been.
Holds(b, C) ==
  /\ C \subseteq LinkIds /\ \A id \in C : id.no <= b[id.by]
  /\ \A p \in Peers : Own(p, node[p], b, C)
  /\ TextsFit(b, C)

HoldsOn == \E C : Holds(madeBy, C)

MeshInv ==
  /\ HoldsOn
  /\ founded \in BOOLEAN /\ leaves \in 0..MaxLeaves /\ faults \in 0..MaxFaults

-----------------------------------------------------------------------------
(* What a peer knows of its mesh.                                          *)

LEMMA PeersAreNumbers ==
  /\ Peers \subseteq Nat \ {0} /\ Nobody = 0 /\ Nobody \notin Peers /\ RetryDelays \in Nat
  BY PeersAssumption DEF Nobody

LEMMA NoRetryIsOne == NoRetry \in Retries /\ ~NoRetry.scheduled
  BY PeersAssumption DEF NoRetry, Retries

\* The links stay as they are.
LEMMA ViewChanged ==
  ASSUME NEW p, NEW b, NEW C, NEW n, Own(p, n, b, C),
         NEW k \in Nodes(Carried(b)), k.conn = n.conn, k.made = n.made, Views(p, k)
  PROVE  Own(p, k, b, C)
  BY DEF Own

LEMMA Reset ==
  ASSUME NEW p \in Peers, NEW b, NEW C, NEW n, Own(p, n, b, C)
  PROVE  /\ Own(p, resetRuntime(n), b, C)
         /\ resetRuntime(n).known = {} /\ resetRuntime(n).conn = n.conn
<1> DEFINE k == resetRuntime(n)
           P == Carried(b)
<1> HIDE DEF P
<1>1. n \in Nodes(P)
  BY DEF Own, P
<1>2. [q \in Peers |-> NoRetry] \in [Peers -> Retries] /\ \A q \in Peers : ~[r \in Peers |-> NoRetry][q].scheduled
  BY NoRetryIsOne
<1>3. /\ k \in Nodes(P) /\ k.conn = n.conn /\ k.made = n.made
      /\ k.known = {} /\ k.departed = {} /\ k.retry = [q \in Peers |-> NoRetry]
  BY <1>1, <1>2 DEF resetRuntime, Nodes
<1>4. Views(p, k)
  BY <1>2, <1>3 DEF Views
<1> HIDE DEF k
<1>5. Own(p, k, b, C)
  BY <1>3, <1>4, ViewChanged DEF P
<1> QED
  BY <1>3, <1>5 DEF k

LEMMA Remembering ==
  ASSUME NEW p \in Peers, NEW b, NEW C, NEW n, Own(p, n, b, C), NEW q \in Peers
  PROVE  /\ Own(p, rememberPeer(n, q), b, C)
         /\ rememberPeer(n, q).conn = n.conn
         /\ rememberPeer(n, q).departed = n.departed
         /\ rememberPeer(n, q).known \subseteq n.known \cup {q}
<1> DEFINE k == [n EXCEPT !.known = @ \cup {q}]
           P == Carried(b)
<1> HIDE DEF P
<1>1. n \in Nodes(P) /\ Views(p, n)
  BY DEF Own, P
<1>2. CASE Rememberable(n, q)
  <2>1. /\ k \in Nodes(P) /\ k.conn = n.conn /\ k.made = n.made /\ k.retry = n.retry
        /\ k.known = n.known \cup {q} /\ k.departed = n.departed
    BY <1>1 DEF Nodes
  <2>2. Views(p, k)
    BY <1>1, <1>2, <2>1 DEF Views, Rememberable
  <2> HIDE DEF k
  <2>3. Own(p, k, b, C)
    BY <2>1, <2>2, ViewChanged DEF P
  <2> QED
    BY <1>2, <2>1, <2>3 DEF rememberPeer, k
<1>3. CASE ~Rememberable(n, q)
  BY <1>3 DEF rememberPeer
<1> QED
  BY <1>2, <1>3

\* The peer in a mesh, on its way into one, and in none.
Meshings(n) ==
  {[n EXCEPT !.meshed = TRUE, !.joined = TRUE],
   [n EXCEPT !.meshed = TRUE, !.joined = FALSE],
   [n EXCEPT !.meshed = FALSE, !.joined = FALSE]}

\* What the peer is at is no matter of its view.
LEMMA Meshing ==
  ASSUME NEW p \in Peers, NEW b, NEW C, NEW n, Own(p, n, b, C),
         NEW k \in Meshings(n)
  PROVE  Own(p, k, b, C) /\ k.conn = n.conn /\ k.known = n.known /\ k.departed = n.departed
<1> DEFINE P == Carried(b)
<1> HIDE DEF P
<1>1. n \in Nodes(P) /\ Views(p, n)
  BY DEF Own, P
<1>2. /\ k \in Nodes(P) /\ k.conn = n.conn /\ k.made = n.made /\ k.retry = n.retry
      /\ k.known = n.known /\ k.departed = n.departed
  BY <1>1 DEF Nodes, Meshings
<1>3. Views(p, k)
  BY <1>1, <1>2 DEF Views
<1> QED
  BY <1>2, <1>3, ViewChanged DEF P

LEMMA Starting ==
  ASSUME NEW p \in Peers, NEW b, NEW C, NEW n, Own(p, n, b, C)
  PROVE  /\ Own(p, create(p, n), b, C) /\ create(p, n).known \subseteq {p}
         /\ Own(p, beginJoin(p, n), b, C) /\ beginJoin(p, n).known \subseteq {p}
         /\ beginJoin(p, n).conn = n.conn
         /\ Own(p, leave(n), b, C) /\ leave(n).known = {} /\ leave(n).conn = n.conn
<1> DEFINE r == resetRuntime(n)
<1>1. Own(p, r, b, C) /\ r.known = {} /\ r.conn = n.conn
  BY Reset
<1> HIDE DEF r
<1> DEFINE c == [r EXCEPT !.meshed = TRUE, !.joined = TRUE]
           j == [r EXCEPT !.meshed = TRUE, !.joined = FALSE]
           l == [r EXCEPT !.meshed = FALSE, !.joined = FALSE]
<1>2. /\ Own(p, c, b, C) /\ c.known = {}
      /\ Own(p, j, b, C) /\ j.known = {} /\ j.conn = n.conn
      /\ Own(p, l, b, C) /\ l.known = {} /\ l.conn = n.conn
  <2>1. c \in Meshings(r) /\ j \in Meshings(r) /\ l \in Meshings(r)
    BY Zenon DEF Meshings
  <2> HIDE DEF c, j, l
  <2> QED
    BY <1>1, <2>1, Meshing
<1>3. create(p, n) = rememberPeer(c, p) /\ beginJoin(p, n) = rememberPeer(j, p) /\ leave(n) = l
  BY DEF create, beginJoin, leave, r
<1> HIDE DEF c, j, l
<1>4. /\ Own(p, rememberPeer(c, p), b, C) /\ rememberPeer(c, p).known \subseteq {p}
      /\ Own(p, rememberPeer(j, p), b, C) /\ rememberPeer(j, p).known \subseteq {p}
      /\ rememberPeer(j, p).conn = n.conn
  BY <1>2, Remembering
<1> QED
  BY <1>2, <1>3, <1>4

LEMMA Forgetting ==
  ASSUME NEW p \in Peers, NEW b, NEW C, NEW n, Own(p, n, b, C), NEW qs \in SUBSET (Peers \ {p})
  PROVE  /\ Own(p, forgetPeers(n, qs), b, C)
         /\ forgetPeers(n, qs).conn = n.conn
         /\ n.departed \subseteq forgetPeers(n, qs).departed
<1> DEFINE k == forgetPeers(n, qs)
           P == Carried(b)
<1> HIDE DEF P
<1>1. n \in Nodes(P) /\ Views(p, n)
  BY DEF Own, P
<1> DEFINE R == [q \in Peers |-> IF q \in qs THEN NoRetry ELSE n.retry[q]]
           G == [q \in Peers |-> IF q \in qs THEN 0 ELSE n.gen[q]]
<1>2. R \in [Peers -> Retries] /\ G \in [Peers -> Nat]
  BY <1>1, NoRetryIsOne DEF Nodes
<1>3. \A q \in Peers : R[q].scheduled => p < q
  BY <1>1, NoRetryIsOne DEF Views
<1>4. k = [n EXCEPT !.known = @ \ qs, !.retry = R, !.departed = @ \cup qs, !.gen = G]
  BY DEF forgetPeers
<1> HIDE DEF R, G, k
<1>5. /\ k \in Nodes(P) /\ k.conn = n.conn /\ k.made = n.made /\ k.retry = R
      /\ k.known = n.known \ qs /\ k.departed = n.departed \cup qs
  BY <1>1, <1>2, <1>4 DEF Nodes
<1>6. Views(p, k)
  BY <1>1, <1>3, <1>5 DEF Views
<1>7. Own(p, k, b, C)
  BY <1>5, <1>6, ViewChanged DEF P
<1> QED
  BY <1>5, <1>7 DEF k

LEMMA Ingesting ==
  ASSUME NEW p \in Peers, NEW b, NEW C, NEW n, Own(p, n, b, C), NEW peers \in SUBSET Peers,
         NEW k \in ingestPeerList(p, n, peers)
  PROVE  Own(p, k, b, C) /\ k.conn = n.conn /\ k.departed = n.departed
<1> DEFINE P == Carried(b)
<1> HIDE DEF P
<1>1. n \in Nodes(P) /\ Views(p, n)
  BY DEF Own, P
<1>2. PICK taken : taken \subseteq Peers \ n.departed /\ k = [n EXCEPT !.known = @ \cup taken]
  BY DEF ingestPeerList
<1>3. /\ k \in Nodes(P) /\ k.conn = n.conn /\ k.made = n.made /\ k.retry = n.retry
      /\ k.known = n.known \cup taken /\ k.departed = n.departed
  BY <1>1, <1>2 DEF Nodes
<1>4. Views(p, k)
  BY <1>1, <1>2, <1>3 DEF Views
<1> QED
  BY <1>3, <1>4, ViewChanged DEF P

\* The retry of one peer is renewed.
LEMMA Retrying ==
  ASSUME NEW p \in Peers, NEW b, NEW C, NEW n, Own(p, n, b, C), NEW q \in Peers,
         NEW r \in Retries, r.scheduled => p < q
  PROVE  LET k == [n EXCEPT !.retry[q] = r]
         IN  Own(p, k, b, C) /\ k.conn = n.conn /\ k.known = n.known /\ k.departed = n.departed
<1> DEFINE k == [n EXCEPT !.retry[q] = r]
           P == Carried(b)
           R == [n.retry EXCEPT ![q] = r]
<1> HIDE DEF P
<1>1. n \in Nodes(P) /\ Views(p, n)
  BY DEF Own, P
<1>2. n.retry \in [Peers -> Retries]
  BY <1>1 DEF Nodes
<1>3. R \in [Peers -> Retries] /\ R[q] = r /\ \A s \in Peers \ {q} : R[s] = n.retry[s]
  BY <1>2
<1>4. k = [n EXCEPT !.retry = R]
  OBVIOUS
<1> HIDE DEF R, k
<1>5. /\ k \in Nodes(P) /\ k.conn = n.conn /\ k.made = n.made /\ k.retry = R
      /\ k.known = n.known /\ k.departed = n.departed
  BY <1>1, <1>3, <1>4 DEF Nodes
<1>6. Views(p, k)
  BY <1>1, <1>3, <1>5 DEF Views
<1>7. Own(p, k, b, C)
  BY <1>5, <1>6, ViewChanged DEF P
<1> QED
  BY <1>5, <1>7 DEF k

LEMMA Scheduling ==
  ASSUME NEW p \in Peers, NEW b, NEW C, NEW n, Own(p, n, b, C), NEW q, p < q
  PROVE  LET k == scheduleRetry(n, q)
         IN  Own(p, k, b, C) /\ k.conn = n.conn /\ k.known = n.known /\ k.departed = n.departed
<1> DEFINE r == [attempts  |-> IF degraded(n, q) THEN n.retry[q].attempts ELSE n.retry[q].attempts + 1,
                 scheduled |-> TRUE]
<1>1. CASE n.meshed /\ q \in n.known /\ ~n.retry[q].scheduled
  <2>1. n.retry \in [Peers -> Retries] /\ q \in Peers
    BY <1>1 DEF Own, Nodes
  <2>2. n.retry[q] \in Retries
    BY <2>1
  <2>3. r \in Retries /\ r.scheduled
    BY <2>2, PeersAssumption DEF Retries, degraded
  <2>4. scheduleRetry(n, q) = [n EXCEPT !.retry[q] = r]
    BY <1>1, <2>1 DEF scheduleRetry, degraded
  <2> HIDE DEF r
  <2> QED
    BY <2>1, <2>3, <2>4, Retrying
<1>2. CASE ~(n.meshed /\ q \in n.known /\ ~n.retry[q].scheduled)
  BY <1>2 DEF scheduleRetry
<1> QED
  BY <1>1, <1>2

LEMMA RouteFound ==
  ASSUME NEW p \in Peers, NEW b, NEW C, NEW n, Own(p, n, b, C), NEW q \in Peers
  PROVE  LET k == routeAvailable(n, q)
         IN  Own(p, k, b, C) /\ k.conn = n.conn /\ k.known = n.known /\ k.departed = n.departed
  BY Retrying, NoRetryIsOne DEF routeAvailable

LEMMA BackoffReset ==
  ASSUME NEW p \in Peers, NEW b, NEW C, NEW n, Own(p, n, b, C)
  PROVE  LET k == resetRetryBackoff(n)
         IN  Own(p, k, b, C) /\ k.conn = n.conn /\ k.known = n.known /\ k.departed = n.departed
<1> DEFINE k == resetRetryBackoff(n)
           P == Carried(b)
           R == [q \in Peers |-> NoRetry]
<1> HIDE DEF P
<1>1. n \in Nodes(P) /\ Views(p, n)
  BY DEF Own, P
<1>2. R \in [Peers -> Retries] /\ \A q \in Peers : ~R[q].scheduled
  BY NoRetryIsOne
<1>3. k = [n EXCEPT !.retry = R]
  BY DEF resetRetryBackoff
<1> HIDE DEF R, k
<1>4. /\ k \in Nodes(P) /\ k.conn = n.conn /\ k.made = n.made /\ k.retry = R
      /\ k.known = n.known /\ k.departed = n.departed
  BY <1>1, <1>2, <1>3 DEF Nodes
<1>5. Views(p, k)
  BY <1>1, <1>2, <1>4 DEF Views
<1>6. Own(p, k, b, C)
  BY <1>4, <1>5, ViewChanged DEF P
<1> QED
  BY <1>4, <1>6 DEF k

LEMMA OpenedView ==
  ASSUME NEW p \in Peers, NEW b, NEW C, NEW n, Own(p, n, b, C), NEW q \in Peers
  PROVE  LET k == connectionOpened(n, q)
         IN  Own(p, k, b, C) /\ k.conn = n.conn /\ n.departed \ {q} \subseteq k.departed
<1> DEFINE P == Carried(b)
           R == [n.retry EXCEPT ![q] = NoRetry]
           k == [n EXCEPT !.joined = TRUE, !.departed = @ \ {q}, !.retry = R]
<1> HIDE DEF P
<1>1. n \in Nodes(P) /\ Views(p, n)
  BY DEF Own, P
<1>2. n.retry \in [Peers -> Retries]
  BY <1>1 DEF Nodes
<1>3. R \in [Peers -> Retries] /\ \A s \in Peers : R[s] = NoRetry \/ R[s] = n.retry[s]
  BY <1>2, NoRetryIsOne
<1>4. connectionOpened(n, q) = rememberPeer(k, q)
  BY DEF connectionOpened
<1> HIDE DEF R
<1>5. /\ k \in Nodes(P) /\ k.conn = n.conn /\ k.made = n.made /\ k.retry = R
      /\ k.known = n.known /\ k.departed = n.departed \ {q}
  BY <1>1, <1>3 DEF Nodes
<1> HIDE DEF k
<1>6. Views(p, k)
  BY <1>1, <1>3, <1>5, NoRetryIsOne DEF Views
<1>7. Own(p, k, b, C)
  BY <1>5, <1>6, ViewChanged DEF P
<1> QED
  BY <1>4, <1>5, <1>7, Remembering
-----------------------------------------------------------------------------
(* The ends of a peer's links.                                             *)

LEMMA EndsOf ==
  ASSUME NEW P, NEW f \in Conns(P)
  PROVE  /\ DOMAIN f \subseteq LinkIds /\ f \in [DOMAIN f -> LinkEnds(P)]
         /\ \A id \in DOMAIN f : f[id] \in LinkEnds(P)
  BY DEF Conns

LEMMA AreEnds ==
  ASSUME NEW P, NEW S \in SUBSET LinkIds, NEW f \in [S -> LinkEnds(P)]
  PROVE  f \in Conns(P) /\ DOMAIN f = S
  BY DEF Conns

\* The ends change, but not what they are ends of.
LEMMA Rewired ==
  ASSUME NEW p, NEW b, NEW C, NEW f, NEW g, Wired(p, f, b, C), DOMAIN g = DOMAIN f,
         \A id \in DOMAIN f :
           /\ g[id].kind = f[id].kind
           /\ isMeshManaged(f[id]) =>
                g[id].remote = f[id].remote /\ g[id].answerer \in {f[id].answerer, f[id].remote}
  PROVE  Wired(p, g, b, C)
<1>1. \A id \in DOMAIN f : isMeshManaged(g[id]) <=> isMeshManaged(f[id])
  BY DEF isMeshManaged
<1>2. \A id \in DOMAIN g : Fits(p, id, g[id], b, C)
  <2> TAKE id \in DOMAIN g
  <2>1. id \in DOMAIN f /\ Fits(p, id, f[id], b, C)
    BY DEF Wired
  <2>2. CASE isMeshManaged(f[id])
    <3>1. /\ g[id].kind = f[id].kind /\ g[id].remote = f[id].remote
          /\ g[id].answerer = f[id].answerer \/ g[id].answerer = f[id].remote
      BY <2>1, <2>2
    <3> QED
      BY <1>1, <2>1, <2>2, <3>1 DEF Fits
  <2>3. CASE ~isMeshManaged(f[id])
    BY <1>1, <2>1, <2>3 DEF Fits, isMeshManaged
  <2> QED
    BY <2>2, <2>3
<1>3. \A i, j \in DOMAIN g :
        isMeshManaged(g[i]) /\ isMeshManaged(g[j]) /\ g[i].remote = g[j].remote => i = j
  BY <1>1 DEF Wired
<1> QED
  BY <1>2, <1>3 DEF Wired

LEMMA Unwired ==
  ASSUME NEW p, NEW b, NEW C, NEW P, NEW f \in Conns(P), Wired(p, f, b, C), NEW xs
  PROVE  without(f, xs) \in Conns(P) /\ Wired(p, without(f, xs), b, C)
<1> DEFINE S == DOMAIN f \ xs
           g == without(f, xs)
<1>1. S \subseteq LinkIds /\ \A id \in S : f[id] \in LinkEnds(P)
  BY EndsOf
<1>2. g \in [S -> LinkEnds(P)] /\ \A id \in S : g[id] = f[id]
  BY <1>1 DEF without
<1> HIDE DEF g
<1>3. g \in Conns(P) /\ DOMAIN g = S
  BY <1>1, <1>2, AreEnds
<1>4. Wired(p, g, b, C)
  BY <1>2, <1>3 DEF Wired
<1> QED
  BY <1>3, <1>4 DEF g

\* One more end.
withEnd(f, id, c) == including(f, [x \in {id} |-> c])

LEMMA WiredMore ==
  ASSUME NEW p, NEW b, NEW C, NEW P, NEW f \in Conns(P), Wired(p, f, b, C),
         NEW id \in LinkIds, NEW c \in LinkEnds(P), Fits(p, id, c, b, C), id \notin DOMAIN f,
         isMeshManaged(c) => \A i \in DOMAIN f : f[i].remote # c.remote
  PROVE  LET g == withEnd(f, id, c)
         IN  g \in Conns(P) /\ Wired(p, g, b, C)
<1> DEFINE S == DOMAIN f \cup {id}
           g == withEnd(f, id, c)
<1>1. S \in SUBSET LinkIds /\ \A i \in DOMAIN f : f[i] \in LinkEnds(P)
  BY EndsOf
<1>2. g \in [S -> LinkEnds(P)] /\ g[id] = c /\ \A i \in DOMAIN f : g[i] = f[i]
  BY <1>1 DEF including, withEnd
<1> HIDE DEF g
<1>3. g \in Conns(P) /\ DOMAIN g = S
  BY <1>1, <1>2, AreEnds
<1>4. \A i \in DOMAIN g : Fits(p, i, g[i], b, C)
  BY <1>2, <1>3 DEF Wired
<1>5. \A i, j \in DOMAIN g :
        isMeshManaged(g[i]) /\ isMeshManaged(g[j]) /\ g[i].remote = g[j].remote => i = j
  BY <1>2, <1>3 DEF Wired
<1> QED
  BY <1>3, <1>4, <1>5 DEF Wired, g

-----------------------------------------------------------------------------
(* The links of a peer, in its record.                                     *)

\* The connections of a peer are others.
LEMMA Relinked ==
  ASSUME NEW p, NEW b, NEW C, NEW n, Own(p, n, b, C), NEW f \in Conns(Carried(b)), Wired(p, f, b, C)
  PROVE  LET k == [n EXCEPT !.conn = f]
         IN  /\ Own(p, k, b, C) /\ k.conn = f /\ k.known = n.known /\ k.departed = n.departed
             /\ k.meshed = n.meshed /\ k.joined = n.joined
<1> DEFINE k == [n EXCEPT !.conn = f]
           P == Carried(b)
<1> HIDE DEF P
<1>1. n \in Nodes(P) /\ f \in Conns(P)
  BY DEF Own, P
<1>2. /\ k \in Nodes(P) /\ k.conn = f /\ k.made = n.made /\ k.retry = n.retry
      /\ k.known = n.known /\ k.departed = n.departed /\ k.meshed = n.meshed /\ k.joined = n.joined
  BY <1>1 DEF Nodes
<1> HIDE DEF k
<1>3. Own(p, k, b, C)
  BY <1>2 DEF Own, Views, P
<1> QED
  BY <1>2, <1>3 DEF k

\* Packets are counted and remembered.
counted(n, s, t) == [n EXCEPT !.seen = s, !.sent = t]

LEMMA Counted ==
  ASSUME NEW p, NEW b, NEW C, NEW n, Own(p, n, b, C), NEW s \in SUBSET PacketIds, NEW t \in Nat
  PROVE  LET k == counted(n, s, t)
         IN  /\ Own(p, k, b, C) /\ k.conn = n.conn /\ k.known = n.known /\ k.departed = n.departed
<1> DEFINE k == counted(n, s, t)
           P == Carried(b)
<1> HIDE DEF P
<1>1. n \in Nodes(P)
  BY DEF Own, P
<1>2. /\ k \in Nodes(P) /\ k.conn = n.conn /\ k.made = n.made /\ k.retry = n.retry
      /\ k.known = n.known /\ k.departed = n.departed
  BY <1>1 DEF Nodes, counted
<1> HIDE DEF k
<1>3. Own(p, k, b, C)
  BY <1>2 DEF Own, Views, P
<1> QED
  BY <1>2, <1>3 DEF k

LEMMA Removing ==
  ASSUME NEW p \in Peers, NEW b, NEW C, NEW n, Own(p, n, b, C), NEW id
  PROVE  LET k == removed(p, n, id)
             l == failed(p, n, id)
         IN  /\ Own(p, k, b, C) /\ k.known = n.known /\ k.departed = n.departed
             /\ Own(p, l, b, C) /\ l.known = n.known /\ l.departed = n.departed
<1> DEFINE q == n.conn[id].remote
           g == without(n.conn, {id})
           m == [n EXCEPT !.conn = g]
           k == removed(p, n, id)
           l == failed(p, n, id)
<1>1. n.conn \in Conns(Carried(b)) /\ Wired(p, n.conn, b, C)
  BY DEF Own, Nodes
<1>2. g \in Conns(Carried(b)) /\ Wired(p, g, b, C)
  BY <1>1, Unwired
<1> HIDE DEF g
<1>3. Own(p, m, b, C) /\ m.known = n.known /\ m.departed = n.departed
  BY <1>2, Relinked
<1>4. k = m \/ (k = scheduleRetry(m, q) /\ p < q)
  BY DEF removed, shouldInitiateNegotiation, g
<1>5. l = k \/ (l = scheduleRetry(k, q) /\ p < q)
  BY DEF failed, shouldInitiateNegotiation
<1> HIDE DEF m, k, l, q
<1>6. Own(p, k, b, C) /\ k.known = n.known /\ k.departed = n.departed
  BY <1>3, <1>4, Scheduling
<1>7. Own(p, l, b, C) /\ l.known = n.known /\ l.departed = n.departed
  BY <1>5, <1>6, Scheduling
<1> QED
  BY <1>6, <1>7 DEF k, l

LEMMA Dropping ==
  ASSUME NEW p \in Peers, NEW b, NEW C, NEW n, Own(p, n, b, C), NEW qs \in SUBSET (Peers \ {p}),
         NEW k \in withoutMeshPeers(n, qs)
  PROVE  Own(p, k, b, C) /\ n.departed \subseteq k.departed
<1> DEFINE m == forgetPeers(n, qs)
<1>1. PICK dropped : k = [m EXCEPT !.conn = without(@, dropped)]
  BY DEF withoutMeshPeers
<1>2. Own(p, m, b, C) /\ n.departed \subseteq m.departed
  BY Forgetting
<1> HIDE DEF m
<1>3. m.conn \in Conns(Carried(b)) /\ Wired(p, m.conn, b, C)
  BY <1>2 DEF Own, Nodes
<1>4. without(m.conn, dropped) \in Conns(Carried(b)) /\ Wired(p, without(m.conn, dropped), b, C)
  BY <1>3, Unwired
<1> QED
  BY <1>1, <1>2, <1>4, Relinked
-----------------------------------------------------------------------------
(* More calls.                                                             *)

\* What was allowed still is when more links have been made, and the calls D,
\* which are new.
Later(b, d, D) ==
  /\ b \in [Peers -> Nat] /\ d \in [Peers -> Nat]
  /\ \A q \in Peers : b[q] <= d[q]
  /\ D \subseteq LinkIds /\ \A id \in D : id.no > b[id.by] /\ id.no <= d[id.by]

LEMMA CarriedLater ==
  ASSUME NEW b, NEW d, NEW D, Later(b, d, D)
  PROVE  Carried(b) \subseteq Carried(d)
<1>1. \A m \in Floods : Calls(m, b) => Calls(m, d)
  <2> SUFFICES ASSUME NEW m \in Floods, Calls(m, b), m.type = "linkOffer"
               PROVE  Calls(m, d)
    BY DEF Calls
  <2>1. m.link \in LinkIds /\ m.link.no <= b[m.link.by] /\ m.link.by = m.sender /\ m.sender < m.target
    BY DEF Calls
  <2>2. m.link.by \in Peers /\ m.link.no \in Nat
    BY <2>1 DEF LinkIds
  <2>3. b[m.link.by] \in Nat /\ d[m.link.by] \in Nat /\ b[m.link.by] <= d[m.link.by]
    BY <2>2 DEF Later
  <2>4. m.link.no <= d[m.link.by]
    BY <2>1, <2>2, <2>3
  <2> QED
    BY <2>1, <2>4 DEF Calls
<1> QED
  BY <1>1 DEF Carried

LEMMA ConnsLater ==
  ASSUME NEW P, NEW Q, P \subseteq Q
  PROVE  /\ LinkEnds(P) \subseteq LinkEnds(Q) /\ Conns(P) \subseteq Conns(Q) /\ Nodes(P) \subseteq Nodes(Q)
<1>1. Seq(P) \subseteq Seq(Q)
  OBVIOUS
<1>2. LinkEnds(P) \subseteq LinkEnds(Q)
  BY <1>1 DEF LinkEnds
<1>3. Conns(P) \subseteq Conns(Q)
  BY <1>2 DEF Conns
<1>4. Nodes(P) \subseteq Nodes(Q)
  BY <1>3 DEF Nodes
<1> QED
  BY <1>2, <1>3, <1>4

LEMMA WiredLater ==
  ASSUME NEW p, NEW b, NEW C, NEW d, NEW D, Later(b, d, D),
         NEW P, NEW f \in Conns(P), Wired(p, f, b, C)
  PROVE  Wired(p, f, d, C \cup D)
<1>1. \A id \in DOMAIN f : Fits(p, id, f[id], d, C \cup D)
  <2> TAKE id \in DOMAIN f
  <2>1. id \in LinkIds /\ Fits(p, id, f[id], b, C)
    BY EndsOf DEF Wired
  <2>2. id.by \in Peers /\ id.no \in Nat
    BY <2>1 DEF LinkIds
  <2>3. b[id.by] \in Nat /\ d[id.by] \in Nat /\ b[id.by] <= d[id.by] /\ (id \in D => id.no > b[id.by])
    BY <2>2 DEF Later
  <2>4. id.no <= b[id.by]
    BY <2>1 DEF Fits
  <2>5. id.no <= d[id.by] /\ id \notin D
    BY <2>2, <2>3, <2>4
  <2> QED
    BY <2>1, <2>5 DEF Fits
<1> QED
  BY <1>1 DEF Wired

LEMMA OwnLater ==
  ASSUME NEW p, NEW n, NEW b, NEW C, NEW d, NEW D, Later(b, d, D), Own(p, n, b, C), n.made = d[p]
  PROVE  Own(p, n, d, C \cup D)
<1>1. n \in Nodes(Carried(b)) /\ n.conn \in Conns(Carried(b))
  BY DEF Own, Nodes
<1>2. n \in Nodes(Carried(d))
  BY <1>1, CarriedLater, ConnsLater
<1>3. Wired(p, n.conn, d, C \cup D)
  BY <1>1, WiredLater DEF Own
<1> QED
  BY <1>2, <1>3 DEF Own

\* The numbers of calls made at once: a number for each of the peers.
LEMMA CallNumbers ==
  ASSUME NEW p, NEW n, n.made \in Nat, NEW qs \in SUBSET Peers
  PROVE  /\ Cardinality(qs) \in Nat
         /\ \A q \in qs : /\ callTo(p, n, qs, q).by = p
                         /\ callTo(p, n, qs, q).no \in n.made + 1 .. n.made + Cardinality(qs)
         /\ \A q, r \in qs : callTo(p, n, qs, q) = callTo(p, n, qs, r) => q = r
<1> DEFINE upTo(q) == {r \in qs : r <= q}
<1>1. IsFiniteSet(qs) /\ Cardinality(qs) \in Nat
  BY PeersAssumption, FS_Subset, FS_CardinalityType
<1>2. \A q : IsFiniteSet(upTo(q)) /\ Cardinality(upTo(q)) \in Nat /\ Cardinality(upTo(q)) <= Cardinality(qs)
  <2> TAKE q
  <2>1. upTo(q) \subseteq qs
    OBVIOUS
  <2> HIDE DEF upTo
  <2> QED
    BY <1>1, <2>1, FS_Subset, FS_CardinalityType
<1>3. \A q \in qs : Cardinality(upTo(q)) # 0
  <2> TAKE q \in qs
  <2>1. q \in upTo(q)
    BY PeersAreNumbers
  <2> HIDE DEF upTo
  <2> QED
    BY <1>2, <2>1, FS_EmptySet
<1>4. \A q, r \in qs : q < r => Cardinality(upTo(q)) < Cardinality(upTo(r))
  <2> TAKE q, r \in qs
  <2> HAVE q < r
  <2>1. q \in Nat /\ r \in Nat
    BY PeersAreNumbers
  <2>2. upTo(q) \subseteq upTo(r)
    <3> SUFFICES ASSUME NEW s \in qs, s <= q
                 PROVE  s <= r
      OBVIOUS
    <3>1. s \in Nat
      BY PeersAreNumbers
    <3> QED
      BY <2>1, <3>1
  <2>3. r \in upTo(r) /\ r \notin upTo(q)
    BY <2>1
  <2> HIDE DEF upTo
  <2>4. /\ Cardinality(upTo(q)) <= Cardinality(upTo(r))
        /\ Cardinality(upTo(q)) # Cardinality(upTo(r))
    BY <1>2, <2>2, <2>3, FS_Subset
  <2> QED
    BY <1>2, <2>4
<1>5. \A q \in qs : /\ callTo(p, n, qs, q).by = p
                   /\ callTo(p, n, qs, q).no = n.made + Cardinality(upTo(q))
  BY DEF callTo
<1> HIDE DEF upTo
<1>6. \A q \in qs : callTo(p, n, qs, q).no \in n.made + 1 .. n.made + Cardinality(qs)
  BY <1>1, <1>2, <1>3, <1>5
<1>7. \A q, r \in qs : callTo(p, n, qs, q) = callTo(p, n, qs, r) => q = r
  <2> TAKE q, r \in qs
  <2> HAVE callTo(p, n, qs, q) = callTo(p, n, qs, r)
  <2>1. Cardinality(upTo(q)) = Cardinality(upTo(r))
    BY <1>2, <1>5
  <2>2. q \in Nat /\ r \in Nat /\ ~(q < r) /\ ~(r < q)
    BY <1>2, <1>4, <2>1, PeersAreNumbers
  <2> QED
    BY <2>2
<1> QED
  BY <1>1, <1>5, <1>6, <1>7

LEMMA NewEnd ==
  ASSUME NEW P, NEW kind \in Kinds, NEW remote \in Peers \cup {Nobody}, NEW gen \in Nat,
         NEW answerer \in Peers \cup {Nobody}
  PROVE  LET c == Connection(kind, remote, gen, answerer)
         IN  /\ c \in LinkEnds(P) /\ c.kind = kind /\ c.remote = remote /\ c.answerer = answerer
             /\ ~c.open
  BY DEF Connection, LinkEnds

CallIds(p, n, qs) == {callTo(p, n, qs, q) : q \in qs}

\* The calls, each at its id.
LEMMA CallsMade ==
  ASSUME NEW p \in Peers, NEW n, n.made \in Nat, NEW qs \in SUBSET Peers,
         NEW G \in [Peers -> Nat], NEW P
  PROVE  LET D == CallIds(p, n, qs)
             f == calls(p, n, qs, G)
         IN  /\ D \in SUBSET LinkIds /\ f \in [D -> LinkEnds(P)]
             /\ \A id \in D : /\ id.by = p /\ id.no > n.made /\ id.no <= n.made + Cardinality(qs)
                             /\ f[id].kind = "MeshOffer" /\ f[id].answerer = Nobody
                             /\ f[id].remote \in qs /\ id = callTo(p, n, qs, f[id].remote)
<1> DEFINE D == CallIds(p, n, qs)
           f == calls(p, n, qs, G)
           whom(id) == CHOOSE q \in qs : callTo(p, n, qs, q) = id
<1>1. \A q \in qs : /\ callTo(p, n, qs, q).by = p /\ callTo(p, n, qs, q).no \in Nat \ {0}
                   /\ callTo(p, n, qs, q).no > n.made
                   /\ callTo(p, n, qs, q).no <= n.made + Cardinality(qs)
                   /\ callTo(p, n, qs, q) \in LinkIds
  <2> TAKE q \in qs
  <2>1. /\ callTo(p, n, qs, q).by = p /\ callTo(p, n, qs, q).no \in Nat \ {0}
        /\ callTo(p, n, qs, q).no > n.made
        /\ callTo(p, n, qs, q).no <= n.made + Cardinality(qs)
    BY CallNumbers
  <2>2. callTo(p, n, qs, q) \in LinkIds
    BY <2>1 DEF callTo, LinkIds
  <2> QED
    BY <2>1, <2>2
<1>2. \A id \in D : whom(id) \in qs /\ callTo(p, n, qs, whom(id)) = id
  BY DEF CallIds
<1>3. \A id \in D : f[id] = Connection("MeshOffer", whom(id), G[whom(id)], Nobody)
  BY DEF calls, CallIds
<1>4. DOMAIN f = D /\ f = [id \in D |-> f[id]]
  BY DEF calls, CallIds
<1> HIDE DEF f, whom
<1>5. \A id \in D : f[id] \in LinkEnds(P) /\ f[id].kind = "MeshOffer" /\ f[id].answerer = Nobody
                    /\ f[id].remote = whom(id)
  <2> TAKE id \in D
  <2>1. whom(id) \in Peers /\ G[whom(id)] \in Nat /\ <<>> \in Seq(P)
    BY <1>2
  <2>2. "MeshOffer" \in Kinds /\ whom(id) \in Peers \cup {Nobody} /\ Nobody \in Peers \cup {Nobody}
    BY <2>1 DEF Kinds
  <2> DEFINE c == Connection("MeshOffer", whom(id), G[whom(id)], Nobody)
  <2>3. c \in LinkEnds(P) /\ c.kind = "MeshOffer" /\ c.remote = whom(id) /\ c.answerer = Nobody
    BY <2>1, <2>2, NewEnd
  <2>4. f[id] = c
    BY <1>3
  <2> HIDE DEF c
  <2> QED
    BY <2>3, <2>4
<1>6. f \in [D -> LinkEnds(P)]
  BY <1>4, <1>5
<1>7. D \in SUBSET LinkIds
  BY <1>1 DEF CallIds
<1>8. \A id \in D : id.by = p /\ id.no > n.made /\ id.no <= n.made + Cardinality(qs)
  BY <1>1 DEF CallIds
<1> QED
  BY <1>2, <1>5, <1>6, <1>7, <1>8 DEF f

\* k has the ends of n, and others.
Extends(k, n) == \A id \in DOMAIN n.conn : id \in DOMAIN k.conn /\ k.conn[id] = n.conn[id]

\* The calls are made: startMeshOffer.
LEMMA Offering ==
  ASSUME NEW p \in Peers, NEW b \in [Peers -> Nat], NEW C, NEW n, Own(p, n, b, C),
         NEW qs \in SUBSET Peers, \A q \in qs : p < q /\ ~hasLink(n, q)
  PROVE  LET k == afterOffers(p, n, qs)
             d == [b EXCEPT ![p] = k.made]
         IN  /\ k.known = n.known /\ k.departed = n.departed /\ Extends(k, n)
             /\ \E D : Later(b, d, D) /\ Own(p, k, d, C \cup D)
<1> DEFINE size == Cardinality(qs)
           D == CallIds(p, n, qs)
           G == [q \in Peers |-> IF q \in qs THEN n.gen[q] + 1 ELSE n.gen[q]]
           f == calls(p, n, qs, G)
           g == including(n.conn, f)
           k == afterOffers(p, n, qs)
           d == [b EXCEPT ![p] = n.made + size]
           P == Carried(d)
<1>1. /\ n.made \in Nat /\ n.made = b[p] /\ n.gen \in [Peers -> Nat] /\ Views(p, n)
      /\ n.conn \in Conns(Carried(b)) /\ Wired(p, n.conn, b, C)
  BY DEF Own, Nodes
<1>2. G \in [Peers -> Nat] /\ size \in Nat
  <2>1. G \in [Peers -> Nat]
    BY <1>1
  <2>2. size \in Nat
    BY <1>1, CallNumbers
  <2> QED
    BY <2>1, <2>2
<1>3. k = [n EXCEPT !.made = n.made + size, !.gen = G, !.conn = g]
  BY <1>1 DEF afterOffers
<1> HIDE DEF G, k
<1>4. /\ D \in SUBSET LinkIds /\ f \in [D -> LinkEnds(P)]
      /\ \A id \in D : /\ id.by = p /\ id.no > n.made /\ id.no <= n.made + size
                      /\ f[id].kind = "MeshOffer" /\ f[id].answerer = Nobody
                      /\ f[id].remote \in qs /\ id = callTo(p, n, qs, f[id].remote)
  <2> HIDE DEF P
  <2>1. D \in SUBSET LinkIds
    BY <1>1, <1>2, CallsMade
  <2>2. f \in [D -> LinkEnds(P)]
    BY <1>1, <1>2, CallsMade
  <2>3. \A id \in D : /\ id.by = p /\ id.no > n.made /\ id.no <= n.made + size
                     /\ f[id].kind = "MeshOffer" /\ f[id].answerer = Nobody
                     /\ f[id].remote \in qs /\ id = callTo(p, n, qs, f[id].remote)
    BY <1>1, <1>2, <2>2, CallsMade
  <2> QED
    BY <2>1, <2>2, <2>3
<1> HIDE DEF f, D
<1>5. d \in [Peers -> Nat] /\ d[p] = n.made + size /\ \A q \in Peers : b[q] <= d[q]
  BY <1>1, <1>2
<1>6. Later(b, d, D)
  BY <1>1, <1>4, <1>5 DEF Later
<1> HIDE DEF d, size
<1>7. n \in Nodes(P) /\ n.conn \in Conns(P) /\ Wired(p, n.conn, d, C \cup D)
  <2>1. Carried(b) \subseteq P
    BY <1>6, CarriedLater
  <2> HIDE DEF P
  <2>2. n \in Nodes(P) /\ n.conn \in Conns(P)
    BY <1>1, <2>1, ConnsLater DEF Own
  <2> QED
    BY <1>1, <1>6, <2>2, WiredLater
<1> HIDE DEF P
<1> DEFINE S == DOMAIN n.conn \cup D
<1>8. g \in Conns(P) /\ DOMAIN g = S /\ (\A id \in D : g[id] = f[id])
      /\ \A id \in S \ D : id \in DOMAIN n.conn /\ g[id] = n.conn[id]
  <2>1. DOMAIN n.conn \subseteq LinkIds /\ (\A id \in DOMAIN n.conn : n.conn[id] \in LinkEnds(P)) /\ DOMAIN f = D
    BY <1>4, <1>7, EndsOf
  <2>2. /\ g \in [S -> LinkEnds(P)] /\ \A id \in D : g[id] = f[id]
        /\ \A id \in S \ D : id \in DOMAIN n.conn /\ g[id] = n.conn[id]
    BY <1>4, <2>1 DEF including
  <2>3. S \in SUBSET LinkIds
    BY <1>4, <2>1
  <2> HIDE DEF g, S
  <2> QED
    BY <2>2, <2>3, AreEnds
<1> HIDE DEF g
<1>9. \A id \in S : Fits(p, id, g[id], d, C \cup D)
  <2> TAKE id \in S
  <2>1. CASE id \in D
    <3>1. id.no <= d[p] /\ id.by = p /\ g[id].kind = "MeshOffer" /\ g[id].answerer = Nobody /\ g[id].remote \in qs
      BY <1>4, <1>5, <1>8, <2>1
    <3> QED
      BY <2>1, <3>1 DEF Fits, isMeshManaged
  <2>2. CASE id \notin D
    BY <1>7, <1>8, <2>2 DEF Wired
  <2> QED
    BY <2>1, <2>2
<1>10. \A i, j \in S : isMeshManaged(g[i]) /\ isMeshManaged(g[j]) /\ g[i].remote = g[j].remote => i = j
  <2> SUFFICES ASSUME NEW i \in S, NEW j \in S, isMeshManaged(g[i]), isMeshManaged(g[j]),
                      g[i].remote = g[j].remote
               PROVE  i = j
    OBVIOUS
  <2>1. \A id \in DOMAIN n.conn : n.conn[id].remote \notin qs
    BY DEF hasLink, linksTo
  <2>2. CASE i \in D /\ j \in D
    BY <1>4, <1>8, <2>2
  <2>3. CASE i \notin D /\ j \notin D
    BY <1>7, <1>8, <2>3 DEF Wired
  <2>4. (i \in D) <=> (j \in D)
    BY <1>4, <1>8, <2>1
  <2> QED
    BY <2>2, <2>3, <2>4
<1>11. Wired(p, g, d, C \cup D)
  BY <1>8, <1>9, <1>10 DEF Wired
<1>12. /\ k \in Nodes(P) /\ k.conn = g /\ k.made = n.made + size /\ k.retry = n.retry
       /\ k.known = n.known /\ k.departed = n.departed
  <2>1. n.made + size \in Nat
    BY <1>1, <1>2
  <2> QED
    BY <1>2, <1>3, <1>7, <1>8, <2>1 DEF Nodes
<1>13. Own(p, k, d, C \cup D)
  BY <1>1, <1>5, <1>11, <1>12 DEF Own, Views, P
<1>14. d = [b EXCEPT ![p] = k.made]
  BY <1>12 DEF d
<1>15. ASSUME NEW id \in DOMAIN n.conn
       PROVE  id \in S /\ g[id] = n.conn[id]
  <2>1. id \in LinkIds /\ id.no <= b[id.by]
    BY <1>1, EndsOf DEF Wired, Fits
  <2>2. id.no \in Nat
    BY <2>1 DEF LinkIds
  <2>3. id \notin D
    BY <1>1, <1>4, <2>1, <2>2
  <2> QED
    BY <1>8, <2>3 DEF S
<1>16. Extends(k, n)
  BY <1>8, <1>12, <1>15 DEF Extends
<1> QED
  BY <1>6, <1>12, <1>13, <1>14, <1>16 DEF k

\* k is what becomes of a peer that makes the calls D, when peers have made d links.
Becomes(p, k, b, C, d, D) ==
  d = [b EXCEPT ![p] = k.made] /\ Later(b, d, D) /\ Own(p, k, d, C \cup D)

\* A peer that makes no calls.
LEMMA NoCalls ==
  ASSUME NEW p \in Peers, NEW k, NEW b \in [Peers -> Nat], NEW C, Own(p, k, b, C)
  PROVE  Becomes(p, k, b, C, b, {})
<1>1. \A q \in Peers : b[q] <= b[q]
  OBVIOUS
<1>2. b = [b EXCEPT ![p] = k.made]
  BY DEF Own
<1>3. C \cup {} = C
  OBVIOUS
<1> QED
  BY <1>1, <1>2, <1>3 DEF Becomes, Later

LEMMA OfferingEnds ==
  ASSUME NEW p \in Peers, NEW b \in [Peers -> Nat], NEW C, NEW n, Own(p, n, b, C),
         NEW qs \in SUBSET Peers, \A q \in qs : p < q /\ ~hasLink(n, q)
  PROVE  LET k == afterOffers(p, n, qs)
         IN  /\ k.known = n.known /\ k.departed = n.departed /\ Extends(k, n)
             /\ \E d, D : Becomes(p, k, b, C, d, D)
<1> DEFINE k == afterOffers(p, n, qs)
           d == [b EXCEPT ![p] = k.made]
<1>1. /\ k.known = n.known /\ k.departed = n.departed /\ Extends(k, n)
      /\ \E D : Later(b, d, D) /\ Own(p, k, d, C \cup D)
  BY Offering
<1>2. PICK D : Later(b, d, D) /\ Own(p, k, d, C \cup D)
  BY <1>1
<1> HIDE DEF k
<1>3. Becomes(p, k, b, C, d, D)
  BY <1>2 DEF Becomes
<1> QED
  BY <1>1, <1>3 DEF k

LEMMA Ensuring ==
  ASSUME NEW p \in Peers, NEW b \in [Peers -> Nat], NEW C, NEW n, Own(p, n, b, C)
  PROVE  LET k == ensureDynamicMesh(p, n)
         IN  /\ k.known = n.known /\ k.departed = n.departed /\ Extends(k, n)
             /\ \E d, D : Becomes(p, k, b, C, d, D)
<1> DEFINE qs == due(p, n)
<1>1. n.known \subseteq Peers
  BY DEF Own, Nodes
<1>2. qs \in SUBSET Peers /\ \A q \in qs : p < q /\ ~hasLink(n, q)
  BY <1>1 DEF due, shouldInitiateNegotiation
<1> HIDE DEF qs
<1>3. ensureDynamicMesh(p, n) = afterOffers(p, n, qs)
  BY DEF ensureDynamicMesh, qs
<1> QED
  BY <1>2, <1>3, OfferingEnds

-----------------------------------------------------------------------------
(* Packets on their way.                                                   *)

Mails(mail, b) == \A id \in DOMAIN mail : mail[id] \in Seq(Carried(b))

LEMMA MailSent ==
  ASSUME NEW b
  PROVE  /\ Mails(NoMail, b)
         /\ \A ids, m : m \in Carried(b) => Mails(To(ids, m), b)
         /\ \A m1, m2 : Mails(m1, b) /\ Mails(m2, b) => Mails(m1 ++ m2, b)
<1> DEFINE P == Carried(b)
<1> HIDE DEF P
<1>1. Mails(NoMail, b)
  BY DEF Mails, NoMail
<1>2. ASSUME NEW ids, NEW m \in P
      PROVE  Mails(To(ids, m), b)
  <2>1. <<m>> \in Seq(P)
    BY <1>2
  <2> QED
    BY <2>1 DEF Mails, To, P
<1>3. ASSUME NEW m1, NEW m2, Mails(m1, b), Mails(m2, b)
      PROVE  Mails(m1 ++ m2, b)
  <2> DEFINE part(m, id) == IF id \in DOMAIN m THEN m[id] ELSE <<>>
  <2>1. \A id : part(m1, id) \in Seq(P) /\ part(m2, id) \in Seq(P)
    BY <1>3 DEF Mails, P
  <2>2. \A id \in DOMAIN m1 \cup DOMAIN m2 : (m1 ++ m2)[id] = part(m1, id) \o part(m2, id)
    BY DEF ++
  <2>3. DOMAIN (m1 ++ m2) = DOMAIN m1 \cup DOMAIN m2
    BY DEF ++
  <2> HIDE DEF part
  <2>4. \A id : part(m1, id) \o part(m2, id) \in Seq(P)
    BY <2>1, ConcatProperties
  <2> QED
    BY <2>2, <2>3, <2>4 DEF Mails, P
<1> QED
  BY <1>1, <1>2, <1>3 DEF P

\* Packets come in at some of the ends.
Arrived(f, X, mail) ==
  [id \in DOMAIN f |-> IF id \in X THEN [f[id] EXCEPT !.in = @ \o mail[id]] ELSE f[id]]

LEMMA Delivered ==
  ASSUME NEW P, NEW f \in Conns(P), NEW mail, NEW X, \A id \in X : mail[id] \in Seq(P)
  PROVE  LET g == Arrived(f, X, mail)
         IN  /\ g \in Conns(P) /\ DOMAIN g = DOMAIN f
             /\ \A id \in DOMAIN f : /\ g[id].kind = f[id].kind /\ g[id].remote = f[id].remote
                                   /\ g[id].answerer = f[id].answerer
<1> DEFINE e(id) == [f[id] EXCEPT !.in = @ \o mail[id]]
           g == Arrived(f, X, mail)
<1>1. DOMAIN f \in SUBSET LinkIds /\ \A id \in DOMAIN f : f[id] \in LinkEnds(P)
  BY EndsOf
<1>2. ASSUME NEW id \in DOMAIN f, id \in X
      PROVE  e(id) \in LinkEnds(P) /\ e(id).kind = f[id].kind /\ e(id).remote = f[id].remote /\ e(id).answerer = f[id].answerer
  <2>1. f[id] \in LinkEnds(P) /\ f[id].in \in Seq(P)
    BY <1>1 DEF LinkEnds
  <2>2. f[id].in \o mail[id] \in Seq(P)
    BY <1>2, <2>1, ConcatProperties
  <2> QED
    BY <2>1, <2>2 DEF LinkEnds
<1>0. g = [id \in DOMAIN f |-> IF id \in X THEN e(id) ELSE f[id]]
  BY DEF Arrived
<1> HIDE DEF e, g
<1>3. g \in [DOMAIN f -> LinkEnds(P)]
  BY <1>0, <1>1, <1>2
<1>4. \A id \in DOMAIN f : /\ g[id].kind = f[id].kind /\ g[id].remote = f[id].remote
                          /\ g[id].answerer = f[id].answerer
  BY <1>0, <1>2
<1>5. g \in Conns(P) /\ DOMAIN g = DOMAIN f
  BY <1>1, <1>3, AreEnds
<1> QED
  BY <1>4, <1>5 DEF g

TextFits(text, b, C) ==
  /\ text \in [kind : {"offer", "answer"}, link : LinkIds, from : Peers]
  /\ text.link.no <= b[text.link.by] /\ text.link \notin C

\* A peer takes a step.
LEMMA Stepping ==
  ASSUME NEW C, Holds(madeBy, C), NEW p \in Peers, NEW k, NEW mail, Step(p, k, mail),
         NEW d, NEW D, Becomes(p, k, madeBy, C, d, D), Mails(mail, d),
         \A text \in texts' : text \in texts \/ TextFits(text, madeBy, C)
  PROVE  HoldsOn'
<1> DEFINE E == C \cup D
<1>1. d = [madeBy EXCEPT ![p] = k.made] /\ Later(madeBy, d, D) /\ Own(p, k, d, E)
  BY DEF Becomes
<1>2. madeBy \in [Peers -> Nat] /\ d \in [Peers -> Nat]
  BY <1>1 DEF Later
<1>3. node'[p] = k
  BY DEF Step
<1>4. ASSUME NEW q \in Peers \ {p}
      PROVE  node'[q].made = node[q].made /\ Own(q, node'[q], d, E)
  <2> DEFINE n == node[q]
             f == n.conn
             X == {id \in DOMAIN mail : Joins(id, p, q)}
             g == Arrived(f, X, mail)
             h == delivered(f, p, q, mail)
             P == Carried(d)
  <2>0. node'[q] = [n EXCEPT !.conn = h]
    <3>1. q \in Peers /\ q # p
      OBVIOUS
    <3> QED
      BY <3>1, Zenon DEF Step
  <2>1. node'[q] = [n EXCEPT !.conn = g]
    <3>1. h = g
      BY DEF Arrived, delivered
    <3> HIDE DEF h, g
    <3> QED
      BY <2>0, <3>1
  <2>2. n.made = d[q]
    BY <1>1 DEF madeBy
  <2>3. Own(q, n, d, E)
    BY <1>1, <2>2, OwnLater DEF Holds
  <2>4. f \in Conns(P) /\ Wired(q, f, d, E)
    BY <2>3 DEF Own, Nodes
  <2>5. \A id \in X : mail[id] \in Seq(P)
    BY DEF Mails
  <2> HIDE DEF n, f, P, X
  <2>6. /\ g \in Conns(P) /\ DOMAIN g = DOMAIN f
        /\ \A id \in DOMAIN f : /\ g[id].kind = f[id].kind /\ g[id].remote = f[id].remote
                              /\ g[id].answerer = f[id].answerer
    BY <2>4, <2>5, Delivered
  <2> HIDE DEF g
  <2>7. Wired(q, g, d, E)
    BY <2>4, <2>6, Rewired
  <2>8. Own(q, [n EXCEPT !.conn = g], d, E)
    BY <2>3, <2>6, <2>7, Relinked DEF P
  <2>9. [n EXCEPT !.conn = g].made = n.made
    BY <2>3 DEF Own, Nodes
  <2> QED
    BY <2>1, <2>8, <2>9 DEF n
<1>5. madeBy' = d
  <2>1. \A q \in Peers : node'[q].made = d[q]
    BY <1>1, <1>3, <1>4 DEF madeBy
  <2>2. madeBy' = [q \in Peers |-> d[q]]
    BY <2>1 DEF madeBy
  <2> QED
    BY <1>2, <2>2
<1>6. E \subseteq LinkIds /\ \A id \in E : id.no <= d[id.by]
  <2>1. \A id \in C : id.by \in Peers /\ id.no \in Nat /\ id.no <= madeBy[id.by]
    BY DEF Holds, LinkIds
  <2>2. \A id \in C : id.no <= d[id.by]
    BY <1>2, <2>1, <1>1 DEF Later
  <2> QED
    BY <1>1, <2>2 DEF Holds, Later
<1>7. \A q \in Peers : Own(q, node'[q], d, E)
  BY <1>1, <1>3, <1>4
<1>8. \A text \in texts' : TextFits(text, d, E)
  <2> TAKE text \in texts'
  <2>1. TextFits(text, madeBy, C)
    BY DEF Holds, TextsFit, TextFits
  <2>2. text.link \in LinkIds /\ text.link.by \in Peers /\ text.link.no \in Nat
    BY <2>1 DEF TextFits, LinkIds
  <2>3. /\ madeBy[text.link.by] \in Nat /\ d[text.link.by] \in Nat /\ madeBy[text.link.by] <= d[text.link.by]
        /\ text.link \in D => text.link.no > madeBy[text.link.by]
    BY <1>1, <2>2 DEF Later
  <2>4. text.link.no <= madeBy[text.link.by]
    BY <2>1 DEF TextFits
  <2>5. text.link.no <= d[text.link.by] /\ text.link \notin D
    BY <2>2, <2>3, <2>4
  <2> QED
    BY <2>1, <2>5 DEF TextFits
<1>9. Holds(madeBy, E)'
  BY <1>5, <1>6, <1>7, <1>8 DEF Holds, TextsFit, TextFits
<1> QED
  BY <1>9 DEF HoldsOn

LEMMA MailsLater ==
  ASSUME NEW mail, NEW b, NEW d, NEW D, Mails(mail, b), Later(b, d, D)
  PROVE  Mails(mail, d)
<1>1. Carried(b) \subseteq Carried(d)
  BY CarriedLater
<1> DEFINE P == Carried(b)
           Q == Carried(d)
<1> HIDE DEF P, Q
<1>2. Seq(P) \subseteq Seq(Q)
  BY <1>1 DEF P, Q
<1> QED
  BY <1>2 DEF Mails, P, Q

LEMMA BoundsTyped ==
  ASSUME NEW C, Holds(madeBy, C)
  PROVE  /\ madeBy \in [Peers -> Nat]
         /\ \A p \in Peers : Own(p, node[p], madeBy, C) /\ node[p] \in Nodes(Carried(madeBy))
<1>1. \A p \in Peers : Own(p, node[p], madeBy, C) /\ node[p] \in Nodes(Carried(madeBy))
  BY DEF Holds, Own
<1>2. \A p \in Peers : node[p].made \in Nat
  BY <1>1 DEF Nodes
<1> QED
  BY <1>1, <1>2 DEF madeBy

\* Nobody comes back by hearsay in this step.
StayAway ==
  \A p \in Peers : \A q \in node[p].departed \cap node'[p].known :
    \E id \in openIds(node'[p]) : node'[p].conn[id].remote = q

\* From n to k a peer keeps in mind whom it has forgotten, starts anew, or a link
\* has opened.
Keeps(p, n, k) ==
  \/ n.departed \subseteq k.departed
  \/ k.known \subseteq {p}
  \/ \E id \in DOMAIN k.conn : k.conn[id].open /\ n.departed \ {k.conn[id].remote} \subseteq k.departed

LEMMA Keeping ==
  ASSUME NEW C, Holds(madeBy, C), NEW p \in Peers, NEW k, NEW mail, Step(p, k, mail),
         NEW d, NEW D, Own(p, k, d, D), Keeps(p, node[p], k)
  PROVE  StayAway
<1>1. \A q \in Peers : Own(q, node[q], madeBy, C) /\ node[q] \in Nodes(Carried(madeBy))
  BY BoundsTyped
<1>2. node'[p] = k
  BY DEF Step
<1>3. ASSUME NEW q \in Peers \ {p}
      PROVE  node'[q].known = node[q].known
  <2>1. node'[q] = [node[q] EXCEPT !.conn = delivered(node[q].conn, p, q, mail)]
    BY DEF Step
  <2> QED
    BY <1>1, <2>1 DEF Nodes
<1>4. \A q \in Peers \ {p} : node[q].departed \cap node'[q].known = {}
  BY <1>1, <1>3 DEF Own, Views
<1>5. p \notin node[p].departed /\ k.known \cap k.departed = {}
  BY <1>1 DEF Own, Views
<1>6. \A q \in node[p].departed \cap k.known : \E id \in DOMAIN k.conn : k.conn[id].open /\ k.conn[id].remote = q
  BY <1>5 DEF Keeps
<1> QED
  BY <1>2, <1>4, <1>6 DEF StayAway, openIds

\* A step of a peer that becomes k once the calls are made that are due for m.
LEMMA Stepped ==
  ASSUME NEW C, Holds(madeBy, C), NEW p \in Peers, NEW k, NEW mail, Step(p, k, mail),
         \E d, D : Becomes(p, k, madeBy, C, d, D), Mails(mail, madeBy), Keeps(p, node[p], k),
         \A text \in texts' : text \in texts \/ TextFits(text, madeBy, C)
  PROVE  HoldsOn' /\ StayAway
<1>1. PICK d, D : Becomes(p, k, madeBy, C, d, D)
  OBVIOUS
<1>2. Mails(mail, d) /\ Own(p, k, d, C \cup D)
  BY <1>1, MailsLater DEF Becomes
<1> QED
  BY <1>1, <1>2, Stepping, Keeping

\* A step of a peer that makes no calls.
LEMMA SteppedPlain ==
  ASSUME NEW C, Holds(madeBy, C), NEW p \in Peers, NEW k, NEW mail, Step(p, k, mail),
         Own(p, k, madeBy, C), Mails(mail, madeBy), Keeps(p, node[p], k),
         \A text \in texts' : text \in texts \/ TextFits(text, madeBy, C)
  PROVE  HoldsOn' /\ StayAway
<1>1. Becomes(p, k, madeBy, C, madeBy, {})
  BY BoundsTyped, NoCalls
<1> QED
  BY <1>1, Stepped

\* A step of a peer that calls whom it should.
LEMMA SteppedMesh ==
  ASSUME NEW C, Holds(madeBy, C), NEW p \in Peers, NEW m, NEW mail, Step(p, ensureDynamicMesh(p, m), mail),
         Own(p, m, madeBy, C), Mails(mail, madeBy), Keeps(p, node[p], m), UNCHANGED texts
  PROVE  HoldsOn' /\ StayAway
<1> DEFINE k == ensureDynamicMesh(p, m)
<1>1. /\ k.known = m.known /\ k.departed = m.departed /\ Extends(k, m)
      /\ \E d, D : Becomes(p, k, madeBy, C, d, D)
  BY BoundsTyped, Ensuring
<1> HIDE DEF k
<1>2. Keeps(p, node[p], k)
  BY <1>1 DEF Keeps, Extends
<1>3. Step(p, k, mail)
  BY DEF k
<1> QED
  BY <1>1, <1>2, <1>3, Stepped

-----------------------------------------------------------------------------
(* The packets of a peer, and the packets it receives.                     *)

\* A packet that is flooded.
LEMMA Flooded ==
  ASSUME NEW p \in Peers, NEW b, NEW C, NEW n, Own(p, n, b, C), NEW type \in FloodTypes,
         NEW target \in Peers \cup {Nobody}, NEW link \in LinkIds \cup {NoLink},
         NEW generation \in Nat,
         type = "linkOffer" => link \in LinkIds /\ link.no <= b[p] /\ link.by = p /\ p < target
  PROVE  LET m == Routed(type, p, n, target, link, generation)
         IN  m \in Carried(b) /\ m.id \in PacketIds
<1> DEFINE m == Routed(type, p, n, target, link, generation)
<1>1. n.sent \in Nat /\ MaxPeers \in Nat
  BY PeersAssumption DEF Own, Nodes
<1>2. [by |-> p, no |-> n.sent + 1] \in PacketIds
  BY <1>1 DEF PacketIds
<1>3. m \in Floods /\ m.id \in PacketIds
  BY <1>1, <1>2 DEF Routed, Floods
<1>4. Calls(m, b)
  BY DEF Calls, Routed
<1> QED
  BY <1>3, <1>4 DEF Carried

LEMMA SnapshotSent ==
  ASSUME NEW p \in Peers, NEW b, NEW C, NEW n, Own(p, n, b, C)
  PROVE  PeerSnapshot(p, n) \in Carried(b)
<1>1. n.known \in SUBSET Peers
  BY DEF Own, Nodes
<1> QED
  BY <1>1 DEF PeerSnapshot, Carried, Snapshots

LEMMA Forwarding ==
  ASSUME NEW b, NEW m \in Carried(b), m.type # "snapshot", NEW n, NEW via
  PROVE  Mails(forwarded(n, via, m), b) /\ m.id \in PacketIds /\ m.sender \in Peers
<1> DEFINE k == [m EXCEPT !.ttl = @ - 1]
<1>1. m \in Floods /\ Calls(m, b)
  BY DEF Carried, Snapshots
<1>2. CASE m.ttl > 1
  <2>1. m.ttl - 1 \in Nat
    BY <1>1, <1>2 DEF Floods
  <2>2. k \in Floods /\ k.type = m.type /\ k.link = m.link /\ k.sender = m.sender /\ k.target = m.target
    BY <1>1, <2>1 DEF Floods
  <2> HIDE DEF k
  <2>3. k \in Carried(b)
    BY <1>1, <2>2 DEF Carried, Calls
  <2>4. forwarded(n, via, m) = To(openIds(n) \ {via}, k)
    BY <1>2 DEF forwarded, k
  <2> QED
    BY <1>1, <2>3, <2>4, MailSent DEF Floods
<1>3. CASE ~(m.ttl > 1)
  BY <1>1, <1>3, MailSent DEF forwarded, Floods
<1> QED
  BY <1>2, <1>3

LEMMA Remembered ==
  ASSUME NEW p \in Peers, NEW b, NEW C, NEW n, Own(p, n, b, C), NEW m, m.id \in PacketIds
  PROVE  LET k == remembered(n, m)
             l == originated(n, m)
         IN  /\ Own(p, k, b, C) /\ k.conn = n.conn /\ k.known = n.known /\ k.departed = n.departed
             /\ Own(p, l, b, C) /\ l.conn = n.conn /\ l.known = n.known /\ l.departed = n.departed
<1>1. n \in Nodes(Carried(b)) /\ n.sent \in Nat /\ n.seen \cup {m.id} \in SUBSET PacketIds /\ n.sent + 1 \in Nat
  BY DEF Own, Nodes
<1>2. /\ remembered(n, m) = counted(n, n.seen \cup {m.id}, n.sent)
      /\ originated(n, m) = counted(n, n.seen \cup {m.id}, n.sent + 1)
  BY <1>1 DEF remembered, originated, counted, Nodes
<1> QED
  BY <1>1, <1>2, Counted

\* One end changes, but not what it is the end of.
otherEnd(n, id, c) == [n EXCEPT !.conn[id] = c]

LEMMA EndChanged ==
  ASSUME NEW p, NEW b, NEW C, NEW n, Own(p, n, b, C), NEW id \in DOMAIN n.conn,
         NEW c \in LinkEnds(Carried(b)), c.kind = n.conn[id].kind,
         isMeshManaged(n.conn[id]) =>
           c.remote = n.conn[id].remote /\ c.answerer \in {n.conn[id].answerer, n.conn[id].remote}
  PROVE  LET k == otherEnd(n, id, c)
         IN  /\ Own(p, k, b, C) /\ k.known = n.known /\ k.departed = n.departed
             /\ k.meshed = n.meshed /\ k.joined = n.joined
             /\ k.conn[id] = c /\ DOMAIN k.conn = DOMAIN n.conn
<1> DEFINE P == Carried(b)
           f == n.conn
           g == [f EXCEPT ![id] = c]
<1>1. f \in Conns(P) /\ Wired(p, f, b, C)
  BY DEF Own, Nodes
<1>2. DOMAIN f \in SUBSET LinkIds /\ f \in [DOMAIN f -> LinkEnds(P)]
  BY <1>1, EndsOf
<1>3. g \in [DOMAIN f -> LinkEnds(P)] /\ g[id] = c /\ DOMAIN g = DOMAIN f /\ \A i \in DOMAIN f : i # id => g[i] = f[i]
  BY <1>2
<1>4. otherEnd(n, id, c) = [n EXCEPT !.conn = g]
  BY DEF otherEnd
<1> HIDE DEF g
<1>5. g \in Conns(P)
  BY <1>2, <1>3, AreEnds
<1>6. Wired(p, g, b, C)
  <2>1. \A i \in DOMAIN f :
           /\ g[i].kind = f[i].kind
           /\ isMeshManaged(f[i]) =>
                g[i].remote = f[i].remote /\ g[i].answerer \in {f[i].answerer, f[i].remote}
    <3> TAKE i \in DOMAIN f
    <3> QED
      BY <1>3
  <2> HIDE DEF f
  <2> QED
    BY <1>1, <1>3, <2>1, Rewired
<1> QED
  BY <1>3, <1>4, <1>5, <1>6, Relinked

\* The receiver, with the packet taken off.
LEMMA Receiving ==
  ASSUME NEW p, NEW b, NEW C, NEW n, Own(p, n, b, C), NEW id \in DOMAIN n.conn, n.conn[id].in # <<>>
  PROVE  LET k == [n EXCEPT !.conn[id].in = Tail(@)]
         IN  /\ Own(p, k, b, C) /\ k.known = n.known /\ k.departed = n.departed
             /\ Head(n.conn[id].in) \in Carried(b)
<1> DEFINE P == Carried(b)
           e == n.conn[id]
           c == [e EXCEPT !.in = Tail(@)]
<1>1. n.conn \in Conns(P)
  BY DEF Own, Nodes
<1>2. e \in LinkEnds(P) /\ e.in \in Seq(P)
  BY <1>1, EndsOf DEF LinkEnds
<1>3. Head(e.in) \in P /\ Tail(e.in) \in Seq(P)
  <2> HIDE DEF P, e
  <2> QED
    BY <1>2 DEF e
<1>4. c \in LinkEnds(P) /\ c.kind = e.kind /\ c.remote = e.remote /\ c.answerer = e.answerer
  BY <1>2, <1>3 DEF LinkEnds
<1>5. [n EXCEPT !.conn[id].in = Tail(@)] = otherEnd(n, id, c)
  BY DEF otherEnd
<1> HIDE DEF c
<1> DEFINE k == otherEnd(n, id, c)
<1>6. Own(p, k, b, C) /\ k.known = n.known /\ k.departed = n.departed
  BY <1>4, EndChanged
<1> HIDE DEF k
<1> QED
  BY <1>3, <1>5, <1>6 DEF k

-----------------------------------------------------------------------------
(* The steps of the users.                                                 *)

LEMMA Unseen ==
  ASSUME NEW p, NEW b, NEW C, NEW n, Own(p, n, b, C)
  PROVE  LET k == [n EXCEPT !.seen = {}]
         IN  Own(p, k, b, C) /\ k.conn = n.conn /\ k.known = n.known /\ k.departed = n.departed
<1>1. n.sent \in Nat /\ {} \in SUBSET PacketIds
  BY DEF Own, Nodes
<1>2. [n EXCEPT !.seen = {}] = counted(n, {}, n.sent)
  BY DEF Own, Nodes, counted
<1>3. Own(p, counted(n, {}, n.sent), b, C) /\ counted(n, {}, n.sent).conn = n.conn
      /\ counted(n, {}, n.sent).known = n.known /\ counted(n, {}, n.sent).departed = n.departed
  BY <1>1, Counted
<1> QED
  BY <1>2, <1>3

LEMMA CreateStep ==
  ASSUME HoldsOn, NEW p \in Peers, createMesh(p)
  PROVE  HoldsOn' /\ StayAway
<1>1. PICK C : Holds(madeBy, C)
  BY DEF HoldsOn
<1>2. Own(p, node[p], madeBy, C)
  BY <1>1, BoundsTyped
<1> DEFINE n == create(p, node[p])
           k == [n EXCEPT !.seen = {}]
<1>3. Own(p, n, madeBy, C) /\ n.known \subseteq {p}
  BY <1>2, Starting
<1>4. Step(p, k, NoMail) /\ texts' = texts
  BY DEF createMesh
<1> HIDE DEF n
<1>5. Own(p, k, madeBy, C) /\ k.known = n.known
  BY <1>3, Unseen
<1> HIDE DEF k
<1>6. Keeps(p, node[p], k) /\ Mails(NoMail, madeBy)
  BY <1>3, <1>5, MailSent DEF Keeps
<1> QED
  BY <1>1, <1>4, <1>5, <1>6, SteppedPlain

LEMMA NoEnds == \A P, p, b, C : NoConnections \in Conns(P) /\ Wired(p, NoConnections, b, C)
<1>1. DOMAIN NoConnections = {}
  BY DEF NoConnections
<1>2. \A P : NoConnections \in [{} -> LinkEnds(P)]
  BY DEF NoConnections
<1>3. \A P : NoConnections \in Conns(P)
  BY <1>2 DEF Conns
<1>4. \A p, b, C : Wired(p, NoConnections, b, C)
  BY <1>1 DEF Wired
<1> QED
  BY <1>3, <1>4

LEMMA LeavingStep ==
  ASSUME NEW C, Holds(madeBy, C), NEW p \in Peers, NEW n, Own(p, n, madeBy, C),
         Leaving(p, n), UNCHANGED texts
  PROVE  HoldsOn' /\ StayAway
<1> DEFINE packet == Routed("leave", p, n, Nobody, NoLink, 0)
           l == leave(n)
           e == [l EXCEPT !.conn = NoConnections]
           k == counted(e, {}, n.sent + 1)
           mail == To(openIds(n), packet)
<1>1. Own(p, l, madeBy, C) /\ l.known = {}
  BY Starting
<1>2. n \in Nodes(Carried(madeBy)) /\ n.sent + 1 \in Nat /\ l.sent = n.sent
  BY DEF Own, Nodes, leave, resetRuntime
<1>3. Step(p, k, mail)
  <2>1. [l EXCEPT !.conn = NoConnections, !.seen = {}, !.sent = @ + 1] = k
    BY <1>2 DEF counted
  <2> QED
    BY <2>1 DEF Leaving
<1> HIDE DEF l
<1>4. Own(p, e, madeBy, C) /\ e.known = {}
  BY <1>1, NoEnds, Relinked
<1> HIDE DEF e
<1>5. Own(p, k, madeBy, C) /\ k.known = {}
  BY <1>2, <1>4, Counted
<1>6. Mails(mail, madeBy)
  <2>1. "leave" \in FloodTypes /\ Nobody \in Peers \cup {Nobody} /\ NoLink \in LinkIds \cup {NoLink}
        /\ "leave" # "linkOffer" /\ 0 \in Nat
    BY DEF FloodTypes
  <2>2. packet \in Carried(madeBy)
    BY <2>1, Flooded
  <2> QED
    BY <2>2, MailSent
<1> HIDE DEF k, mail
<1>7. Keeps(p, node[p], k)
  BY <1>5 DEF Keeps
<1> QED
  BY <1>3, <1>5, <1>6, <1>7, SteppedPlain

LEMMA LeaveStep ==
  ASSUME HoldsOn, NEW p \in Peers, leaveMesh(p)
  PROVE  HoldsOn' /\ StayAway
<1>1. PICK C : Holds(madeBy, C)
  BY DEF HoldsOn
<1>2. Own(p, node[p], madeBy, C)
  BY <1>1, BoundsTyped
<1>3. Leaving(p, node[p]) /\ UNCHANGED texts
  BY DEF leaveMesh
<1> QED
  BY <1>1, <1>2, <1>3, LeavingStep

LEMMA InviteStep ==
  ASSUME HoldsOn, NEW p \in Peers, createInvitation(p)
  PROVE  HoldsOn' /\ StayAway
<1>1. PICK C : Holds(madeBy, C)
  BY DEF HoldsOn
<1> DEFINE n == node[p]
           id == unusedLink(p, n)
           c == Connection("ManualOffer", Nobody, 0, Nobody)
           d == [madeBy EXCEPT ![p] = n.made + 1]
           P == Carried(d)
           g == withEnd(n.conn, id, c)
           k == [n EXCEPT !.conn = g, !.made = n.made + 1]
<1>2. Own(p, n, madeBy, C) /\ n \in Nodes(Carried(madeBy)) /\ madeBy \in [Peers -> Nat]
  BY <1>1, BoundsTyped
<1>3. n.made \in Nat /\ n.made = madeBy[p] /\ n.conn \in Conns(Carried(madeBy))
      /\ Wired(p, n.conn, madeBy, C) /\ Views(p, n)
  BY <1>2 DEF Own, Nodes
<1>4. d \in [Peers -> Nat] /\ d[p] = n.made + 1 /\ \A q \in Peers : madeBy[q] <= d[q]
  BY <1>2, <1>3
<1>5. Later(madeBy, d, {})
  BY <1>2, <1>4 DEF Later
<1>6. Step(p, k, NoMail) /\ texts' = texts
  BY DEF createInvitation, withConn, withEnd
<1> HIDE DEF d
<1>7. n \in Nodes(P) /\ n.conn \in Conns(P) /\ Wired(p, n.conn, d, C)
  <2>1. Carried(madeBy) \subseteq P
    BY <1>5, CarriedLater
  <2> HIDE DEF P
  <2>2. n \in Nodes(P) /\ n.conn \in Conns(P)
    BY <1>2, <1>3, <2>1, ConnsLater
  <2>3. Wired(p, n.conn, d, C \cup {})
    BY <1>3, <1>5, <2>2, WiredLater
  <2>4. C \cup {} = C
    OBVIOUS
  <2> QED
    BY <2>2, <2>3, <2>4
<1>8. id \in LinkIds /\ id.by = p /\ id.no = n.made + 1
  BY <1>3 DEF unusedLink, LinkIds
<1>9. id \notin C /\ id \notin DOMAIN n.conn
  <2>1. id \notin C
    BY <1>1, <1>3, <1>8 DEF Holds
  <2>2. id \notin DOMAIN n.conn
    BY <1>3, <1>8 DEF Wired, Fits
  <2> QED
    BY <2>1, <2>2
<1> HIDE DEF P, id
<1>10. c \in LinkEnds(P) /\ c.kind = "ManualOffer"
  <2>1. "ManualOffer" \in Kinds /\ Nobody \in Peers \cup {Nobody} /\ 0 \in Nat
        /\ <<>> \in Seq(P)
    BY DEF Kinds
  <2> QED
    BY <2>1 DEF Connection, LinkEnds
<1> HIDE DEF c
<1>11. Fits(p, id, c, d, C) /\ ~isMeshManaged(c)
  BY <1>4, <1>8, <1>9, <1>10 DEF Fits, isMeshManaged
<1>12. g \in Conns(P) /\ Wired(p, g, d, C)
  BY <1>7, <1>8, <1>9, <1>10, <1>11, WiredMore
<1> HIDE DEF g, n
<1>13. /\ k \in Nodes(P) /\ k.conn = g /\ k.made = n.made + 1 /\ k.retry = n.retry
       /\ k.known = n.known /\ k.departed = n.departed
  <2>1. n.made + 1 \in Nat
    BY <1>3
  <2> QED
    BY <1>7, <1>12, <2>1 DEF Nodes
<1> HIDE DEF k
<1>14. Own(p, k, d, C)
  BY <1>3, <1>4, <1>12, <1>13 DEF Own, Views, P
<1>15. Becomes(p, k, madeBy, C, d, {})
  <2>1. C \cup {} = C /\ d = [madeBy EXCEPT ![p] = k.made]
    BY <1>13 DEF d
  <2> QED
    BY <1>5, <1>14, <2>1 DEF Becomes
<1>16. Keeps(p, node[p], k) /\ Mails(NoMail, madeBy)
  BY <1>13, MailSent DEF Keeps, n
<1> QED
  BY <1>1, <1>6, <1>15, <1>16, Stepped

LEMMA CancelStep ==
  ASSUME HoldsOn, NEW p \in Peers, cancelInvitation(p)
  PROVE  HoldsOn' /\ StayAway
<1>1. PICK C : Holds(madeBy, C)
  BY DEF HoldsOn
<1>2. Own(p, node[p], madeBy, C)
  BY <1>1, BoundsTyped
<1>3. PICK id : Step(p, removed(p, node[p], id), NoMail)
  BY DEF cancelInvitation
<1>4. texts' = texts
  BY DEF cancelInvitation
<1> DEFINE k == removed(p, node[p], id)
<1>5. Own(p, k, madeBy, C) /\ k.departed = node[p].departed
  BY <1>2, Removing
<1>6. Step(p, k, NoMail)
  BY <1>3
<1> HIDE DEF k
<1>7. Keeps(p, node[p], k) /\ Mails(NoMail, madeBy)
  BY <1>5, MailSent DEF Keeps
<1> QED
  BY <1>1, <1>4, <1>5, <1>6, <1>7, SteppedPlain

LEMMA ImportOfferStep ==
  ASSUME HoldsOn, NEW p \in Peers, NEW text, importOffer(p, text)
  PROVE  HoldsOn' /\ StayAway
<1>1. PICK C : Holds(madeBy, C)
  BY DEF HoldsOn
<1>2. Own(p, node[p], madeBy, C)
  BY <1>1, BoundsTyped
<1> DEFINE j == beginJoin(p, node[p])
           n == IF node[p].meshed THEN node[p] ELSE [j EXCEPT !.seen = {}]
           c == Connection("ManualAnswer", Nobody, 0, p)
           P == Carried(madeBy)
           id == text.link
           g == withEnd(n.conn, id, c)
           k == [n EXCEPT !.conn = g]
<1>3. /\ Step(p, k, NoMail) /\ texts' \subseteq texts
      /\ text \in texts /\ id \notin DOMAIN node[p].conn
  BY DEF importOffer, withConn, withEnd
<1>4. Own(p, j, madeBy, C) /\ j.known \subseteq {p} /\ j.conn = node[p].conn
  BY <1>2, Starting
<1> HIDE DEF j
<1>5. /\ Own(p, n, madeBy, C) /\ n.conn = node[p].conn
      /\ n = node[p] \/ n.known \subseteq {p}
  <2>1. Own(p, [j EXCEPT !.seen = {}], madeBy, C) /\ [j EXCEPT !.seen = {}].conn = j.conn
        /\ [j EXCEPT !.seen = {}].known = j.known
    BY <1>4, Unseen
  <2> QED
    BY <1>2, <1>4, <2>1
<1> HIDE DEF n
<1>6. id \in LinkIds /\ id \notin C /\ id.no <= madeBy[id.by]
  BY <1>1, <1>3 DEF Holds, TextsFit
<1>7. n.conn \in Conns(P) /\ Wired(p, n.conn, madeBy, C)
  BY <1>5 DEF Own, Nodes
<1> HIDE DEF P, id
<1>8. c \in LinkEnds(P) /\ c.kind = "ManualAnswer"
  <2>1. "ManualAnswer" \in Kinds /\ Nobody \in Peers \cup {Nobody} /\ p \in Peers \cup {Nobody} /\ 0 \in Nat
        /\ <<>> \in Seq(P)
    BY DEF Kinds
  <2> QED
    BY <2>1 DEF Connection, LinkEnds
<1> HIDE DEF c
<1>9. Fits(p, id, c, madeBy, C) /\ ~isMeshManaged(c)
  BY <1>6, <1>8 DEF Fits, isMeshManaged
<1>10. g \in Conns(P) /\ Wired(p, g, madeBy, C)
  BY <1>3, <1>5, <1>6, <1>7, <1>8, <1>9, WiredMore
<1> HIDE DEF g
<1>11. Own(p, k, madeBy, C) /\ k.known = n.known /\ k.departed = n.departed
  BY <1>5, <1>10, Relinked DEF P
<1> HIDE DEF k
<1>12. Keeps(p, node[p], k) /\ Mails(NoMail, madeBy)
  BY <1>5, <1>11, MailSent DEF Keeps
<1> QED
  BY <1>1, <1>3, <1>11, <1>12, SteppedPlain

LEMMA ImportAnswerStep ==
  ASSUME HoldsOn, NEW p \in Peers, NEW text, importAnswer(p, text)
  PROVE  HoldsOn' /\ StayAway
<1>1. PICK C : Holds(madeBy, C)
  BY DEF HoldsOn
<1> DEFINE n == node[p]
           id == text.link
           e == n.conn[id]
           c == [e EXCEPT !.answerer = text.from]
           P == Carried(madeBy)
           k == otherEnd(n, id, c)
<1>2. Own(p, n, madeBy, C) /\ n.conn \in Conns(P) /\ Wired(p, n.conn, madeBy, C)
  BY <1>1, BoundsTyped DEF Own, Nodes
<1>3. /\ Step(p, k, NoMail) /\ texts' \subseteq texts
      /\ text \in texts /\ id \in DOMAIN n.conn /\ id.by = p
  BY DEF importAnswer, otherEnd
<1>4. id \notin C /\ text.from \in Peers
  BY <1>1, <1>3 DEF Holds, TextsFit
<1>5. e \in LinkEnds(P) /\ Fits(p, id, e, madeBy, C)
  BY <1>2, <1>3, EndsOf DEF Wired
<1>6. ~isMeshManaged(e)
  BY <1>3, <1>4, <1>5 DEF Fits, isMeshManaged
<1>7. c \in LinkEnds(P) /\ c.kind = e.kind
  BY <1>4, <1>5 DEF LinkEnds
<1> HIDE DEF c, n, id
<1>8. Own(p, k, madeBy, C) /\ k.departed = n.departed
  BY <1>2, <1>3, <1>6, <1>7, EndChanged
<1> HIDE DEF k
<1>9. Keeps(p, node[p], k) /\ Mails(NoMail, madeBy)
  BY <1>8, MailSent DEF Keeps, n
<1> QED
  BY <1>1, <1>3, <1>8, <1>9, SteppedPlain

-----------------------------------------------------------------------------
(* The steps of the transport.                                             *)

LEMMA DescriptionStep ==
  ASSUME HoldsOn, NEW p \in Peers, NEW id \in DOMAIN node[p].conn, localDescriptionReady(p, id)
  PROVE  HoldsOn' /\ StayAway
<1>1. PICK C : Holds(madeBy, C)
  BY DEF HoldsOn
<1> DEFINE o == node[p]
           e == o.conn[id]
           c == [e EXCEPT !.produced = TRUE]
           P == Carried(madeBy)
           n == otherEnd(o, id, c)
           type == IF isOffer(e) THEN "linkOffer" ELSE "linkAnswer"
           packet == Routed(type, p, n, e.remote, id, e.gen)
           k == originated(n, packet)
           mail == To(openIds(n), packet)
           text == [kind |-> IF isOffer(e) THEN "offer" ELSE "answer", link |-> id, from |-> p]
<1>2. Own(p, o, madeBy, C) /\ o.conn \in Conns(P) /\ Wired(p, o.conn, madeBy, C)
  BY <1>1, BoundsTyped DEF Own, Nodes
<1>3. \/ isMeshManaged(e) /\ Step(p, k, mail) /\ texts' = texts
      \/ ~isMeshManaged(e) /\ Step(p, n, NoMail) /\ texts' = texts \cup {text}
  BY DEF localDescriptionReady, otherEnd
<1> HIDE DEF o, P
<1>4. e \in LinkEnds(P) /\ Fits(p, id, e, madeBy, C) /\ id \in LinkIds
  BY <1>2, EndsOf DEF Wired, o
<1>5. c \in LinkEnds(P) /\ c.kind = e.kind /\ c.remote = e.remote /\ c.answerer = e.answerer
  BY <1>4 DEF LinkEnds
<1> HIDE DEF c
<1>6. Own(p, n, madeBy, C) /\ n.departed = o.departed
  BY <1>2, <1>5, EndChanged DEF o, P
<1> HIDE DEF n
<1>7. CASE isMeshManaged(e)
  <2>1. /\ type \in FloodTypes /\ e.remote \in Peers \cup {Nobody} /\ e.gen \in Nat
        /\ id \in LinkIds \cup {NoLink}
    BY <1>4 DEF LinkEnds, FloodTypes
  <2>2. type = "linkOffer" => id \in LinkIds /\ id.no <= madeBy[p] /\ id.by = p /\ p < e.remote
    BY <1>4, <1>7 DEF Fits, isMeshManaged, isOffer
  <2> HIDE DEF type, e
  <2>3. packet \in P /\ packet.id \in PacketIds
    BY <1>6, <2>1, <2>2, Flooded DEF P
  <2>4. Step(p, k, mail) /\ texts' = texts
    BY <1>3, <1>7
  <2> HIDE DEF packet
  <2>5. Own(p, k, madeBy, C) /\ k.departed = n.departed
    BY <1>6, <2>3, Remembered
  <2>6. Mails(mail, madeBy)
    BY <2>3, MailSent DEF P
  <2> HIDE DEF k, mail
  <2>7. Keeps(p, node[p], k)
    BY <1>6, <2>5 DEF Keeps, o
  <2> QED
    BY <1>1, <2>4, <2>5, <2>6, <2>7, SteppedPlain
<1>8. CASE ~isMeshManaged(e)
  <2>1. Step(p, n, NoMail) /\ texts' = texts \cup {text}
    BY <1>3, <1>8
  <2>2. TextFits(text, madeBy, C)
    <3>1. id \notin C /\ id.no <= madeBy[id.by]
      BY <1>4, <1>8 DEF Fits
    <3> HIDE DEF e
    <3> QED
      BY <1>4, <3>1 DEF TextFits
  <2> HIDE DEF text
  <2>3. Keeps(p, node[p], n) /\ Mails(NoMail, madeBy)
    BY <1>6, MailSent DEF Keeps, o
  <2>4. \A t \in texts' : t \in texts \/ TextFits(t, madeBy, C)
    BY <2>1, <2>2
  <2> QED
    BY <1>1, <1>6, <2>1, <2>3, <2>4, SteppedPlain
<1> QED
  BY <1>7, <1>8

\* A link opens to the peer it was made for.
LEMMA OpensToRemote ==
  ASSUME NEW C, Holds(madeBy, C), NEW p \in Peers, NEW q \in Peers, NEW id, Joins(id, p, q),
         isMeshManaged(node[p].conn[id])
  PROVE  node[p].conn[id].remote = q
<1> DEFINE e == node[p].conn[id]
<1>1. Own(p, node[p], madeBy, C)
  BY BoundsTyped
<1>2. Fits(p, id, e, madeBy, C)
  BY <1>1 DEF Joins, Own, Wired
<1>3. p # q /\ id.by \in {p, q} /\ node[id.by].conn[id].answerer \in {p, q}
  BY DEF Joins
<1>4. p \in Nat /\ Nobody \notin Peers
  BY PeersAreNumbers
<1>5. CASE e.kind = "MeshOffer"
  <2>1. id.by = p /\ p < e.remote /\ e.answerer \in {Nobody, e.remote}
    BY <1>2, <1>5 DEF Fits
  <2>2. p # e.remote
    BY <1>4, <2>1
  <2> QED
    BY <1>3, <1>4, <2>1, <2>2
<1>6. CASE e.kind = "MeshAnswer"
  BY <1>2, <1>3, <1>6 DEF Fits
<1> QED
  BY <1>5, <1>6 DEF isMeshManaged

LEMMA OpenedStep ==
  ASSUME HoldsOn, NEW p \in Peers, NEW q \in Peers, NEW id \in DOMAIN node[p].conn,
         linkOpened(p, id, q)
  PROVE  HoldsOn' /\ StayAway
<1>1. PICK C : Holds(madeBy, C)
  BY DEF HoldsOn
<1> DEFINE r == rememberPeer(node[p], q)
           e == r.conn[id]
           c == [e EXCEPT !.remote = q, !.open = TRUE]
           P == Carried(madeBy)
           m == otherEnd(r, id, c)
           n == connectionOpened(m, q)
           packet == Routed("announce", p, n, Nobody, NoLink, 0)
           k == originated(n, packet)
           mail == To(openIds(n), PeerSnapshot(p, n)) ++ To(openIds(n), packet)
<1>2. Own(p, r, madeBy, C) /\ r.conn = node[p].conn /\ r.departed = node[p].departed
  BY <1>1, BoundsTyped, Remembering
<1>3. Joins(id, p, q) /\ texts' = texts
  BY DEF linkOpened
<1>4. Step(p, ensureDynamicMesh(p, k), mail)
  BY DEF linkOpened, otherEnd
<1> HIDE DEF r
<1>5. isMeshManaged(e) => e.remote = q
  BY <1>1, <1>2, <1>3, OpensToRemote
<1>6. r.conn \in Conns(P) /\ id \in DOMAIN r.conn
  BY <1>2 DEF Own, Nodes
<1> HIDE DEF P
<1>7. e \in LinkEnds(P)
  BY <1>6, EndsOf
<1>8. c \in LinkEnds(P) /\ c.kind = e.kind /\ c.remote = q /\ c.answerer = e.answerer /\ c.open
  BY <1>7 DEF LinkEnds
<1> HIDE DEF c
<1>9. Own(p, m, madeBy, C) /\ m.departed = r.departed /\ m.conn[id] = c /\ DOMAIN m.conn = DOMAIN r.conn
  BY <1>2, <1>5, <1>6, <1>8, EndChanged DEF P
<1> HIDE DEF m
<1>10. Own(p, n, madeBy, C) /\ n.conn = m.conn /\ m.departed \ {q} \subseteq n.departed
  BY <1>9, OpenedView
<1> HIDE DEF n
<1>11. packet \in P /\ packet.id \in PacketIds
  <2>1. "announce" \in FloodTypes /\ Nobody \in Peers \cup {Nobody} /\ NoLink \in LinkIds \cup {NoLink}
        /\ "announce" # "linkOffer" /\ 0 \in Nat
    BY DEF FloodTypes
  <2> QED
    BY <1>10, <2>1, Flooded DEF P
<1> HIDE DEF packet
<1>12. Own(p, k, madeBy, C) /\ k.conn = n.conn /\ k.departed = n.departed
  BY <1>10, <1>11, Remembered
<1>13. Mails(mail, madeBy)
  <2>1. Mails(To(openIds(n), PeerSnapshot(p, n)), madeBy)
    BY <1>10, SnapshotSent, MailSent
  <2>2. Mails(To(openIds(n), packet), madeBy)
    BY <1>11, MailSent DEF P
  <2> QED
    BY <2>1, <2>2, MailSent
<1> HIDE DEF k, mail
<1>14. Keeps(p, node[p], k)
  <2>1. id \in DOMAIN k.conn /\ k.conn[id].open /\ k.conn[id].remote = q
    BY <1>6, <1>8, <1>9, <1>10, <1>12
  <2>2. node[p].departed \ {q} \subseteq k.departed
    BY <1>2, <1>9, <1>10, <1>12
  <2> QED
    BY <2>1, <2>2 DEF Keeps
<1> QED
  BY <1>1, <1>3, <1>4, <1>12, <1>13, <1>14, SteppedMesh

LEMMA FailStep ==
  ASSUME HoldsOn, NEW p \in Peers, NEW id, fail(p, id)
  PROVE  HoldsOn' /\ StayAway
<1>1. PICK C : Holds(madeBy, C)
  BY DEF HoldsOn
<1> DEFINE k == failed(p, node[p], id)
<1>2. Step(p, k, NoMail) /\ texts' = texts
  BY DEF fail
<1>3. Own(p, k, madeBy, C) /\ k.departed = node[p].departed
  BY <1>1, BoundsTyped, Removing
<1> HIDE DEF k
<1>4. Keeps(p, node[p], k) /\ Mails(NoMail, madeBy)
  BY <1>3, MailSent DEF Keeps
<1> QED
  BY <1>1, <1>2, <1>3, <1>4, SteppedPlain

-----------------------------------------------------------------------------
(* The packets a peer handles.                                             *)

\* The receiver n, with the packet m taken off.
Received(C, p, m, n) ==
  /\ Holds(madeBy, C) /\ Own(p, n, madeBy, C) /\ n.departed = node[p].departed
  /\ m \in Carried(madeBy) /\ UNCHANGED texts

LEMMA SnapshotStep ==
  ASSUME NEW C, NEW p \in Peers, NEW m, NEW n, Received(C, p, m, n), NEW id,
         handlePeerSnapshot(p, id, m, n)
  PROVE  HoldsOn' /\ StayAway
<1>1. /\ Holds(madeBy, C) /\ Own(p, n, madeBy, C) /\ n.departed = node[p].departed
      /\ m \in Carried(madeBy) /\ UNCHANGED texts
  BY DEF Received
<1>2. m.peers \in SUBSET Peers
  BY <1>1 DEF handlePeerSnapshot, Carried, Snapshots, Floods, FloodTypes
<1> DEFINE mail(k) == IF k.known # n.known THEN To(openIds(k) \ {id}, PeerSnapshot(p, k)) ELSE NoMail
<1>3. PICK k \in ingestPeerList(p, n, m.peers) : Step(p, ensureDynamicMesh(p, k), mail(k))
  BY DEF handlePeerSnapshot
<1>4. Own(p, k, madeBy, C) /\ k.departed = n.departed
  BY <1>1, <1>2, Ingesting
<1>5. Mails(mail(k), madeBy)
  BY <1>4, SnapshotSent, MailSent
<1> HIDE DEF mail
<1>6. Keeps(p, node[p], k)
  BY <1>1, <1>4 DEF Keeps
<1> QED
  BY <1>1, <1>3, <1>4, <1>5, <1>6, SteppedMesh

LEMMA AnnounceStep ==
  ASSUME NEW C, NEW p \in Peers, NEW m, NEW n, Received(C, p, m, n), NEW id,
         handlePeerAnnounce(p, id, m, n)
  PROVE  HoldsOn' /\ StayAway
<1>1. /\ Holds(madeBy, C) /\ Own(p, n, madeBy, C) /\ n.departed = node[p].departed
      /\ m \in Carried(madeBy) /\ UNCHANGED texts
  BY DEF Received
<1> DEFINE r == remembered(n, m)
           a == routeAvailable(r, m.sender)
           k == rememberPeer(a, m.sender)
           mail == forwarded(k, id, m)
<1>2. Step(p, ensureDynamicMesh(p, k), mail) /\ m.type # "snapshot"
  BY DEF handlePeerAnnounce
<1>3. m.id \in PacketIds /\ m.sender \in Peers /\ Mails(mail, madeBy)
  BY <1>1, <1>2, Forwarding
<1>4. Own(p, r, madeBy, C) /\ r.departed = n.departed
  BY <1>1, <1>3, Remembered
<1> HIDE DEF r
<1>5. Own(p, a, madeBy, C) /\ a.departed = n.departed
  BY <1>3, <1>4, RouteFound
<1> HIDE DEF a
<1>6. Own(p, k, madeBy, C) /\ k.departed = n.departed
  BY <1>3, <1>5, Remembering
<1> HIDE DEF k, mail
<1>7. Keeps(p, node[p], k)
  BY <1>1, <1>6 DEF Keeps
<1> QED
  BY <1>1, <1>2, <1>3, <1>6, <1>7, SteppedMesh

LEMMA PeerLeaveStep ==
  ASSUME NEW C, NEW p \in Peers, NEW m, NEW n, Received(C, p, m, n), NEW id,
         handlePeerLeave(p, id, m, n)
  PROVE  HoldsOn' /\ StayAway
<1>1. /\ Holds(madeBy, C) /\ Own(p, n, madeBy, C) /\ n.departed = node[p].departed
      /\ m \in Carried(madeBy) /\ UNCHANGED texts
  BY DEF Received
<1> DEFINE r == remembered(n, m)
           qs == {m.sender} \cap (n.known \ {p})
           mail == IF m.id \in n.seen THEN NoMail ELSE forwarded(n, id, m)
<1>2. PICK k \in withoutMeshPeers(r, qs) : Step(p, k, mail)
  BY DEF handlePeerLeave
<1>3. m.type # "snapshot"
  BY DEF handlePeerLeave
<1>4. m.id \in PacketIds /\ m.sender \in Peers /\ Mails(mail, madeBy)
  BY <1>1, <1>3, Forwarding, MailSent
<1>5. Own(p, r, madeBy, C) /\ r.departed = n.departed
  BY <1>1, <1>4, Remembered
<1>6. qs \in SUBSET (Peers \ {p})
  BY <1>4
<1> HIDE DEF r, qs, mail
<1>7. Own(p, k, madeBy, C) /\ r.departed \subseteq k.departed
  BY <1>5, <1>6, Dropping
<1>8. Keeps(p, node[p], k)
  BY <1>1, <1>5, <1>7 DEF Keeps
<1> QED
  BY <1>1, <1>2, <1>4, <1>7, <1>8, SteppedPlain

LEMMA RouteStep ==
  ASSUME NEW C, NEW p \in Peers, NEW m, NEW n, Received(C, p, m, n), NEW id,
         routeLinkSignaling(p, id, m, n)
  PROVE  HoldsOn' /\ StayAway
<1>1. /\ Holds(madeBy, C) /\ Own(p, n, madeBy, C) /\ n.departed = node[p].departed
      /\ m \in Carried(madeBy) /\ UNCHANGED texts
  BY DEF Received
<1> DEFINE k == remembered(n, m)
           mail == forwarded(n, id, m)
<1>2. Step(p, k, mail) /\ m.type # "snapshot"
  BY DEF routeLinkSignaling
<1>3. m.id \in PacketIds /\ Mails(mail, madeBy)
  BY <1>1, <1>2, Forwarding
<1>4. Own(p, k, madeBy, C) /\ k.departed = n.departed
  BY <1>1, <1>3, Remembered
<1> HIDE DEF k, mail
<1>5. Keeps(p, node[p], k)
  BY <1>1, <1>4 DEF Keeps
<1> QED
  BY <1>1, <1>2, <1>3, <1>4, <1>5, SteppedPlain

LEMMA DuplicateStep ==
  ASSUME NEW C, NEW p \in Peers, NEW m, NEW n, Received(C, p, m, n), DropDuplicate(p, m, n)
  PROVE  HoldsOn' /\ StayAway
<1>1. /\ Holds(madeBy, C) /\ Own(p, n, madeBy, C) /\ n.departed = node[p].departed
      /\ UNCHANGED texts /\ Step(p, n, NoMail)
  BY DEF Received, DropDuplicate
<1>2. Keeps(p, node[p], n) /\ Mails(NoMail, madeBy)
  BY <1>1, MailSent DEF Keeps
<1> QED
  BY <1>1, <1>2, SteppedPlain

\* The generation of one peer is renewed.
LEMMA Regenerated ==
  ASSUME NEW p, NEW b, NEW C, NEW n, Own(p, n, b, C), NEW q \in Peers, NEW g \in Nat
  PROVE  LET k == [n EXCEPT !.gen[q] = g]
         IN  Own(p, k, b, C) /\ k.conn = n.conn /\ k.known = n.known /\ k.departed = n.departed
<1> DEFINE k == [n EXCEPT !.gen[q] = g]
           P == Carried(b)
           G == [n.gen EXCEPT ![q] = g]
<1> HIDE DEF P
<1>1. n \in Nodes(P)
  BY DEF Own, P
<1>2. n.gen \in [Peers -> Nat]
  BY <1>1 DEF Nodes
<1>3. G \in [Peers -> Nat]
  BY <1>2
<1>4. k = [n EXCEPT !.gen = G]
  OBVIOUS
<1> HIDE DEF G, k
<1>5. /\ k \in Nodes(P) /\ k.conn = n.conn /\ k.made = n.made /\ k.retry = n.retry
      /\ k.known = n.known /\ k.departed = n.departed
  BY <1>1, <1>3, <1>4 DEF Nodes
<1>6. Own(p, k, b, C)
  BY <1>5 DEF Own, Views, P
<1> QED
  BY <1>5, <1>6 DEF k

LEMMA Answering ==
  ASSUME NEW p \in Peers, NEW b, NEW C, NEW n, Own(p, n, b, C), NEW m \in Carried(b),
         m.type = "linkOffer", m.target = p
  PROVE  Own(p, answering(p, m, n), b, C) /\ answering(p, m, n).departed = n.departed
<1> DEFINE q == m.sender
           P == Carried(b)
           c == Connection("MeshAnswer", q, m.gen, p)
           k == [n EXCEPT !.gen[q] = m.gen]
           g == withEnd(n.conn, m.link, c)
           l == [k EXCEPT !.conn = g]
<1>1. /\ q \in Peers /\ m.gen \in Nat /\ m.link \in LinkIds /\ m.link.no <= b[m.link.by]
      /\ m.link.by = q /\ q < p
  <2>1. m \in Floods /\ Calls(m, b)
    BY DEF Carried, Snapshots
  <2> QED
    BY <2>1 DEF Floods, Calls
<1>2. Own(p, k, b, C) /\ k.conn = n.conn /\ k.departed = n.departed
  BY <1>1, Regenerated
<1> HIDE DEF k
<1>3. ASSUME m.link \notin DOMAIN n.conn, ~hasLink(n, q)
      PROVE  Own(p, l, b, C) /\ l.departed = n.departed
  <2>1. c \in LinkEnds(P) /\ c.kind = "MeshAnswer" /\ c.remote = q
    <3> HIDE DEF P
    <3>1. "MeshAnswer" \in Kinds /\ q \in Peers \cup {Nobody} /\ p \in Peers \cup {Nobody} /\ <<>> \in Seq(P)
      BY <1>1 DEF Kinds
    <3> QED
      BY <1>1, <3>1 DEF Connection, LinkEnds
  <2>2. q # p
    BY <1>1, PeersAreNumbers
  <2> HIDE DEF c, q
  <2>3. Fits(p, m.link, c, b, C)
    BY <1>1, <2>1, <2>2 DEF Fits, isMeshManaged
  <2>4. \A i \in DOMAIN n.conn : n.conn[i].remote # c.remote
    BY <1>3, <2>1 DEF hasLink, linksTo
  <2>5. n.conn \in Conns(P) /\ Wired(p, n.conn, b, C)
    BY DEF Own, Nodes
  <2> HIDE DEF P
  <2>6. g \in Conns(P) /\ Wired(p, g, b, C)
    BY <1>1, <1>3, <2>1, <2>3, <2>4, <2>5, WiredMore
  <2> HIDE DEF g
  <2> QED
    BY <1>2, <2>6, Relinked DEF P
<1>4. answering(p, m, n) \in {n, k}
      \/ (m.link \notin DOMAIN n.conn /\ ~hasLink(n, q) /\ answering(p, m, n) = l)
  <2>1. withConn(k, m.link, c) = l
    BY <1>2 DEF withConn, withEnd
  <2>2. answering(p, m, n) =
          IF q \notin n.known \/ m.gen <= n.gen[q] THEN n
          ELSE IF m.link \in DOMAIN n.conn \/ hasLink(n, q) THEN k
               ELSE withConn(k, m.link, c)
    BY Zenon DEF answering, k
  <2> HIDE DEF l, c, q
  <2> QED
    BY <2>1, <2>2
<1> HIDE DEF l
<1> QED
  BY <1>2, <1>3, <1>4

LEMMA LinkOfferStep ==
  ASSUME NEW C, NEW p \in Peers, NEW m, NEW n, Received(C, p, m, n), NEW id,
         handleLinkOffer(p, id, m, n)
  PROVE  HoldsOn' /\ StayAway
<1>1. /\ Holds(madeBy, C) /\ Own(p, n, madeBy, C) /\ n.departed = node[p].departed
      /\ m \in Carried(madeBy) /\ UNCHANGED texts
  BY DEF Received
<1> DEFINE r == remembered(n, m)
           k == answering(p, m, r)
<1>2. Step(p, k, NoMail) /\ m.type = "linkOffer" /\ m.target = p
  BY DEF handleLinkOffer
<1>3. m.id \in PacketIds
  BY <1>1, <1>2, Forwarding
<1>4. Own(p, r, madeBy, C) /\ r.departed = n.departed
  BY <1>1, <1>3, Remembered
<1> HIDE DEF r
<1>5. Own(p, k, madeBy, C) /\ k.departed = r.departed
  BY <1>1, <1>2, <1>4, Answering
<1> HIDE DEF k
<1>6. Keeps(p, node[p], k) /\ Mails(NoMail, madeBy)
  BY <1>1, <1>4, <1>5, MailSent DEF Keeps
<1> QED
  BY <1>1, <1>2, <1>5, <1>6, SteppedPlain

LEMMA LinkAnswerStep ==
  ASSUME NEW C, NEW p \in Peers, NEW m, NEW n, Received(C, p, m, n), NEW id,
         handleLinkAnswer(p, id, m, n)
  PROVE  HoldsOn' /\ StayAway
<1>1. /\ Holds(madeBy, C) /\ Own(p, n, madeBy, C) /\ n.departed = node[p].departed
      /\ m \in Carried(madeBy) /\ UNCHANGED texts
  BY DEF Received
<1> DEFINE r == remembered(n, m)
           e == r.conn[m.link]
           c == [e EXCEPT !.answerer = m.sender]
           l == otherEnd(r, m.link, c)
           k == IF answers(m, n) THEN l ELSE r
           P == Carried(madeBy)
<1>2. Step(p, k, NoMail) /\ m.type = "linkAnswer"
  BY DEF handleLinkAnswer, otherEnd
<1>3. m.id \in PacketIds /\ m.sender \in Peers
  BY <1>1, <1>2, Forwarding
<1>4. Own(p, r, madeBy, C) /\ r.conn = n.conn /\ r.departed = n.departed
  BY <1>1, <1>3, Remembered
<1> HIDE DEF r
<1>5. ASSUME answers(m, n)
      PROVE  Own(p, l, madeBy, C) /\ l.departed = r.departed
  <2>1. m.link \in DOMAIN r.conn /\ e.remote = m.sender
    BY <1>4, <1>5 DEF answers
  <2>2. r.conn \in Conns(P)
    BY <1>4 DEF Own, Nodes
  <2> HIDE DEF P
  <2>3. e \in LinkEnds(P)
    BY <2>1, <2>2, EndsOf
  <2>4. c \in LinkEnds(P) /\ c.kind = e.kind /\ c.remote = e.remote /\ c.answerer = e.remote
    BY <1>3, <2>1, <2>3 DEF LinkEnds
  <2> HIDE DEF c
  <2> QED
    BY <1>4, <2>1, <2>4, EndChanged DEF P
<1>6. Own(p, k, madeBy, C) /\ k.departed = r.departed
  <2> HIDE DEF l
  <2> QED
    BY <1>4, <1>5
<1> HIDE DEF k
<1>7. Keeps(p, node[p], k) /\ Mails(NoMail, madeBy)
  BY <1>1, <1>4, <1>6, MailSent DEF Keeps
<1> QED
  BY <1>1, <1>2, <1>6, <1>7, SteppedPlain

LEMMA IncomingStep ==
  ASSUME HoldsOn, NEW p \in Peers, NEW id \in DOMAIN node[p].conn, handleIncoming(p, id)
  PROVE  HoldsOn' /\ StayAway
<1>1. PICK C : Holds(madeBy, C)
  BY DEF HoldsOn
<1> DEFINE m == Head(node[p].conn[id].in)
           n == [node[p] EXCEPT !.conn[id].in = Tail(@)]
<1>2. node[p].conn[id].in # <<>> /\ texts' = texts
  BY DEF handleIncoming
<1>3. \/ handlePeerSnapshot(p, id, m, n)
      \/ handlePeerAnnounce(p, id, m, n)
      \/ handlePeerLeave(p, id, m, n)
      \/ routeLinkSignaling(p, id, m, n)
      \/ handleLinkOffer(p, id, m, n)
      \/ handleLinkAnswer(p, id, m, n)
      \/ DropDuplicate(p, m, n)
  BY Zenon DEF handleIncoming
<1>4. Own(p, node[p], madeBy, C)
  BY <1>1, BoundsTyped
<1>5. Own(p, n, madeBy, C) /\ n.departed = node[p].departed /\ m \in Carried(madeBy)
  BY <1>2, <1>4, Receiving
<1>6. Received(C, p, m, n)
  BY <1>1, <1>2, <1>5 DEF Received
<1> HIDE DEF m, n
<1> QED
  BY <1>3, <1>6, SnapshotStep, AnnounceStep, PeerLeaveStep, RouteStep, LinkOfferStep,
     LinkAnswerStep, DuplicateStep

-----------------------------------------------------------------------------
(* The timers.                                                             *)

LEMMA RetryStep ==
  ASSUME HoldsOn, NEW p \in Peers, NEW q \in Peers, retryRequested(p, q)
  PROVE  HoldsOn' /\ StayAway
<1>1. PICK C : Holds(madeBy, C)
  BY DEF HoldsOn
<1> DEFINE o == node[p]
           r == [o.retry[q] EXCEPT !.scheduled = FALSE]
           n == [o EXCEPT !.retry[q] = r]
           qs == {q} \cap {s \in n.known : canAttemptLink(n, s) /\ ~hasLink(n, s)}
           k == afterOffers(p, n, qs)
<1>2. /\ Own(p, o, madeBy, C) /\ o.retry \in [Peers -> Retries] /\ Views(p, o)
      /\ madeBy \in [Peers -> Nat]
  BY <1>1, BoundsTyped DEF Own, Nodes
<1>3. o.retry[q].scheduled /\ Step(p, k, NoMail) /\ texts' = texts
  BY DEF retryRequested
<1>4. p < q
  BY <1>2, <1>3 DEF Views
<1>5. r \in Retries /\ ~r.scheduled
  BY <1>2 DEF Retries
<1> HIDE DEF r
<1>6. Own(p, n, madeBy, C) /\ n.departed = o.departed
  BY <1>2, <1>5, Retrying
<1> HIDE DEF n, o
<1>7. qs \in SUBSET Peers /\ \A s \in qs : p < s /\ ~hasLink(n, s)
  BY <1>4
<1> HIDE DEF qs
<1>8. k.departed = n.departed /\ \E d, D : Becomes(p, k, madeBy, C, d, D)
  BY <1>2, <1>6, <1>7, OfferingEnds
<1> HIDE DEF k
<1>9. Keeps(p, node[p], k) /\ Mails(NoMail, madeBy)
  BY <1>6, <1>8, MailSent DEF Keeps, o
<1> QED
  BY <1>1, <1>3, <1>8, <1>9, Stepped

LEMMA NetworkStep ==
  ASSUME HoldsOn, NEW p \in Peers, NetworkChanged(p)
  PROVE  HoldsOn' /\ StayAway
<1>1. PICK C : Holds(madeBy, C)
  BY DEF HoldsOn
<1> DEFINE m == resetRetryBackoff(node[p])
<1>2. Step(p, ensureDynamicMesh(p, m), NoMail) /\ texts' = texts
  BY DEF NetworkChanged
<1>3. Own(p, m, madeBy, C) /\ m.departed = node[p].departed
  BY <1>1, BoundsTyped, BackoffReset
<1> HIDE DEF m
<1>4. Keeps(p, node[p], m) /\ Mails(NoMail, madeBy)
  BY <1>3, MailSent DEF Keeps
<1> QED
  BY <1>1, <1>2, <1>3, <1>4, SteppedMesh

LEMMA MaintainStep ==
  ASSUME HoldsOn, NEW p \in Peers, maintainPeerReachability(p)
  PROVE  HoldsOn' /\ StayAway
<1>1. PICK C : Holds(madeBy, C)
  BY DEF HoldsOn
<1>2. Own(p, node[p], madeBy, C) /\ node[p].known \subseteq Peers
  BY <1>1, BoundsTyped DEF Nodes
<1>3. PICK gone \in SUBSET (node[p].known \ ({p} \cup Reachable(p))) :
        \E n \in withoutMeshPeers(node[p], gone) :
          \/ Leaving(p, n)
          \/ Step(p, ensureDynamicMesh(p, n), NoMail)
  BY DEF maintainPeerReachability
<1>4. PICK n \in withoutMeshPeers(node[p], gone) :
        \/ Leaving(p, n)
        \/ Step(p, ensureDynamicMesh(p, n), NoMail)
  BY <1>3
<1>5. texts' = texts
  BY DEF maintainPeerReachability
<1>6. gone \in SUBSET (Peers \ {p})
  BY <1>2, <1>3
<1>7. Own(p, n, madeBy, C) /\ node[p].departed \subseteq n.departed
  BY <1>2, <1>4, <1>6, Dropping
<1>8. Keeps(p, node[p], n) /\ Mails(NoMail, madeBy)
  BY <1>7, MailSent DEF Keeps
<1>9. CASE Leaving(p, n)
  BY <1>1, <1>5, <1>7, <1>9, LeavingStep
<1>10. CASE Step(p, ensureDynamicMesh(p, n), NoMail)
  BY <1>1, <1>5, <1>7, <1>8, <1>10, SteppedMesh
<1> QED
  BY <1>4, <1>9, <1>10

-----------------------------------------------------------------------------
(* The specification.                                                      *)

LEMMA BoundsAreNumbers == MaxLeaves \in Nat /\ MaxFaults \in Nat
  BY MeshAssumption

LEMMA MeshStarts == MeshInit => MeshInv
<1> SUFFICES ASSUME MeshInit
             PROVE  MeshInv
  OBVIOUS
<1>1. \A p \in Peers : node[p] = FreshNode
  BY DEF MeshInit
<1>2. madeBy = [p \in Peers |-> 0]
  BY <1>1 DEF madeBy, FreshNode
<1> DEFINE P == Carried(madeBy)
<1>3. [q \in Peers |-> 0] \in [Peers -> Nat] /\ [q \in Peers |-> NoRetry] \in [Peers -> Retries]
      /\ (\A q \in Peers : ~[r \in Peers |-> NoRetry][q].scheduled)
      /\ NoConnections \in Conns(P)
  BY NoRetryIsOne, NoEnds
<1> HIDE DEF P
<1>4. FreshNode \in Nodes(P)
  BY <1>3 DEF FreshNode, Nodes
<1>5. \A p \in Peers : Views(p, FreshNode)
  BY <1>3 DEF FreshNode, Views
<1>6. \A p \in Peers : Own(p, node[p], madeBy, {})
  <2> TAKE p \in Peers
  <2>1. node[p].conn = NoConnections /\ node[p].made = madeBy[p]
    BY <1>1, <1>2 DEF FreshNode
  <2>2. Wired(p, node[p].conn, madeBy, {})
    BY <2>1, NoEnds
  <2> QED
    BY <1>1, <1>4, <1>5, <2>1, <2>2 DEF Own, P
<1>7. Holds(madeBy, {})
  BY <1>6 DEF Holds, TextsFit, MeshInit
<1>8. founded \in BOOLEAN /\ leaves \in 0..MaxLeaves /\ faults \in 0..MaxFaults
  <2>1. founded = FALSE /\ leaves = 0 /\ faults = 0
    BY DEF MeshInit
  <2>2. leaves \in 0..MaxLeaves
    BY <2>1, BoundsAreNumbers
  <2>3. faults \in 0..MaxFaults
    BY <2>1, BoundsAreNumbers
  <2> QED
    BY <2>1, <2>2, <2>3
<1> QED
  BY <1>7, <1>8 DEF MeshInv, HoldsOn

LEMMA FlagsStep ==
  ASSUME MeshInv, MeshNext
  PROVE  founded' \in BOOLEAN /\ leaves' \in 0..MaxLeaves /\ faults' \in 0..MaxFaults
<1>1. \/ UNCHANGED <<founded, leaves, faults>>
      \/ founded' = TRUE /\ UNCHANGED <<leaves, faults>>
      \/ leaves < MaxLeaves /\ leaves' = leaves + 1 /\ UNCHANGED <<founded, faults>>
      \/ faults < MaxFaults /\ faults' = faults + 1 /\ UNCHANGED <<founded, leaves>>
  <2>1. PICK p \in Peers :
          \/ Packets(p) \/ User(p) \/ Transport(p) \/ Timers(p) \/ NetworkChanged(p)
          \/ \E id \in DOMAIN node[p].conn : LinkFails(p, id)
    BY DEF MeshNext
  <2>2. CASE Packets(p)
    BY <2>2, Zenon DEF Packets, handleIncoming
  <2>3. CASE User(p)
    BY <2>3 DEF User, createMesh, leaveMesh, createInvitation, cancelInvitation, importOffer, importAnswer
  <2>4. CASE Transport(p)
    <3>1. PICK id \in DOMAIN node[p].conn :
            localDescriptionReady(p, id) \/ (\E q \in Peers : linkOpened(p, id, q)) \/ LinkDies(p, id)
      BY <2>4 DEF Transport
    <3>2. CASE localDescriptionReady(p, id)
      BY <3>2 DEF localDescriptionReady
    <3>3. CASE \E q \in Peers : linkOpened(p, id, q)
      BY <3>3, Zenon DEF linkOpened
    <3>4. CASE LinkDies(p, id)
      BY <3>4 DEF LinkDies, fail
    <3> QED
      BY <3>1, <3>2, <3>3, <3>4
  <2>5. CASE Timers(p)
    BY <2>5, Zenon DEF Timers, retryRequested, maintainPeerReachability
  <2>6. CASE NetworkChanged(p)
    BY <2>6, Zenon DEF NetworkChanged
  <2>7. CASE \E id \in DOMAIN node[p].conn : LinkFails(p, id)
    BY <2>7, Zenon DEF LinkFails, fail
  <2> QED
    BY <2>1, <2>2, <2>3, <2>4, <2>5, <2>6, <2>7
<1>2. founded \in BOOLEAN /\ leaves \in 0..MaxLeaves /\ faults \in 0..MaxFaults
  BY DEF MeshInv
<1>3. founded' \in BOOLEAN
  BY <1>1, <1>2, Zenon
<1>4. leaves' \in 0..MaxLeaves
  BY <1>1, <1>2, BoundsAreNumbers
<1>5. faults' \in 0..MaxFaults
  BY <1>1, <1>2, BoundsAreNumbers
<1> QED
  BY <1>3, <1>4, <1>5

LEMMA MeshSteps ==
  ASSUME MeshInv, MeshNext
  PROVE  MeshInv' /\ StayAway
<1>1. HoldsOn
  BY DEF MeshInv
<1>2. PICK p \in Peers :
        \/ Packets(p) \/ User(p) \/ Transport(p) \/ Timers(p) \/ NetworkChanged(p)
        \/ \E id \in DOMAIN node[p].conn : LinkFails(p, id)
  BY DEF MeshNext
<1>3. HoldsOn' /\ StayAway
  <2>1. CASE Packets(p)
    BY <1>1, <2>1, IncomingStep DEF Packets
  <2>2. CASE User(p)
    BY <1>1, <2>2, CreateStep, LeaveStep, InviteStep, CancelStep, ImportOfferStep, ImportAnswerStep
       DEF User
  <2>3. CASE Transport(p)
    BY <1>1, <2>3, DescriptionStep, OpenedStep, FailStep DEF Transport, LinkDies
  <2>4. CASE Timers(p)
    BY <1>1, <2>4, RetryStep, MaintainStep DEF Timers
  <2>5. CASE NetworkChanged(p)
    BY <1>1, <2>5, NetworkStep
  <2>6. CASE \E id \in DOMAIN node[p].conn : LinkFails(p, id)
    BY <1>1, <2>6, FailStep DEF LinkFails
  <2> QED
    BY <1>2, <2>1, <2>2, <2>3, <2>4, <2>5, <2>6
<1>4. MeshInv'
  BY <1>3, FlagsStep DEF MeshInv
<1> QED
  BY <1>3, <1>4

LEMMA MeshStutters ==
  ASSUME MeshInv, UNCHANGED meshVars
  PROVE  MeshInv' /\ StayAway
<1>1. node' = node /\ texts' = texts /\ founded' = founded /\ leaves' = leaves /\ faults' = faults
  BY DEF meshVars
<1>2. madeBy' = madeBy
  BY <1>1 DEF madeBy
<1>3. PICK C : Holds(madeBy, C)
  BY DEF MeshInv, HoldsOn
<1>4. Holds(madeBy, C)'
  BY <1>1, <1>2, <1>3 DEF Holds, TextsFit
<1>5. MeshInv'
  BY <1>1, <1>4 DEF MeshInv, HoldsOn
<1>6. \A p \in Peers : node[p].departed \cap node[p].known = {}
  BY <1>3, BoundsTyped DEF Own, Views
<1> QED
  BY <1>1, <1>5, <1>6 DEF StayAway

\* Whatever a peer remembers of its mesh and holds of a link, and whatever is on
\* its way, fits together: links have numbers their makers gave them, calls are
\* made by the smaller identity and answered by nobody else, a peer has one
\* attempt at each other peer, and knows nobody it has forgotten.
THEOREM MeshInvariant == MeshSpec => []MeshInv
<1>1. MeshInv /\ [MeshNext]_meshVars => MeshInv'
  BY MeshSteps, MeshStutters
<1> QED
  BY <1>1, MeshStarts, PTL DEF MeshSpec

-----------------------------------------------------------------------------
(* What the invariant says of the links.                                   *)

LEMMA TypesHold ==
  ASSUME MeshInv
  PROVE  MeshTypeOK
<1>1. PICK C : Holds(madeBy, C)
  BY DEF MeshInv, HoldsOn
<1>2. ASSUME NEW p \in Peers
      PROVE  LET n == node[p]
             IN  /\ n.meshed \in BOOLEAN /\ n.joined \in BOOLEAN
                 /\ n.known \subseteq Peers /\ n.departed \subseteq Peers
                 /\ n.gen \in [Peers -> Nat]
                 /\ n.retry \in [Peers -> [attempts : 0 .. RetryDelays + 1, scheduled : BOOLEAN]]
                 /\ n.made \in Nat
  <2>1. node[p] \in Nodes(Carried(madeBy))
    BY <1>1, BoundsTyped
  <2> QED
    BY <2>1 DEF Nodes, Retries
<1>3. ASSUME NEW p \in Peers, NEW id \in DOMAIN node[p].conn
      PROVE  /\ id.by \in Peers /\ id.no \in 1 .. node[id.by].made
             /\ node[p].conn[id].remote \in Peers \cup {Nobody}
             /\ node[p].conn[id].answerer \in Peers \cup {Nobody}
  <2> DEFINE P == Carried(madeBy)
  <2>1. node[p].conn \in Conns(P) /\ Wired(p, node[p].conn, madeBy, C)
    BY <1>1, BoundsTyped DEF Own, Nodes
  <2> HIDE DEF P
  <2>2. id \in LinkIds /\ node[p].conn[id] \in LinkEnds(P) /\ id.no <= madeBy[id.by]
    BY <2>1, EndsOf DEF Wired, Fits
  <2>3. id.by \in Peers /\ id.no \in Nat \ {0} /\ madeBy[id.by] = node[id.by].made
    BY <2>2 DEF LinkIds, madeBy
  <2>4. node[id.by].made \in Nat
    BY <1>2, <2>3
  <2>5. id.no \in 1 .. node[id.by].made
    BY <2>2, <2>3, <2>4
  <2> QED
    BY <2>2, <2>3, <2>5 DEF LinkEnds
<1> QED
  BY <1>2, <1>3 DEF MeshTypeOK, MeshInv

LEMMA AttemptsAreOne ==
  ASSUME MeshInv
  PROVE  OneAttempt
<1>1. PICK C : Holds(madeBy, C)
  BY DEF MeshInv, HoldsOn
<1> DEFINE own(a, b) == {id \in linksTo(node[a], b) : isMeshManaged(node[a].conn[id])}
<1>2. \A p \in Peers : Wired(p, node[p].conn, madeBy, C)
  BY <1>1, BoundsTyped DEF Own
<1>3. \A p, q \in Peers : Cardinality(own(p, q)) <= 1
  <2> TAKE p, q \in Peers
  <2>1. \A i, j \in own(p, q) : i = j
    BY <1>2 DEF Wired, linksTo
  <2> HIDE DEF own
  <2>2. CASE own(p, q) = {}
    BY <2>2, FS_EmptySet
  <2>3. CASE \E i : own(p, q) = {i}
    BY <2>3, FS_Singleton
  <2> QED
    BY <2>1, <2>2, <2>3
<1>4. \A p, q \in Peers : ~(/\ \E id \in own(p, q) : node[p].conn[id].kind = "MeshOffer"
                           /\ \E id \in own(q, p) : node[q].conn[id].kind = "MeshOffer")
  <2> SUFFICES ASSUME NEW p \in Peers, NEW q \in Peers,
                      NEW i \in own(p, q), node[p].conn[i].kind = "MeshOffer",
                      NEW j \in own(q, p), node[q].conn[j].kind = "MeshOffer"
               PROVE  FALSE
    OBVIOUS
  <2>1. p < q
    BY <1>2 DEF Wired, Fits, linksTo
  <2>2. q < p
    BY <1>2 DEF Wired, Fits, linksTo
  <2> QED
    BY <2>1, <2>2, PeersAreNumbers
<1> QED
  BY <1>3, <1>4 DEF OneAttempt

\* A peer has at most one link to another that the mesh made by itself, and two
\* peers never call each other at once (startMeshOffer, handleLinkOffer), however
\* offers and answers are late, lost or overtaken and links and peers go.
THEOREM LinksAlwaysSound == MeshSpec => []LinksAreSound
<1>1. MeshInv => LinksAreSound
  BY TypesHold, AttemptsAreOne DEF LinksAreSound
<1> QED
  BY <1>1, MeshInvariant, PTL

\* A forgotten peer is known again only where a link to it has just opened:
\* no snapshot, announcement, leave or late offer brings it back
\* (MeshCoordinator::forgetPeer, rememberPeer).
THEOREM ForgottenAlwaysAway == MeshSpec => ForgottenStayAway
<1>1. MeshInv /\ [MeshNext]_meshVars => [StayAway]_meshVars
  BY MeshSteps
<1> QED
  BY <1>1, MeshInvariant, PTL DEF MeshSpec, ForgottenStayAway, StayAway

-----------------------------------------------------------------------------
(* The common room.                                                        *)

\* A request for an invitation to the room r, and the answer that brings one.
Asks(a, r) == a.type = "invite.create" /\ a.room = r
Grants(a)  == a.type = "invite.create" /\ a.kind = "reply"

\* A move out of a room; the others are out of none.
Leaves(a) == a.type = "room.leave"

\* The answer to a move: it is made, or the token was no longer good.
Settles(a) ==
  /\ Mine(a)
  /\ a.kind = "reply" \/ (a.kind = "error" /\ a.code = "invalid_invitation" /\ a.type = "room.join")

\* The room of a client that was in none once it reads the answer a.
RoomIn(a) == IF a.kind = "reply" /\ a.type # "room.leave" THEN a.room ELSE 0

\* No operation of the client.
Idle == ""

\* No move is under way.  Here and below op, mine, its, u and d are what the
\* client is doing, the room of the client, the server's, and what is on the
\* way to the server and to the client.
Resting(op, mine, its, u, d) ==
  /\ op = Idle /\ mine = its
  /\ \A i \in 1..Len(u) : Asks(u[i], its) /\ its # 0
  /\ \A i \in 1..Len(d) : Grants(d[i])

\* The move is on its way to the server, behind all other requests.
Moving(op, mine, its, u, d) ==
  /\ op # Idle /\ mine = 0
  /\ Len(u) # 0 /\ Mine(u[Len(u)])
  /\ (Leaves(u[Len(u)]) <=> its # 0)
  /\ \A i \in 1..Len(u) - 1 : Asks(u[i], its) /\ its # 0
  /\ \A i \in 1..Len(d) : Grants(d[i])

\* The server has answered the move, after all the rest.
Moved(op, mine, its, u, d) ==
  /\ op # Idle /\ mine = 0
  /\ Len(u) = 0
  /\ Len(d) # 0 /\ Settles(d[Len(d)]) /\ its = RoomIn(d[Len(d)])
  /\ \A i \in 1..Len(d) - 1 : Grants(d[i])

Stage(op, mine, its, u, d) ==
  Resting(op, mine, its, u, d) \/ Moving(op, mine, its, u, d) \/ Moved(op, mine, its, u, d)

\* Every message says what it is about.
Messages(S) == \A a \in S : "type" \in DOMAIN a

Wires(u, d) == \E S : Messages(S) /\ u \in [Members -> Seq(S)] /\ d \in [Members -> Seq(S)]

Total(f) == f = [m \in Members |-> f[m]]

Inv ==
  /\ Wires(up, down)
  /\ Total(operation) /\ Total(room) /\ Total(memberOf) /\ Total(online)
  /\ \A m \in Members : Stage(operation[m], room[m], memberOf[m], up[m], down[m])
  /\ \A m \in Members : ~online[m] => operation[m] = Idle /\ room[m] = 0

-----------------------------------------------------------------------------
(* Functions and sequences.                                                *)

\* g is f but for the value v of m; of the sequences, but for one more element a,
\* or for the first one.
Replaced(f, g, m, v) == g = [f EXCEPT ![m] = v]
Longer(f, g, m, a)   == g = [f EXCEPT ![m] = Append(@, a)]
Shorter(f, g, m)     == g = [f EXCEPT ![m] = Tail(@)]

\* On the wires u to the server and d from it a request of m is answered with b.
Exchanged(u, v, d, e, m, b) == Shorter(u, v, m) /\ Longer(d, e, m, b)

\* One value of a function is replaced.
LEMMA Put ==
  ASSUME NEW f, Total(f), NEW m \in Members, NEW v, NEW g, Replaced(f, g, m, v)
  PROVE  Total(g) /\ g[m] = v /\ \A n \in Members : n # m => g[n] = f[n]
  BY DEF Total, Replaced

\* One message more.
LEMMA More ==
  ASSUME NEW S, NEW q \in Seq(S), NEW x
  PROVE  /\ q \in Seq(S \cup {x}) /\ Append(q, x) \in Seq(S \cup {x})
         /\ Len(q) \in Nat /\ Len(Append(q, x)) = Len(q) + 1
         /\ \A i \in 1..Len(q) : Append(q, x)[i] = q[i]
         /\ Append(q, x)[Len(q) + 1] = x
  OBVIOUS

\* One message less.
LEMMA Less ==
  ASSUME NEW S, NEW q \in Seq(S), q # <<>>
  PROVE  /\ Tail(q) \in Seq(S) /\ Head(q) \in S /\ Head(q) = q[1]
         /\ Len(q) \in Nat \ {0} /\ Len(Tail(q)) = Len(q) - 1
         /\ \A i \in 1..Len(q) - 1 : Tail(q)[i] = q[i + 1]
<1>1. Len(q) \in Nat \ {0}
  BY EmptySeq
<1>2. Tail(q) \in Seq(S) /\ Head(q) \in S /\ Head(q) = q[1] /\ Len(Tail(q)) = Len(q) - 1
  BY <1>1
<1>3. \A i \in 1..Len(q) - 1 : Tail(q)[i] = q[i + 1]
  BY <1>1
<1> QED
  BY <1>1, <1>2, <1>3

\* A sequence of one is not empty, and its rest is.
LEMMA OnlyOne ==
  ASSUME NEW S, NEW q \in Seq(S), Len(q) = 1
  PROVE  q # <<>> /\ Len(Tail(q)) = 0
<1>1. q # <<>>
  <2>1. Len(<<>>) = 0 /\ 0 # 1
    BY EmptySeq
  <2> QED
    BY <2>1, Zenon
<1> QED
  BY <1>1, Less

\* The first and the last of so many.
LEMMA Counting ==
  ASSUME NEW n \in Nat \ {0}
  PROVE  /\ n # 1 => 1 \in 1..n - 1 /\ n - 1 \in Nat \ {0}
         /\ n # 1 => n - 1 \in 1..n - 1 /\ (n - 1) + 1 = n
         /\ 1 \in 1..n
         /\ \A i \in 1..n - 1 : i + 1 \in 1..n
         /\ \A i \in 1..(n - 1) - 1 : i \in 1..n - 1 /\ i + 1 \in 1..n - 1
  OBVIOUS

\* So many and one more.
LEMMA CountingOn ==
  ASSUME NEW n \in Nat
  PROVE  /\ n + 1 # 0 /\ (n + 1) - 1 = n
         /\ \A i \in 1..n + 1 : i \in 1..n \/ i = n + 1
  OBVIOUS

-----------------------------------------------------------------------------
(* What becomes of the stage of one member.                                *)

\* It asks for an invitation to the room it is in.
LEMMA AskingStays ==
  ASSUME NEW S, NEW u \in Seq(S), NEW d \in Seq(S), NEW op, NEW mine, NEW its,
         Resting(op, mine, its, u, d), mine # 0, NEW a, Asks(a, mine)
  PROVE  Resting(op, mine, its, Append(u, a), d)
<1>1. Len(u) \in Nat
  OBVIOUS
<1>2. \A i \in 1..Len(u) + 1 : i \in 1..Len(u) \/ i = Len(u) + 1
  BY <1>1, CountingOn
<1>3. /\ Len(Append(u, a)) = Len(u) + 1 /\ Append(u, a)[Len(u) + 1] = a
      /\ \A i \in 1..Len(u) : Append(u, a)[i] = u[i]
  BY More
<1> QED
  BY <1>2, <1>3 DEF Resting

\* It starts a move: it leaves its room, or has none and makes or joins one.
LEMMA MoveStarts ==
  ASSUME NEW S, NEW u \in Seq(S), NEW d \in Seq(S), NEW op, NEW mine, NEW its,
         Resting(op, mine, its, u, d), NEW a, Mine(a), (Leaves(a) <=> mine # 0),
         NEW op2, op2 # Idle
  PROVE  Moving(op2, 0, its, Append(u, a), d)
<1>0. Len(u) \in Nat
  OBVIOUS
<1>1. /\ Len(Append(u, a)) = Len(u) + 1 /\ Append(u, a)[Len(u) + 1] = a
      /\ \A i \in 1..Len(u) : Append(u, a)[i] = u[i]
  BY More
<1>2. Len(u) + 1 # 0 /\ (Len(u) + 1) - 1 = Len(u)
  BY <1>0, CountingOn
<1> QED
  BY <1>1, <1>2 DEF Resting, Moving

\* What the server reads next, when nothing but that is to be asked, in each of
\* the stages.
LEMMA FirstAsked ==
  ASSUME NEW S, NEW u \in Seq(S), NEW d \in Seq(S), NEW op, NEW mine, NEW its,
         Stage(op, mine, its, u, d), u # <<>>
  PROVE  \/ Asks(Head(u), its) /\ its # 0
         \/ /\ Mine(Head(u)) /\ (Leaves(Head(u)) <=> its # 0)
            /\ Moving(op, mine, its, u, d) /\ Len(u) = 1
<1>0. Len(u) \in Nat \ {0}
  BY Less
<1>1. Head(u) = u[1] /\ 1 \in 1..Len(u)
  BY <1>0, Less, Counting
<1>2. CASE Resting(op, mine, its, u, d)
  BY <1>1, <1>2 DEF Resting
<1>3. CASE Moving(op, mine, its, u, d) /\ Len(u) = 1
  BY <1>1, <1>3 DEF Moving
<1>4. CASE Moving(op, mine, its, u, d) /\ Len(u) # 1
  <2>1. 1 \in 1..Len(u) - 1
    BY <1>0, <1>4, Counting
  <2> QED
    BY <1>1, <1>4, <2>1 DEF Moving
<1> QED
  BY <1>0, <1>1, <1>2, <1>3, <1>4 DEF Stage, Moved

\* The server grants an invitation.
LEMMA GrantStays ==
  ASSUME NEW S, NEW u \in Seq(S), NEW d \in Seq(S), NEW op, NEW mine, NEW its,
         Stage(op, mine, its, u, d), u # <<>>, ~Mine(Head(u)), NEW b, Grants(b)
  PROVE  Stage(op, mine, its, Tail(u), Append(d, b))
<1>0. Len(u) \in Nat \ {0}
  BY Less
<1>1. /\ Head(u) = u[1] /\ Len(Tail(u)) = Len(u) - 1
      /\ \A i \in 1..Len(u) - 1 : Tail(u)[i] = u[i + 1] /\ i + 1 \in 1..Len(u)
  BY <1>0, Less, Counting
<1>2. \A i \in 1..Len(Append(d, b)) : (\A k \in 1..Len(d) : Grants(d[k])) => Grants(Append(d, b)[i])
  <2>1. \A i \in 1..Len(d) + 1 : i \in 1..Len(d) \/ i = Len(d) + 1
    BY More
  <2> QED
    BY <2>1, More
<1>3. CASE Resting(op, mine, its, u, d)
  BY <1>1, <1>2, <1>3 DEF Resting, Stage
<1>4. CASE Moving(op, mine, its, u, d)
  <2>0. Len(u) # 1
    BY <1>0, <1>1, <1>4 DEF Moving
  <2>a. Len(u) - 1 \in Nat \ {0} /\ Len(u) - 1 \in 1..Len(u) - 1 /\ (Len(u) - 1) + 1 = Len(u)
    BY <1>0, <2>0, Counting
  <2>1. Tail(u)[Len(u) - 1] = u[Len(u)]
    BY <1>1, <2>a
  <2>2. \A i \in 1..(Len(u) - 1) - 1 : i \in 1..Len(u) - 1 /\ i + 1 \in 1..Len(u) - 1
    BY <1>0, Counting
  <2>3. \A i \in 1..Len(Tail(u)) - 1 : Asks(Tail(u)[i], its) /\ its # 0
    BY <1>1, <1>4, <2>2 DEF Moving
  <2>4. Moving(op, mine, its, Tail(u), Append(d, b))
    BY <1>1, <1>2, <1>4, <2>1, <2>a, <2>3 DEF Moving
  <2> QED
    BY <2>4 DEF Stage
<1> QED
  BY <1>0, <1>1, <1>3, <1>4 DEF Stage, Moved

\* The server answers the move.
LEMMA MoveIsMade ==
  ASSUME NEW S, NEW u \in Seq(S), NEW d \in Seq(S), NEW op, NEW mine, NEW its,
         Moving(op, mine, its, u, d), Len(u) = 1, NEW b, Settles(b)
  PROVE  Stage(op, mine, RoomIn(b), Tail(u), Append(d, b))
<1>2. Len(Tail(u)) = 0
  BY OnlyOne
<1>0. Len(d) \in Nat
  OBVIOUS
<1>3. Len(Append(d, b)) = Len(d) + 1 /\ Append(d, b)[Len(d) + 1] = b
      /\ \A i \in 1..Len(d) : Append(d, b)[i] = d[i]
  BY More
<1>4. Len(d) + 1 # 0 /\ (Len(d) + 1) - 1 = Len(d)
  BY <1>0, CountingOn
<1> QED
  BY <1>2, <1>3, <1>4 DEF Moving, Moved, Stage

\* What the client reads next.
LEMMA FirstTold ==
  ASSUME NEW S, NEW u \in Seq(S), NEW d \in Seq(S), NEW op, NEW mine, NEW its,
         Stage(op, mine, its, u, d), d # <<>>
  PROVE  \/ Grants(Head(d))
         \/ /\ Settles(Head(d)) /\ its = RoomIn(Head(d)) /\ mine = 0 /\ op # Idle
            /\ Len(u) = 0 /\ Len(d) = 1
<1>0. Len(d) \in Nat \ {0}
  BY Less
<1>1. Head(d) = d[1] /\ 1 \in 1..Len(d)
  BY <1>0, Less, Counting
<1>2. CASE Resting(op, mine, its, u, d) \/ Moving(op, mine, its, u, d)
  BY <1>1, <1>2 DEF Resting, Moving
<1>3. CASE Moved(op, mine, its, u, d) /\ Len(d) = 1
  BY <1>1, <1>3 DEF Moved
<1>4. CASE Moved(op, mine, its, u, d) /\ Len(d) # 1
  <2>1. 1 \in 1..Len(d) - 1
    BY <1>0, <1>4, Counting
  <2> QED
    BY <1>1, <1>4, <2>1 DEF Moved
<1> QED
  BY <1>2, <1>3, <1>4 DEF Stage

\* The client reads of an invitation.
LEMMA ReadingStays ==
  ASSUME NEW S, NEW u \in Seq(S), NEW d \in Seq(S), NEW op, NEW mine, NEW its,
         Stage(op, mine, its, u, d), d # <<>>, ~Mine(Head(d))
  PROVE  Stage(op, mine, its, u, Tail(d))
<1>0. Len(d) \in Nat \ {0}
  BY Less
<1>1. /\ Head(d) = d[1] /\ Len(Tail(d)) = Len(d) - 1
      /\ \A i \in 1..Len(d) - 1 : Tail(d)[i] = d[i + 1] /\ i + 1 \in 1..Len(d)
  BY <1>0, Less, Counting
<1>2. CASE Resting(op, mine, its, u, d)
  BY <1>1, <1>2 DEF Resting, Stage
<1>3. CASE Moving(op, mine, its, u, d)
  BY <1>1, <1>3 DEF Moving, Stage
<1>4. CASE Moved(op, mine, its, u, d)
  <2>0. Len(d) # 1
    BY <1>0, <1>1, <1>4 DEF Moved, Settles
  <2>a. Len(d) - 1 \in Nat \ {0} /\ Len(d) - 1 \in 1..Len(d) - 1 /\ (Len(d) - 1) + 1 = Len(d)
    BY <1>0, <2>0, Counting
  <2>1. Tail(d)[Len(d) - 1] = d[Len(d)]
    BY <1>1, <2>a
  <2>2. \A i \in 1..(Len(d) - 1) - 1 : i \in 1..Len(d) - 1 /\ i + 1 \in 1..Len(d) - 1
    BY <1>0, Counting
  <2>3. \A i \in 1..Len(Tail(d)) - 1 : Grants(Tail(d)[i])
    BY <1>1, <1>4, <2>2 DEF Moved
  <2>4. Moved(op, mine, its, u, Tail(d))
    BY <1>1, <1>4, <2>1, <2>a, <2>3 DEF Moved
  <2> QED
    BY <2>4 DEF Stage
<1> QED
  BY <1>2, <1>3, <1>4 DEF Stage

\* The client has read the answer to its move and takes itself to be where the
\* server says.
LEMMA MoveEnds ==
  ASSUME NEW S, NEW u \in Seq(S), NEW d \in Seq(S), NEW its, Len(u) = 0, Len(d) = 1
  PROVE  Stage(Idle, its, its, u, Tail(d))
<1>1. \A n : n = 0 => 1..n = {}
  OBVIOUS
<1>2. Len(Tail(d)) = 0
  BY OnlyOne
<1> QED
  BY <1>1, <1>2, Zenon DEF Resting, Stage

-----------------------------------------------------------------------------
(* The wires.                                                              *)

\* Something is asked of the server.
LEMMA WireAsks ==
  ASSUME NEW u, NEW d, Wires(u, d), NEW m \in Members, NEW a, "type" \in DOMAIN a,
         NEW v, Longer(u, v, m, a)
  PROVE  /\ Wires(v, d) /\ v[m] = Append(u[m], a)
         /\ \A n \in Members : n # m => v[n] = u[n]
<1>1. PICK S : Messages(S) /\ u \in [Members -> Seq(S)] /\ d \in [Members -> Seq(S)]
  BY DEF Wires
<1>2. Messages(S \cup {a})
  BY <1>1 DEF Messages
<1>3. \A n \in Members : /\ u[n] \in Seq(S) /\ u[n] \in Seq(S \cup {a})
                         /\ d[n] \in Seq(S \cup {a})
                         /\ Append(u[n], a) \in Seq(S \cup {a})
  BY <1>1, More
<1>4. d \in [Members -> Seq(S \cup {a})]
  BY <1>1, <1>3
<1>5. v = [u EXCEPT ![m] = Append(@, a)]
  BY DEF Longer
<1>6. v \in [Members -> Seq(S \cup {a})]
  BY <1>1, <1>3, <1>5
<1> QED
  BY <1>1, <1>2, <1>4, <1>5, <1>6 DEF Wires

\* The server reads a request and answers.
LEMMA WireAnswers ==
  ASSUME NEW u, NEW d, Wires(u, d), NEW m \in Members, u[m] # <<>>,
         NEW b, "type" \in DOMAIN b, NEW v, NEW e,
         Exchanged(u, v, d, e, m, b)
  PROVE  /\ Wires(v, e) /\ v[m] = Tail(u[m]) /\ e[m] = Append(d[m], b)
         /\ \A n \in Members : n # m => v[n] = u[n] /\ e[n] = d[n]
<1>1. PICK S : Messages(S) /\ u \in [Members -> Seq(S)] /\ d \in [Members -> Seq(S)]
  BY DEF Wires
<1>2. Messages(S \cup {b})
  BY <1>1 DEF Messages
<1>3. \A n \in Members : /\ u[n] \in Seq(S \cup {b}) /\ d[n] \in Seq(S \cup {b})
                         /\ Append(d[n], b) \in Seq(S \cup {b})
  BY <1>1, More
<1>4. Tail(u[m]) \in Seq(S \cup {b})
  BY <1>3, Less
<1>5. v = [u EXCEPT ![m] = Tail(@)] /\ e = [d EXCEPT ![m] = Append(@, b)]
  BY DEF Longer, Shorter, Exchanged
<1>6. v \in [Members -> Seq(S \cup {b})]
  BY <1>1, <1>3, <1>4, <1>5
<1>7. e \in [Members -> Seq(S \cup {b})]
  BY <1>1, <1>3, <1>5
<1> QED
  BY <1>1, <1>2, <1>5, <1>6, <1>7 DEF Wires

\* A client reads an answer.
LEMMA WireReads ==
  ASSUME NEW u, NEW d, Wires(u, d), NEW m \in Members, d[m] # <<>>,
         NEW e, Shorter(d, e, m)
  PROVE  /\ Wires(u, e) /\ e[m] = Tail(d[m])
         /\ \A n \in Members : n # m => e[n] = d[n]
<1>1. PICK S : Messages(S) /\ u \in [Members -> Seq(S)] /\ d \in [Members -> Seq(S)]
  BY DEF Wires
<1>2. Tail(d[m]) \in Seq(S)
  BY <1>1, Less
<1>3. e = [d EXCEPT ![m] = Tail(@)]
  BY DEF Shorter
<1>4. e \in [Members -> Seq(S)]
  BY <1>1, <1>2, <1>3
<1> QED
  BY <1>1, <1>3, <1>4 DEF Wires

\* A connection is lost with all that is on it.
LEMMA WireBreaks ==
  ASSUME NEW u, NEW d, Wires(u, d), NEW m \in Members,
         NEW v, NEW e, Replaced(u, v, m, <<>>), Replaced(d, e, m, <<>>)
  PROVE  /\ Wires(v, e) /\ v[m] = <<>> /\ e[m] = <<>>
         /\ \A n \in Members : n # m => v[n] = u[n] /\ e[n] = d[n]
<1>1. PICK S : Messages(S) /\ u \in [Members -> Seq(S)] /\ d \in [Members -> Seq(S)]
  BY DEF Wires
<1>2. v = [u EXCEPT ![m] = <<>>] /\ e = [d EXCEPT ![m] = <<>>]
  BY DEF Replaced
<1>3. v \in [Members -> Seq(S)] /\ e \in [Members -> Seq(S)]
  BY <1>1, <1>2
<1> QED
  BY <1>1, <1>2, <1>3 DEF Wires

\* The wires of one member.
LEMMA WireOf ==
  ASSUME NEW u, NEW d, Wires(u, d), NEW m \in Members
  PROVE  /\ \E S : u[m] \in Seq(S) /\ d[m] \in Seq(S)
         /\ u[m] # <<>> => "type" \in DOMAIN Head(u[m])
         /\ d[m] # <<>> => "type" \in DOMAIN Head(d[m])
<1>1. PICK S : Messages(S) /\ u \in [Members -> Seq(S)] /\ d \in [Members -> Seq(S)]
  BY DEF Wires
<1>2. u[m] \in Seq(S) /\ d[m] \in Seq(S)
  BY <1>1
<1>3. /\ u[m] # <<>> => Head(u[m]) \in S
      /\ d[m] # <<>> => Head(d[m]) \in S
  BY <1>2, Less
<1> QED
  BY <1>1, <1>2, <1>3 DEF Messages

\* An answer says what it answers, and what the server adds.
LEMMA Replies ==
  ASSUME NEW a, "type" \in DOMAIN a, NEW v, NEW b, b = with(a, [kind |-> "reply", room |-> v])
  PROVE  "type" \in DOMAIN b /\ b.type = a.type /\ b.kind = "reply" /\ b.room = v
  BY DEF with

LEMMA Tokens ==
  ASSUME NEW a, "type" \in DOMAIN a, NEW v, NEW b, b = with(a, [kind |-> "reply", token |-> v])
  PROVE  "type" \in DOMAIN b /\ b.type = a.type /\ b.kind = "reply"
  BY DEF with

LEMMA Errors ==
  ASSUME NEW a, "type" \in DOMAIN a, NEW v, NEW b, b = with(a, [kind |-> "error", code |-> v])
  PROVE  "type" \in DOMAIN b /\ b.type = a.type /\ b.kind = "error" /\ b.code = v
  BY DEF with

-----------------------------------------------------------------------------
(* Every step.                                                             *)

StageOf(m) == Stage(operation[m], room[m], memberOf[m], up[m], down[m])
Idles(m)   == ~online[m] => operation[m] = Idle /\ room[m] = 0

\* What the invariant speaks of stays as it is for all but m.
OnlyOf(m) ==
  \A n \in Members : n # m =>
    /\ operation'[n] = operation[n] /\ room'[n] = room[n] /\ memberOf'[n] = memberOf[n]
    /\ up'[n] = up[n] /\ down'[n] = down[n] /\ online'[n] = online[n]

AllTotal == Total(operation) /\ Total(room) /\ Total(memberOf) /\ Total(online)

\* It is enough to look at the member that moves.
LEMMA OneMoves ==
  ASSUME Inv, NEW m \in Members, OnlyOf(m), Wires(up, down)', AllTotal', StageOf(m)', Idles(m)'
  PROVE  Inv'
  BY DEF Inv, OnlyOf, AllTotal, StageOf, Idles

\* A step that changes nothing of all this.
LEMMA NoneMoves ==
  ASSUME Inv, UNCHANGED <<online, operation, room, memberOf, up, down>>
  PROVE  Inv'
  BY DEF Inv

\* The requests for a move.
LEMMA MoveRequests ==
  /\ \A t : LET a == [type |-> t] IN "type" \in DOMAIN a /\ a.type = t
  /\ \A t : LET a == [type |-> "room.join", token |-> t] IN
                "type" \in DOMAIN a /\ a.type = "room.join"
  /\ \A r, n, i : LET a == [type |-> "invite.create", room |-> r, peer |-> n, for |-> i] IN
                      "type" \in DOMAIN a /\ a.type = "invite.create" /\ a.room = r
  OBVIOUS

\* A move of a member at rest begins.
LEMMA MoveBegins ==
  ASSUME Inv, NEW m \in Members, online[m], operation[m] = Idle,
         NEW op, op # Idle, NEW a, "type" \in DOMAIN a, Mine(a), Leaves(a) <=> room[m] # 0,
         Replaced(operation, operation', m, op), Replaced(room, room', m, 0),
         Longer(up, up', m, a), UNCHANGED <<online, memberOf, down>>
  PROVE  Inv'
<1>1. /\ Wires(up, down) /\ Total(operation) /\ Total(room) /\ StageOf(m)
      /\ Total(memberOf) /\ Total(online)
  BY DEF Inv, StageOf
<1>2. /\ Total(operation') /\ operation'[m] = op
      /\ \A n \in Members : n # m => operation'[n] = operation[n]
  BY <1>1, Put
<1>3. /\ Total(room') /\ room'[m] = 0
      /\ \A n \in Members : n # m => room'[n] = room[n]
  BY <1>1, Put
<1>4. /\ Wires(up', down) /\ up'[m] = Append(up[m], a)
      /\ \A n \in Members : n # m => up'[n] = up[n]
  BY <1>1, WireAsks
<1>5. PICK S : up[m] \in Seq(S) /\ down[m] \in Seq(S)
  BY <1>1, WireOf
<1>6. Resting(operation[m], room[m], memberOf[m], up[m], down[m])
  BY <1>1 DEF StageOf, Stage, Moving, Moved
<1>7. Moving(op, 0, memberOf[m], Append(up[m], a), down[m])
  BY <1>5, <1>6, MoveStarts
<1>8. StageOf(m)'
  BY <1>2, <1>3, <1>4, <1>7 DEF StageOf, Stage
<1>9. OnlyOf(m) /\ AllTotal' /\ Wires(up, down)' /\ Idles(m)'
  BY <1>1, <1>2, <1>3, <1>4 DEF OnlyOf, AllTotal, Idles
<1> QED
  BY <1>8, <1>9, OneMoves

\* recoverServerRoom leaves a room for a smaller one.
LEMMA RecoverLeaveStep == \A m \in Members : Inv /\ RecoverLeave(m) => Inv'
<1> SUFFICES ASSUME NEW m \in Members, Inv, RecoverLeave(m) PROVE Inv'
  OBVIOUS
<1> DEFINE a == [type |-> "room.leave"]
<1>1. "type" \in DOMAIN a /\ Mine(a) /\ Leaves(a) /\ "leave" # Idle
  BY DEF Mine, Leaves, Idle
<1>2. /\ online[m] /\ operation[m] = Idle /\ room[m] # 0
      /\ Replaced(operation, operation', m, "leave")
      /\ Replaced(room, room', m, 0)
      /\ Longer(up, up', m, a)
      /\ UNCHANGED <<online, memberOf, down>>
  BY DEF RecoverLeave, Recovers, request, serverVars, Idle, Longer, Replaced
<1> HIDE DEF a
<1> QED
  BY <1>1, <1>2, MoveBegins

\* recoverServerRoom has the member with the smallest identifier make a room.
LEMMA RecoverCreateStep == \A m \in Members : Inv /\ RecoverCreate(m) => Inv'
<1> SUFFICES ASSUME NEW m \in Members, Inv, RecoverCreate(m) PROVE Inv'
  OBVIOUS
<1> DEFINE a == [type |-> "room.create"]
<1>1. "type" \in DOMAIN a /\ Mine(a) /\ ~Leaves(a) /\ "create" # Idle
  BY DEF Mine, Leaves, Idle
<1>2. /\ online[m] /\ operation[m] = Idle /\ room[m] = 0
      /\ Replaced(operation, operation', m, "create")
      /\ Longer(up, up', m, a)
      /\ UNCHANGED <<online, memberOf, down, room>>
  BY DEF RecoverCreate, Recovers, request, serverVars, Idle, Longer, Replaced
<1>3. Replaced(room, room', m, 0)
  BY <1>2 DEF Inv, Total, Replaced
<1> HIDE DEF a
<1> QED
  BY <1>1, <1>2, <1>3, MoveBegins

\* A request for an invitation is sent to another member.
LEMMA RecoverJoinStep == \A m \in Members : Inv /\ RecoverJoin(m) => Inv'
  BY NoneMoves DEF RecoverJoin, serverVars

\* A member's pause ends.
LEMMA PauseEndsStep == \A m \in Members : Inv /\ PauseEnds(m) => Inv'
  BY NoneMoves DEF PauseEnds, serverVars

\* A member hears of another's room.
LEMMA HandleStateStep ==
  ASSUME NEW m, NEW n, NEW p, Inv, HandleState(m, n, p), UNCHANGED <<down, serverVars>>
  PROVE  Inv'
  BY NoneMoves DEF HandleState, serverVars

\* A member without a room gets its invitation and joins.
LEMMA HandleInvitationStep ==
  ASSUME NEW m, NEW n \in Members, NEW p, Inv, HandleInvitation(m, n, p),
         UNCHANGED <<down, serverVars>>
  PROVE  Inv'
<1>1. CASE MayJoin(m, n, p)
  <2> DEFINE a == [type |-> "room.join", token |-> p.token]
  <2>1. "type" \in DOMAIN a /\ Mine(a) /\ ~Leaves(a) /\ "join" # Idle
    BY DEF Mine, Leaves, Idle
  <2>2. /\ online[n] /\ operation[n] = Idle /\ room[n] = 0
        /\ Replaced(operation, operation', n, "join")
        /\ Longer(up, up', n, a)
        /\ UNCHANGED <<online, memberOf, down, room>>
    BY <1>1 DEF HandleInvitation, MayJoin, request, serverVars, Idle, Longer, Replaced
  <2>3. Replaced(room, room', n, 0)
    BY <2>2 DEF Inv, Total, Replaced
  <2> HIDE DEF a
  <2> QED
    BY <2>1, <2>2, <2>3, MoveBegins
<1>2. CASE ~MayJoin(m, n, p)
  BY <1>2, NoneMoves DEF HandleInvitation, serverVars
<1> QED
  BY <1>1, <1>2

\* A member is asked for an invitation and has the server make one, for the
\* room it is in.
LEMMA HandleRequestStep ==
  ASSUME NEW m, NEW n \in Members, NEW p, Inv, HandleRequest(m, n, p),
         UNCHANGED <<down, serverVars>>
  PROVE  Inv'
<1>1. UNCHANGED <<online, operation, room, memberOf, down>>
  BY DEF HandleRequest, serverVars
<1>2. CASE up' = up
  BY <1>1, <1>2, NoneMoves
<1>3. CASE up' # up
  <2> DEFINE a == [type |-> "invite.create", room |-> room[n], peer |-> m, for |-> p.id]
  <2>1. room[n] # 0 /\ Longer(up, up', n, a)
    BY <1>3 DEF HandleRequest, MayInvite, request, Longer
  <2>2. "type" \in DOMAIN a /\ Asks(a, room[n])
    BY DEF Asks
  <2> HIDE DEF a
  <2>3. Wires(up, down) /\ StageOf(n) /\ AllTotal /\ Idles(n)
    BY DEF Inv, StageOf, AllTotal, Idles
  <2>4. /\ Wires(up', down) /\ up'[n] = Append(up[n], a)
        /\ \A k \in Members : k # n => up'[k] = up[k]
    BY <2>1, <2>2, <2>3, WireAsks
  <2>5. PICK S : up[n] \in Seq(S) /\ down[n] \in Seq(S)
    BY <2>3, WireOf
  <2>6. Resting(operation[n], room[n], memberOf[n], up[n], down[n])
    BY <2>1, <2>3 DEF StageOf, Stage, Moving, Moved
  <2>7. Resting(operation[n], room[n], memberOf[n], Append(up[n], a), down[n])
    BY <2>1, <2>2, <2>5, <2>6, AskingStays
  <2>8. StageOf(n)'
    BY <1>1, <2>4, <2>7 DEF StageOf, Stage
  <2>9. OnlyOf(n) /\ AllTotal' /\ Wires(up, down)' /\ Idles(n)'
    BY <1>1, <2>3, <2>4 DEF OnlyOf, AllTotal, Idles
  <2> QED
    BY <2>8, <2>9, OneMoves
<1> QED
  BY <1>2, <1>3

\* The server reads and answers one request.
LEMMA ServeStep == \A m \in Members : Inv /\ Serve(m) => Inv'
<1> SUFFICES ASSUME NEW m \in Members, Inv, Serve(m) PROVE Inv'
  OBVIOUS
<1> DEFINE a == Head(up[m])
<1>1. Wires(up, down) /\ StageOf(m) /\ AllTotal /\ Idles(m)
  BY DEF Inv, StageOf, AllTotal, Idles
<1>2. /\ up[m] # <<>> /\ Shorter(up, up', m)
      /\ UNCHANGED <<online, operation, room>>
  BY DEF Serve, memberVars, Shorter
<1>3. "type" \in DOMAIN a
  BY <1>1, <1>2, WireOf
<1>4. PICK S : up[m] \in Seq(S) /\ down[m] \in Seq(S)
  BY <1>1, WireOf
<1>5. \/ Asks(a, memberOf[m]) /\ memberOf[m] # 0
      \/ /\ Mine(a) /\ (Leaves(a) <=> memberOf[m] # 0)
         /\ Moving(operation[m], room[m], memberOf[m], up[m], down[m]) /\ Len(up[m]) = 1
  BY <1>1, <1>2, <1>4, FirstAsked DEF StageOf
<1>6. \E b : /\ Longer(down, down', m, b) /\ "type" \in DOMAIN b
             /\ \/ ~Mine(a) /\ Grants(b) /\ memberOf' = memberOf
                \/ /\ Mine(a) /\ Settles(b)
                   /\ Replaced(memberOf, memberOf', m, RoomIn(b))
  <2>1. CASE a.type = "invite.create"
    <3>1. memberOf[m] # 0 /\ a.room = memberOf[m] /\ ~Mine(a)
      BY <1>5, <2>1 DEF Asks, Mine
    <3>2. PICK t, b : /\ b = with(a, [kind |-> "reply", token |-> t])
                      /\ Longer(down, down', m, b)
                      /\ memberOf' = memberOf
      BY <2>1, <3>1 DEF Serve, Longer, Replaced
    <3> QED
      BY <1>3, <2>1, <3>1, <3>2, Tokens DEF Grants
  <2>2. CASE a.type = "room.create"
    <3>1. memberOf[m] = 0 /\ Mine(a)
      BY <1>5, <2>2 DEF Asks, Mine, Leaves
    <3>2. PICK r, b : /\ b = with(a, [kind |-> "reply", room |-> r])
                      /\ Longer(down, down', m, b)
                      /\ Replaced(memberOf, memberOf', m, r)
      BY <2>2, <3>1 DEF Serve, Longer, Replaced
    <3>4. "type" \in DOMAIN b /\ b.type = a.type /\ b.kind = "reply" /\ b.room = r
      BY <1>3, <3>2, Replies
    <3> QED
      BY <2>2, <3>1, <3>2, <3>4 DEF Settles, RoomIn, Mine
  <2>3. CASE a.type = "room.leave"
    <3>1. memberOf[m] # 0 /\ Mine(a)
      BY <1>5, <2>3 DEF Asks, Mine, Leaves
    <3>2. PICK r, b : /\ b = with(a, [kind |-> "reply", room |-> r])
                      /\ Longer(down, down', m, b)
                      /\ Replaced(memberOf, memberOf', m, 0)
      BY <2>3, <3>1 DEF Serve, leaveRoom, Longer, Replaced
    <3>4. "type" \in DOMAIN b /\ b.type = a.type /\ b.kind = "reply" /\ b.room = r
      BY <1>3, <3>2, Replies
    <3> QED
      BY <2>3, <3>1, <3>2, <3>4 DEF Settles, RoomIn, Mine
  <2>4. CASE a.type = "room.join" /\ a.token \in tokens
    <3>1. memberOf[m] = 0 /\ Mine(a)
      BY <1>5, <2>4 DEF Asks, Mine, Leaves
    <3>2. PICK r, b : /\ b = with(a, [kind |-> "reply", room |-> r])
                      /\ Longer(down, down', m, b)
                      /\ Replaced(memberOf, memberOf', m, r)
      BY <2>4, <3>1 DEF Serve, Longer, Replaced
    <3>4. "type" \in DOMAIN b /\ b.type = a.type /\ b.kind = "reply" /\ b.room = r
      BY <1>3, <3>2, Replies
    <3> QED
      BY <2>4, <3>1, <3>2, <3>4 DEF Settles, RoomIn, Mine
  <2>5. CASE a.type = "room.join" /\ a.token \notin tokens
    <3>1. memberOf[m] = 0 /\ Mine(a)
      BY <1>5, <2>5 DEF Asks, Mine, Leaves
    <3>2. PICK b : /\ b = with(a, [kind |-> "error", code |-> "invalid_invitation"])
                   /\ Longer(down, down', m, b)
                   /\ memberOf' = memberOf
      BY <2>5, <3>1 DEF Serve, serverVars, Longer, Replaced
    <3>3. Replaced(memberOf, memberOf', m, 0)
      BY <1>1, <3>1, <3>2 DEF AllTotal, Total, Replaced
    <3>4. "type" \in DOMAIN b /\ b.type = a.type /\ b.kind = "error" /\ b.code = "invalid_invitation"
      BY <1>3, <3>2, Errors
    <3> QED
      BY <2>5, <3>1, <3>2, <3>3, <3>4 DEF Settles, RoomIn, Mine
  <2> QED
    BY <1>5, <2>1, <2>2, <2>3, <2>4, <2>5 DEF Asks, Mine
<1>7. PICK b : /\ Longer(down, down', m, b) /\ "type" \in DOMAIN b
               /\ \/ ~Mine(a) /\ Grants(b) /\ memberOf' = memberOf
                  \/ /\ Mine(a) /\ Settles(b)
                     /\ Replaced(memberOf, memberOf', m, RoomIn(b))
  BY <1>6
<1>8. /\ Wires(up', down') /\ up'[m] = Tail(up[m]) /\ down'[m] = Append(down[m], b)
      /\ \A n \in Members : n # m => up'[n] = up[n] /\ down'[n] = down[n]
  <2>1. Wires(up, down) /\ up[m] # <<>> /\ "type" \in DOMAIN b
    BY <1>1, <1>2, <1>7
  <2>2. Exchanged(up, up', down, down', m, b)
    BY <1>2, <1>7 DEF Exchanged
  <2> QED
    BY <2>1, <2>2, WireAnswers
<1>9. /\ Total(memberOf')
      /\ \A n \in Members : n # m => memberOf'[n] = memberOf[n]
      /\ memberOf'[m] = IF Mine(a) THEN RoomIn(b) ELSE memberOf[m]
  BY <1>1, <1>7, Put DEF AllTotal
<1>10. Stage(operation[m], room[m], memberOf'[m], Tail(up[m]), Append(down[m], b))
  <2>1. CASE Mine(a)
    <3>1. Moving(operation[m], room[m], memberOf[m], up[m], down[m]) /\ Len(up[m]) = 1
      BY <1>5, <2>1 DEF Asks, Mine
    <3> QED
      BY <1>4, <1>7, <1>9, <2>1, <3>1, MoveIsMade
  <2>2. CASE ~Mine(a)
    BY <1>1, <1>2, <1>4, <1>7, <1>9, <2>2, GrantStays DEF StageOf
  <2> QED
    BY <2>1, <2>2
<1>11. StageOf(m)'
  BY <1>2, <1>8, <1>10 DEF StageOf
<1>12. OnlyOf(m) /\ AllTotal' /\ Wires(up, down)' /\ Idles(m)'
  BY <1>1, <1>2, <1>8, <1>9 DEF OnlyOf, AllTotal, Idles
<1> QED
  BY <1>11, <1>12, OneMoves

\* The client reads an answer: of an invitation, which changes nothing here, or
\* of its move.
LEMMA ReceiveStep == \A m \in Members : Inv /\ Receive(m) => Inv'
<1> SUFFICES ASSUME NEW m \in Members, Inv, Receive(m) PROVE Inv'
  OBVIOUS
<1> DEFINE a == Head(down[m])
<1>1. Wires(up, down) /\ StageOf(m) /\ AllTotal /\ Idles(m)
  BY DEF Inv, StageOf, AllTotal, Idles
<1>2. down[m] # <<>>
  BY DEF Receive
<1>3. PICK S : up[m] \in Seq(S) /\ down[m] \in Seq(S)
  BY <1>1, WireOf
<1>4. \/ Grants(a)
      \/ /\ Settles(a) /\ memberOf[m] = RoomIn(a) /\ room[m] = 0 /\ operation[m] # Idle
         /\ Len(up[m]) = 0 /\ Len(down[m]) = 1
  BY <1>1, <1>2, <1>3, FirstTold DEF StageOf
<1>5. ~Contradicts(m, a)
  BY <1>4 DEF Grants, Settles, Contradicts
<1>6. CASE InvitationMade(m, a) \/ Forgotten(m, a)
  <2>1. /\ ~Mine(a) /\ Shorter(down, down', m)
        /\ UNCHANGED <<up, online, operation, room, memberOf>>
    BY <1>6 DEF InvitationMade, Forgotten, Job, Mine, Shorter, memberVars, serverVars
  <2>2. /\ Wires(up, down') /\ down'[m] = Tail(down[m])
        /\ \A n \in Members : n # m => down'[n] = down[n]
    BY <1>1, <1>2, <2>1, WireReads
  <2>3. Stage(operation[m], room[m], memberOf[m], up[m], Tail(down[m]))
    BY <1>1, <1>2, <1>3, <2>1, ReadingStays DEF StageOf
  <2>4. StageOf(m)'
    BY <2>1, <2>2, <2>3 DEF StageOf
  <2>5. OnlyOf(m) /\ AllTotal' /\ Wires(up, down)' /\ Idles(m)'
    BY <1>1, <2>1, <2>2 DEF OnlyOf, AllTotal, Idles
  <2> QED
    BY <2>4, <2>5, OneMoves
<1>7. CASE OperationDone(m, a) \/ OperationRefused(m, a)
  <2>1. /\ Settles(a) /\ memberOf[m] = RoomIn(a) /\ room[m] = 0 /\ operation[m] # Idle
        /\ Len(up[m]) = 0 /\ Len(down[m]) = 1
    BY <1>4, <1>7 DEF OperationDone, OperationRefused, Grants, Mine
  <2>2. /\ Shorter(down, down', m) /\ Replaced(operation, operation', m, Idle)
        /\ UNCHANGED <<up, online, memberOf>>
    BY <1>7 DEF OperationDone, OperationRefused, Shorter, Replaced, serverVars, Idle
  <2>3. Replaced(room, room', m, RoomIn(a))
    <3>1. CASE OperationDone(m, a)
      BY <2>1, <3>1 DEF OperationDone, RoomIn, Replaced
    <3>2. CASE OperationRefused(m, a)
      BY <1>1, <2>1, <3>2 DEF OperationRefused, RoomIn, Replaced, AllTotal, Total
    <3> QED
      BY <1>7, <3>1, <3>2
  <2>4. /\ Wires(up, down') /\ down'[m] = Tail(down[m])
        /\ \A n \in Members : n # m => down'[n] = down[n]
    BY <1>1, <1>2, <2>2, WireReads
  <2>5. /\ Total(operation') /\ operation'[m] = Idle
        /\ \A n \in Members : n # m => operation'[n] = operation[n]
    BY <1>1, <2>2, Put DEF AllTotal
  <2>6. /\ Total(room') /\ room'[m] = memberOf[m]
        /\ \A n \in Members : n # m => room'[n] = room[n]
    BY <1>1, <2>1, <2>3, Put DEF AllTotal
  <2>7. Stage(Idle, memberOf[m], memberOf[m], up[m], Tail(down[m]))
    BY <1>3, <2>1, MoveEnds
  <2>8. StageOf(m)'
    BY <2>2, <2>4, <2>5, <2>6, <2>7 DEF StageOf
  <2>9. online[m]
    BY <1>1, <2>1 DEF Idles
  <2>10. OnlyOf(m) /\ AllTotal' /\ Wires(up, down)' /\ Idles(m)'
    BY <1>1, <2>2, <2>4, <2>5, <2>6, <2>9 DEF OnlyOf, AllTotal, Idles
  <2> QED
    BY <2>8, <2>10, OneMoves
<1> QED
  BY <1>2, <1>5, <1>6, <1>7 DEF Receive

\* A connection is lost, and with it the room and all that was under way.
LEMMA LoseStep == \A m \in Members : Inv /\ Lose(m) => Inv'
<1> SUFFICES ASSUME NEW m \in Members, Inv, Lose(m) PROVE Inv'
  OBVIOUS
<1>1. Wires(up, down) /\ AllTotal
  BY DEF Inv, AllTotal
<1>0. \E b : Replaced(online, online', m, b)
  BY Zenon DEF Lose, disconnect, Replaced
<1>2. /\ Replaced(operation, operation', m, Idle)
      /\ Replaced(room, room', m, 0) /\ Replaced(memberOf, memberOf', m, 0)
      /\ Replaced(up, up', m, <<>>) /\ Replaced(down, down', m, <<>>)
  BY DEF Lose, disconnect, roomForgotten, leaveRoom, Replaced, Idle
<1>3. /\ Total(online')
      /\ \A n \in Members : n # m => online'[n] = online[n]
  BY <1>0, <1>1, <1>2, Put DEF AllTotal
<1>4. /\ Total(operation') /\ operation'[m] = Idle
      /\ \A n \in Members : n # m => operation'[n] = operation[n]
  BY <1>1, <1>2, Put DEF AllTotal
<1>5. /\ Total(room') /\ room'[m] = 0
      /\ \A n \in Members : n # m => room'[n] = room[n]
  BY <1>1, <1>2, Put DEF AllTotal
<1>6. /\ Total(memberOf') /\ memberOf'[m] = 0
      /\ \A n \in Members : n # m => memberOf'[n] = memberOf[n]
  BY <1>1, <1>2, Put DEF AllTotal
<1>7. /\ Wires(up', down') /\ up'[m] = <<>> /\ down'[m] = <<>>
      /\ \A n \in Members : n # m => up'[n] = up[n] /\ down'[n] = down[n]
  BY <1>1, <1>2, WireBreaks
<1>8. Stage(Idle, 0, 0, <<>>, <<>>)
  BY DEF Stage, Resting
<1>9. StageOf(m)' /\ Idles(m)'
  BY <1>4, <1>5, <1>6, <1>7, <1>8 DEF StageOf, Idles
<1>10. OnlyOf(m) /\ AllTotal' /\ Wires(up, down)'
  BY <1>3, <1>4, <1>5, <1>6, <1>7 DEF OnlyOf, AllTotal
<1> QED
  BY <1>9, <1>10, OneMoves

\* A connection is made anew.
LEMMA ReadyStep == \A m \in Members : Inv /\ Ready(m) => Inv'
<1> SUFFICES ASSUME NEW m \in Members, Inv, Ready(m) PROVE Inv'
  OBVIOUS
<1>0. \E b : Replaced(online, online', m, b)
  BY Zenon DEF Ready, Replaced
<1>1. UNCHANGED <<operation, room, memberOf, up, down>>
  BY DEF Ready, serverVars
<1>2. Wires(up, down) /\ AllTotal /\ StageOf(m) /\ operation[m] = Idle /\ room[m] = 0
  BY DEF Inv, AllTotal, StageOf, Ready
<1>3. /\ Total(online')
      /\ \A n \in Members : n # m => online'[n] = online[n]
  BY <1>0, <1>1, <1>2, Put DEF AllTotal
<1>4. OnlyOf(m) /\ AllTotal' /\ Wires(up, down)' /\ Idles(m)' /\ StageOf(m)'
  BY <1>1, <1>2, <1>3 DEF OnlyOf, AllTotal, Idles, StageOf
<1> QED
  BY <1>4, OneMoves

\* At first nobody is connected.
LEMMA InitInv == Init => Inv
<1> SUFFICES ASSUME Init PROVE Inv
  OBVIOUS
<1>1. Total(operation) /\ Total(room) /\ Total(memberOf) /\ Total(online)
  BY DEF Init, Total
<1>2. Wires(up, down)
  <2>1. Messages({}) /\ <<>> \in Seq({})
    BY DEF Messages
  <2>2. up \in [Members -> Seq({})] /\ down \in [Members -> Seq({})]
    BY <2>1 DEF Init
  <2> QED
    BY <2>1, <2>2 DEF Wires
<1>3. Stage(Idle, 0, 0, <<>>, <<>>)
  BY DEF Stage, Resting
<1>4. \A m \in Members : /\ operation[m] = Idle /\ room[m] = 0 /\ memberOf[m] = 0
                         /\ up[m] = <<>> /\ down[m] = <<>>
  BY DEF Init, Idle
<1> QED
  BY <1>1, <1>2, <1>3, <1>4 DEF Inv

\* Every step keeps every member in one of its stages.
LEMMA InvStep == Inv /\ [Next]_vars => Inv'
<1> SUFFICES ASSUME Inv, [Next]_vars PROVE Inv'
  OBVIOUS
<1>1. CASE UNCHANGED vars
  BY <1>1, NoneMoves DEF vars, memberVars, serverVars
<1>2. ASSUME NEW m \in Members, NEW n \in Others(m), Deliver(m, n)
      PROVE  Inv'
  <2> DEFINE p == Head(packets[m][n])
  <2>1. n \in Members /\ UNCHANGED <<down, serverVars>>
    BY <1>2 DEF Deliver, Others
  <2>2. CASE HandleState(m, n, p)
    BY <2>1, <2>2, HandleStateStep
  <2>3. CASE HandleInvitation(m, n, p)
    BY <2>1, <2>3, HandleInvitationStep
  <2>4. CASE HandleRequest(m, n, p)
    BY <2>1, <2>4, HandleRequestStep
  <2> QED
    BY <1>2, <2>2, <2>3, <2>4 DEF Deliver
<1>3. ASSUME NEW m \in Members,
             \/ PauseEnds(m)
             \/ RecoverLeave(m) \/ RecoverJoin(m) \/ RecoverCreate(m)
             \/ Serve(m) \/ Receive(m) \/ Lose(m) \/ Ready(m)
      PROVE  Inv'
  BY <1>3, PauseEndsStep, RecoverLeaveStep, RecoverJoinStep, RecoverCreateStep, ServeStep,
     ReceiveStep, LoseStep, ReadyStep
<1> QED
  BY <1>1, <1>2, <1>3 DEF Next

-----------------------------------------------------------------------------
(* The theorems.                                                           *)

\* Every member is at rest, or has one move under way behind all that it asked
\* before: recoverServerRoom starts no second move, and nothing is asked of the
\* server for a room that was left.
THEOREM OneMoveAtATime == Spec => []Inv
<1> QED
  BY InitInv, InvStep, PTL DEF Spec

\* Client and server agree on the client's room but for the move under way, and
\* the server never contradicts the client about it, however often connections
\* are lost (recoverServerRoom, handleRecoveryResponse, handleRecoveryFailure).
THEOREM OneViewAlways == Spec => []OneViewOfRooms
<1>1. Inv => OneViewOfRooms
  <2> SUFFICES ASSUME Inv, NEW m \in Members
               PROVE  /\ Settled(m) => room[m] = memberOf[m] /\ operation[m] = Idle
                      /\ down[m] # <<>> => ~Contradicts(m, Head(down[m]))
    BY DEF OneViewOfRooms, MembershipsAgree, NeverContradicted, Idle
  <2>1. StageOf(m)
    BY DEF Inv, StageOf
  <2>2. PICK S : up[m] \in Seq(S) /\ down[m] \in Seq(S)
    BY WireOf DEF Inv
  <2>3. Len(up[m]) \in Nat /\ Len(down[m]) \in Nat
    BY <2>2
  <2>4. DOMAIN up[m] = 1..Len(up[m]) /\ DOMAIN down[m] = 1..Len(down[m])
    BY <2>2
  <2>5. \A k \in Nat : k # 0 => k \in 1..k
    OBVIOUS
  <2>6. Settled(m) => room[m] = memberOf[m] /\ operation[m] = Idle
    BY <2>1, <2>3, <2>4, <2>5 DEF StageOf, Stage, Resting, Moving, Moved, Settles, Settled
  <2>7. down[m] # <<>> => Grants(Head(down[m])) \/ Settles(Head(down[m]))
    BY <2>1, <2>2, FirstTold DEF StageOf
  <2> QED
    BY <2>6, <2>7 DEF Grants, Settles, Contradicts
<1> QED
  BY <1>1, OneMoveAtATime, PTL
=============================================================================
