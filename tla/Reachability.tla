---------------------------- MODULE Reachability ----------------------------
(***************************************************************************)
(* How a member of a mesh finds out whether another one is still within    *)
(* reach (network_session_reachability.cpp, requestRoute and the handlers  *)
(* of route requests and replies, SignalingRouter).                        *)
(*                                                                         *)
(* The Seeker asks for the Sought: a request floods the open links, the    *)
(* answer goes back the way the first copy came.  Every member does so for *)
(* every other, but probes of different pairs have nothing in common.      *)
(* Links open, go, and go unnoticed: a "dead" link is open for its ends    *)
(* and carries nothing.                                                    *)
(*                                                                         *)
(* A unit of time is the period of the timer, a second.  It ends at most   *)
(* once while a request spreads and its answer comes back.  Packet and     *)
(* request identifiers never repeat; here they do once nothing under way   *)
(* bears them.  routes_ is left out: nothing reads it.                     *)
(***************************************************************************)
EXTENDS Integers, FiniteSets

CONSTANTS
  Stations, Seeker, Sought, \* the members of the mesh, and two of them
  NodePairs,      \* the pairs of members that may be linked
  InitialPairs,   \* those that are linked at first
  Ttl,            \* maxPeers
  RequestLife,    \* 5 seconds: until another request may be made
  QuietAfter,     \* 10 seconds: until a peer with an open link is asked for
  LostAfter,      \* 30 seconds: until a peer is forgotten
  MaxLinkChanges  \* bound on the changes of the links

\* A packet may take as many hops as there are members; a request lives longer
\* than its packets, and silence is borne for longer than it takes to ask.
ASSUME ReachAssumption ==
  /\ Seeker \in Stations /\ Sought \in Stations \ {Seeker}
  /\ NodePairs \subseteq {{p, q} : p \in Stations, q \in Stations}
  /\ \A p \in Stations : {p} \notin NodePairs
  /\ IsFiniteSet(Stations) /\ Ttl \in Nat /\ Cardinality(Stations) <= Ttl
  /\ RequestLife \in Nat /\ RequestLife >= 2
  /\ QuietAfter \in Nat \ {0}
  /\ LostAfter \in Nat /\ LostAfter > QuietAfter + 1 /\ LostAfter >= RequestLife + 2

VARIABLES
  reachLinks,    \* pair of peers -> "up", "dead" or "down"
  reachWire,     \* the packets under way
  reachSeen,     \* seenPackets_ of every peer
  reachReverse,  \* reverseRoutes_ of every peer
  reachRequest,  \* routeRequests_ of the seeker: identifier and age, or id 0
  reachSilent,   \* how long the seeker has not heard of the sought
  reachKnown,    \* the sought is among the peers of the seeker
  reachDue,      \* the timer of this second has not fired yet
  reachStable,   \* how long no link has changed and no answer came after the
                 \* next request had been made
  reachChanges

reachVars == <<reachLinks, reachWire, reachSeen, reachReverse, reachRequest, reachSilent,
               reachKnown, reachDue, reachStable, reachChanges>>
probeVars == <<reachSeen, reachReverse>>
timeVars  == <<reachDue, reachStable, reachChanges>>

ProbeIds     == {1, 2}
NoProbe      == [id |-> 0, age |-> 0]
SettledAfter == RequestLife + 3

isOpenTo(p, q) == {p, q} \in NodePairs /\ reachLinks[{p, q}] \in {"up", "dead"}
carries(p, q)  == {p, q} \in NodePairs /\ reachLinks[{p, q}] = "up"
Neighbours(p)  == {q \in Stations \ {p} : isOpenTo(p, q)}

\* What p sends to some of its neighbours: on a dead link it is lost.
Posted(p, qs, packet) == {[from |-> p, to |-> q, packet |-> packet] :
                            q \in {n \in qs : carries(p, n)}}

\* late: the clock has ticked since the request was made.
Probe(kind, id, late) == [kind |-> kind, id |-> id, ttl |-> Ttl, late |-> late]
Forwarded(packet) == [packet EXCEPT !.ttl = @ - 1]
InUse == {mail.packet.id : mail \in reachWire}

\* rememberPacket
unknownTo(p, packet)  == <<packet.kind, packet.id>> \notin reachSeen[p]
noted(seen, p, kinds, id) == [seen EXCEPT ![p] = @ \cup {<<kind, id>> : kind \in kinds}]

\* What is remembered of identifiers that nothing bears any more does not matter.
seenStill == [p \in Stations |-> {seen \in reachSeen[p] : seen[2] \in InUse}]
reverseStill ==
  [p \in Stations |-> [id \in ProbeIds |-> IF id \in InUse THEN reachReverse[p][id] ELSE p]]

\* forgetConnection: no answer goes back the way of a link that is removed.
forgetConnection(reverse, pair) ==
  [p \in Stations |-> [id \in ProbeIds |->
     IF {p, reverse[p][id]} = pair THEN p ELSE reverse[p][id]]]

-----------------------------------------------------------------------------

\* requestRoute, unless a request is alive.
mayAsk   == reachRequest = NoProbe /\ (~isOpenTo(Seeker, Sought) \/ reachSilent >= QuietAfter)
newProbe == CHOOSE id \in ProbeIds : id \notin InUse

requestRoute ==
  IF mayAsk
  THEN /\ reachSeen' = noted(seenStill, Seeker, {"request"}, newProbe)
       /\ reachReverse' = reverseStill
       /\ reachRequest' = [id |-> newProbe, age |-> 0]
       /\ reachWire' = reachWire \cup
            Posted(Seeker, Neighbours(Seeker), Probe("request", newProbe, FALSE))
  ELSE UNCHANGED <<reachSeen, reachReverse, reachRequest, reachWire>>

\* The reachability timer fires, and asks for the sought if need be.
maintainPeerReachability ==
  /\ reachDue /\ reachDue' = FALSE
  /\ ~reachKnown \/ reachSilent < LostAfter
  /\ IF reachKnown THEN requestRoute ELSE UNCHANGED <<reachSeen, reachReverse, reachRequest, reachWire>>
  /\ UNCHANGED <<reachLinks, reachSilent, reachKnown, reachStable, reachChanges>>

\* removeMeshPeer: the sought has been silent too long.  It is forgotten, with its
\* link and what was asked, be it just now.
removeMeshPeer ==
  LET cut   == {Seeker, Sought}
      asked == IF mayAsk THEN Posted(Seeker, Neighbours(Seeker), Probe("request", newProbe, FALSE)) ELSE {}
  IN
  /\ reachDue /\ reachDue' = FALSE
  /\ reachKnown /\ reachSilent >= LostAfter
  /\ reachKnown' = FALSE
  /\ reachRequest' = NoProbe
  /\ reachSeen' = IF mayAsk THEN noted(seenStill, Seeker, {"request"}, newProbe) ELSE reachSeen
  /\ reachReverse' = forgetConnection(IF mayAsk THEN reverseStill ELSE reachReverse, cut)
  /\ reachWire' = {mail \in reachWire \cup asked : {mail.from, mail.to} # cut}
  /\ reachLinks' = [pair \in NodePairs |-> IF pair = cut THEN "down" ELSE reachLinks[pair]]
  /\ UNCHANGED <<reachSilent, reachStable, reachChanges>>

\* Faulty: only an answer makes room for another request.
requestOver_Never == FALSE

requestOver == reachRequest # NoProbe /\ reachRequest.age >= RequestLife

RequestExpires ==
  /\ requestOver
  /\ reachRequest' = NoProbe
  /\ UNCHANGED <<reachLinks, reachWire, reachSilent, reachKnown, probeVars, timeVars>>

-----------------------------------------------------------------------------

\* handleRouteRequest
handleRouteRequest(mail, rest) ==
  LET p == mail.to  packet == mail.packet IN
  IF ~unknownTo(p, packet) THEN reachWire' = rest /\ UNCHANGED probeVars
  ELSE /\ reachReverse' = [reachReverse EXCEPT ![p][packet.id] = mail.from]
       /\ IF p = Sought
          THEN /\ reachSeen' = noted(reachSeen, p, {"request", "reply"}, packet.id)
               /\ reachWire' = rest \cup Posted(p, {mail.from}, Probe("reply", packet.id, packet.late))
          ELSE /\ reachSeen' = noted(reachSeen, p, {"request"}, packet.id)
               /\ reachWire' = rest \cup
                    (IF packet.ttl > 1
                     THEN Posted(p, Neighbours(p) \ {mail.from}, Forwarded(packet))
                     ELSE {})

\* handleRouteReply; an answer to an earlier request says nothing, and makes the
\* one made since forgotten (flushRouted), whose own answer then says nothing either.
handleRouteReply(mail, rest) ==
  LET p == mail.to  packet == mail.packet IN
  IF ~unknownTo(p, packet)
  THEN reachWire' = rest /\ UNCHANGED <<reachRequest, reachSilent, reachStable, probeVars>>
  ELSE /\ reachSeen' = noted(reachSeen, p, {"reply"}, packet.id)
       /\ UNCHANGED reachReverse
       /\ IF p = Seeker
          THEN /\ reachWire' = rest
               /\ reachSilent' = IF reachRequest.id = packet.id /\ reachKnown THEN 0 ELSE reachSilent
               /\ reachStable' = IF reachRequest.id \in {0, packet.id} THEN reachStable ELSE 0
               /\ reachRequest' = NoProbe
          ELSE /\ LET back == reachReverse[p][packet.id] IN
                  reachWire' = rest \cup
                    (IF back \notin {p, mail.from} /\ isOpenTo(p, back) /\ packet.ttl > 1
                     THEN Posted(p, {back}, Forwarded(packet))
                     ELSE {})
               /\ UNCHANGED <<reachRequest, reachSilent, reachStable>>

handleProbe(mail) ==
  LET rest == reachWire \ {mail} IN
  /\ \/ /\ mail.packet.kind = "request"
        /\ handleRouteRequest(mail, rest) /\ UNCHANGED <<reachRequest, reachSilent, reachStable>>
     \/ mail.packet.kind = "reply" /\ handleRouteReply(mail, rest)
  /\ UNCHANGED <<reachLinks, reachKnown, reachDue, reachChanges>>

\* Whatever the sought sends over its own link to the seeker tells that it is there.
notePeerReachable ==
  /\ reachKnown /\ carries(Seeker, Sought)
  /\ reachSilent' = 0
  /\ UNCHANGED <<reachLinks, reachWire, reachRequest, reachKnown, probeVars, timeVars>>

-----------------------------------------------------------------------------

\* A link opens, dies unnoticed, or is removed, with the packets on it.
LinkChanges(pair, to) ==
  /\ reachChanges < MaxLinkChanges /\ reachChanges' = reachChanges + 1
  /\ <<reachLinks[pair], to>> \in {<<"down", "up">>, <<"up", "dead">>, <<"up", "down">>, <<"dead", "down">>}
  /\ reachLinks' = [reachLinks EXCEPT ![pair] = to]
  /\ reachWire' = {mail \in reachWire : {mail.from, mail.to} # pair}
  /\ reachStable' = 0
  /\ IF to = "up" /\ pair = {Seeker, Sought}
     THEN reachKnown' = TRUE /\ reachSilent' = 0
     ELSE UNCHANGED <<reachKnown, reachSilent>>
  /\ reachReverse' = IF to = "down" THEN forgetConnection(reachReverse, pair) ELSE reachReverse
  /\ UNCHANGED <<reachRequest, reachSeen, reachDue>>

ReachTick ==
  /\ ~reachDue /\ ~requestOver
  /\ \A mail \in reachWire : ~mail.packet.late
  /\ reachWire' = {[mail EXCEPT !.packet.late = TRUE] : mail \in reachWire}
  /\ reachDue' = TRUE
  /\ reachSilent' = IF reachSilent < LostAfter THEN reachSilent + 1 ELSE reachSilent
  /\ reachStable' = IF reachStable < SettledAfter THEN reachStable + 1 ELSE reachStable
  /\ reachRequest' = IF reachRequest = NoProbe \/ reachRequest.age = RequestLife
                     THEN reachRequest ELSE [reachRequest EXCEPT !.age = @ + 1]
  /\ reachSeen' = seenStill /\ reachReverse' = reverseStill
  /\ UNCHANGED <<reachLinks, reachKnown, reachChanges>>

ReachInit ==
  /\ reachLinks = [pair \in NodePairs |-> IF pair \in InitialPairs THEN "up" ELSE "down"]
  /\ reachWire = {}
  /\ reachSeen = [p \in Stations |-> {}]
  /\ reachReverse = [p \in Stations |-> [id \in ProbeIds |-> p]]
  /\ reachRequest = NoProbe
  /\ reachSilent = 0
  /\ reachKnown = TRUE
  /\ reachDue = TRUE
  /\ reachStable = 0
  /\ reachChanges = 0

ReachNext ==
  \/ maintainPeerReachability \/ removeMeshPeer
  \/ RequestExpires
  \/ \E mail \in reachWire : handleProbe(mail)
  \/ notePeerReachable
  \/ \E pair \in NodePairs, to \in {"up", "dead", "down"} : LinkChanges(pair, to)
  \/ ReachTick

ReachSpec == ReachInit /\ [][ReachNext]_reachVars

-----------------------------------------------------------------------------

ReachTypeOK ==
  /\ reachLinks \in [NodePairs -> {"up", "dead", "down"}]
  /\ reachSilent \in 0 .. LostAfter
  /\ reachRequest \in [id : ProbeIds \cup {0}, age : 0 .. RequestLife]
  /\ reachReverse \in [Stations -> [ProbeIds -> Stations]]
  /\ reachStable \in 0 .. SettledAfter

\* Links that carry packets lead from the seeker to the sought.
Reaches ==
  \A near \in SUBSET Stations : Seeker \in near /\ Sought \notin near =>
    \E pair \in NodePairs : reachLinks[pair] = "up" /\ pair \cap near # {} /\ pair \ near # {}

\* What the seeker believes of the sought is true in time, both ways
\* (maintainPeerReachability, requestRoute, handleRouteReply).  Nobody is about to be
\* forgotten who has been within reach, over links that did not change, for as long
\* as a request lives and three periods of the timer, however the requests before
\* went astray.  And who has been out of reach is missed for nearly as long: no
\* answer under way when the links went makes the seeker believe in it later.
ReachIsKnown ==
  /\ ReachTypeOK
  /\ reachKnown /\ reachStable = SettledAfter =>
       IF Reaches THEN reachSilent < LostAfter ELSE reachSilent >= SettledAfter - 1
=============================================================================
