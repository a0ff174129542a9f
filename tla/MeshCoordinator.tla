-------------------------- MODULE MeshCoordinator --------------------------
(***************************************************************************)
(* What one peer knows of its mesh: client/src/app/mesh_coordinator.cpp,   *)
(* as operators on a record n with the fields                              *)
(*                                                                         *)
(*   meshed    it has a mesh id: it created a mesh or is joining one       *)
(*   joined    it created the mesh or has had an open link in it           *)
(*   known     the peers of the mesh it knows, itself included             *)
(*   departed  the peers it has forgotten                                  *)
(*   gen       link generation last used towards, or accepted from, a peer *)
(*   retry     the retry entry of a peer; no attempts means no entry       *)
(*                                                                         *)
(* A peer is the number its identity has in the order of identities.       *)
(* Display names are left out.  A retry timer carries a token and does     *)
(* nothing once its entry was erased or renewed, so "scheduled" stands for *)
(* the one timer that still counts.                                        *)
(***************************************************************************)
EXTENDS Integers, FiniteSets

CONSTANTS
  Peers,       \* the users
  MaxPeers,    \* most peers a mesh may have: 6
  RetryDelays  \* retries before the link counts as degraded: 5

ASSUME PeersAssumption ==
  /\ IsFiniteSet(Peers)
  /\ Peers \subseteq Nat \ {0}
  /\ MaxPeers \in Nat \ {0, 1}
  /\ RetryDelays \in Nat

\* Negotiation policy: of two peers the one with the smaller identity calls.
shouldInitiateNegotiation(p, q) == p < q

NoRetry == [attempts |-> 0, scheduled |-> FALSE]

resetRuntime(n) ==
  [n EXCEPT !.known    = {},
            !.departed = {},
            !.gen      = [q \in Peers |-> 0],
            !.retry    = [q \in Peers |-> NoRetry]]

\* Faulty: any mention of a peer brings it back.
Rememberable_Departed(n, q) ==
  /\ n.meshed
  /\ q \in n.known \/ Cardinality(n.known) < MaxPeers

\* Whether rememberPeer takes the peer in.
Rememberable(n, q) ==
  /\ n.meshed
  /\ q \notin n.departed
  /\ q \in n.known \/ Cardinality(n.known) < MaxPeers

rememberPeer(n, q) ==
  IF Rememberable(n, q) THEN [n EXCEPT !.known = @ \cup {q}] ELSE n

create(p, n) ==
  rememberPeer([resetRuntime(n) EXCEPT !.meshed = TRUE, !.joined = TRUE], p)

beginJoin(p, n) ==
  rememberPeer([resetRuntime(n) EXCEPT !.meshed = TRUE, !.joined = FALSE], p)

leave(n) == [resetRuntime(n) EXCEPT !.meshed = FALSE, !.joined = FALSE]

\* forgetPeer for each of the known peers qs.
forgetPeers(n, qs) ==
  [n EXCEPT !.known    = @ \ qs,
            !.retry    = [q \in Peers |-> IF q \in qs THEN NoRetry ELSE @[q]],
            !.departed = @ \cup qs,
            !.gen      = [q \in Peers |-> IF q \in qs THEN 0 ELSE @[q]]]

\* The snapshots a full view takes in: any choice of the new peers that fits.
ingestPeerList(p, n, peers) ==
  LET new  == {q \in peers \ (n.known \cup {p}) : n.meshed /\ q \notin n.departed}
      free == MaxPeers - Cardinality(n.known)
  IN  {[n EXCEPT !.known = @ \cup taken] :
         taken \in {s \in SUBSET new : Cardinality(s) = IF Cardinality(new) <= free
                                                        THEN Cardinality(new) ELSE free}}

\* Faulty: a peer that was tried once is not tried again.
canAttemptLink_Once(n, q) ==
  n.meshed /\ q \in n.known /\ n.retry[q] = NoRetry

canAttemptLink(n, q) ==
  n.meshed /\ q \in n.known /\ ~n.retry[q].scheduled

\* Faulty: a peer that comes back over a direct link stays departed.
connectionOpened_Departed(n, q) ==
  rememberPeer([n EXCEPT !.joined = TRUE, !.retry[q] = NoRetry], q)

connectionOpened(n, q) ==
  rememberPeer([n EXCEPT !.joined = TRUE, !.departed = @ \ {q}, !.retry[q] = NoRetry], q)

degraded(n, q) == n.retry[q].attempts > RetryDelays

\* Attempts beyond the first degraded one are not told apart.
scheduleRetry(n, q) ==
  IF n.meshed /\ q \in n.known /\ ~n.retry[q].scheduled
  THEN [n EXCEPT !.retry[q] = [attempts  |-> IF degraded(n, q) THEN @.attempts
                                             ELSE @.attempts + 1,
                               scheduled |-> TRUE]]
  ELSE n

routeAvailable(n, q) == IF degraded(n, q) THEN [n EXCEPT !.retry[q] = NoRetry] ELSE n

resetRetryBackoff(n) == [n EXCEPT !.retry = [q \in Peers |-> NoRetry]]
=============================================================================
