------------------------ MODULE SignalingServerProofs ------------------------
(***************************************************************************)
(* Theorems about the rooms of the signaling server, for any number of     *)
(* sessions, rooms, peer ids and tokens and any limits.                    *)
(*                                                                         *)
(* Every step of the server changes the registry in one of five ways       *)
(* (StepShapes): a room is opened, a session joins, a member leaves, an    *)
(* invitation is issued, or at most invitations expire.  The invariants    *)
(* are proved over these five, whatever the delivery loop is doing.        *)
(***************************************************************************)
EXTENDS SignalingServer, FiniteSetTheorems, SequenceTheorems, TLAPS

\* The registry changes at most by expiry.
QuietStep ==
  /\ invitations' \in {invitations, expireInvitations}
  /\ now' \in {now, now + 1}
  /\ UNCHANGED <<memberships, rooms, peers, issued, uses>>

OpenStep  == \E s \in Sessions, r \in RoomIds, p \in PeerIds : RoomCreate(s, r, p)
JoinStep  == \E s \in Sessions, r \in RoomIds, t \in Tokens, p \in PeerIds : RoomJoin(s, r, t, p)
IssueStep == \E s \in Sessions, r \in RoomIds, t \in Tokens : CreateInvitation(s, r, t)
LeaveStep == \E s \in Sessions : Leave(s, invitations) \/ Leave(s, expireInvitations)

\* The registry part of the type invariant.
RegistryTypeOK ==
  /\ memberships \in [Sessions -> Membership \cup {None}]
  /\ rooms \in SUBSET RoomIds
  /\ peers \in [RoomIds -> [PeerIds -> Sessions \cup {None}]]
  /\ invitations \in [RoomIds -> [Tokens -> Invitation \cup {None}]]
  /\ now \in Nat
  /\ issued \in SUBSET Tokens
  /\ uses \in [Tokens -> Nat]

\* Every step of the server, whichever handler runs, changes the registry in
\* one of the five ways.
LEMMA StepShapes ==
  ASSUME [Next]_allVars, open \in SUBSET Sessions
  PROVE  QuietStep \/ OpenStep \/ JoinStep \/ IssueStep \/ LeaveStep
PROOF
<1> USE DEF QuietStep, OpenStep, JoinStep, IssueStep, LeaveStep
<1>1. CASE UNCHANGED allVars
  BY <1>1 DEF allVars, vars, roomVars
<1>2. CASE \E s \in Sessions : registerClient(s)
  BY <1>2 DEF registerClient, vars, roomVars
<1>3. ASSUME NEW s \in Sessions, handle(s)
      PROVE  QuietStep \/ OpenStep \/ JoinStep \/ IssueStep \/ LeaveStep
  <2>1. CASE \E code : Fail(s, code)
    BY <2>1 DEF Fail
  <2>2. CASE \E r \in RoomIds, p \in PeerIds : SignalSend(s, r, p)
    BY <2>2 DEF SignalSend
  <2>3. CASE \E r \in RoomIds, t \in Tokens : InviteCreate(s, r, t)
    BY <2>3 DEF InviteCreate
  <2>4. CASE \E r \in RoomIds : RoomLeave(s, r)
    BY <2>4 DEF RoomLeave
  <2>5. QED
    BY <1>3, <2>1, <2>2, <2>3, <2>4
       DEF handle, RoomCreateRefused, RoomJoinRefused, HasPlace, InviteCreateRefused, NotAMemberOf,
           SignalSendRefused
<1>4. ASSUME NEW s, NEW queue, removeClient(s, queue)
      PROVE  QuietStep \/ Leave(s, invitations)
  BY <1>4 DEF removeClient, Enqueue, roomVars
<1>5. CASE \E s \in Sessions : Drop(s)
  BY <1>5, <1>4 DEF Drop
<1>6. CASE maintainConnections \/ Tick
  BY <1>6 DEF maintainConnections, Tick
<1>7. CASE deliver
  <2>1. CASE SendSucceeds
    BY <2>1 DEF SendSucceeds, roomVars
  <2>2. CASE SendFails
    <3> DEFINE m == Head(Head(pending))
    <3>1. QuietStep \/ (m.to \in open /\ Leave(m.to, invitations))
      BY <2>2, <1>4 DEF SendFails, Unsent, roomVars
    <3>2. QED
      BY <3>1 DEF QuietStep, LeaveStep
  <2>3. QED
    BY <1>7, <2>1, <2>2 DEF deliver
<1>8. QED
  BY <1>1, <1>2, <1>3, <1>5, <1>6, <1>7 DEF Next, receive

-----------------------------------------------------------------------------
(* The inductive invariant of the registry.                                *)

\* A token in force was handed out, has admitted nobody, and is in force in
\* one room only; a token that was never handed out has admitted nobody.
TokensFresh ==
  /\ \A t \in Tokens : uses[t] # 0 => t \in issued
  /\ \A r \in RoomIds, t \in Tokens : invitations[r][t] # None => t \in issued /\ uses[t] = 0
  /\ \A r, q \in RoomIds, t \in Tokens :
       invitations[r][t] # None /\ invitations[q][t] # None => r = q

RegistryInv ==
  /\ RegistryTypeOK
  /\ IndexesAgree
  /\ RoomsAreOccupied
  /\ IssuersArePresent
  /\ TokensFresh
  /\ TokensAdmitOnce

InvitationMap == [RoomIds -> [Tokens -> Invitation \cup {None}]]

\* expireInvitations only ever takes invitations out.
LEMMA ExpiryOnlyRemoves ==
  ASSUME invitations \in InvitationMap
  PROVE  /\ expireInvitations \in InvitationMap
         /\ \A r \in RoomIds, t \in Tokens :
              expireInvitations[r][t] \in {None, invitations[r][t]}
BY DEF expireInvitations, InvitationMap

\* A step that at most expires invitations keeps the invariant.
LEMMA QuietPreserves == RegistryInv /\ QuietStep => RegistryInv'
PROOF
<1> SUFFICES ASSUME RegistryInv, QuietStep
             PROVE  RegistryInv'
  OBVIOUS
<1> USE DEF RegistryInv, RegistryTypeOK, QuietStep
<1>1. /\ invitations' \in InvitationMap
      /\ \A r \in RoomIds, t \in Tokens : invitations'[r][t] \in {None, invitations[r][t]}
  BY ExpiryOnlyRemoves DEF InvitationMap
<1>2. RegistryTypeOK'
  BY <1>1 DEF InvitationMap
<1>3. IndexesAgree' /\ RoomsAreOccupied'
  BY DEF IndexesAgree, RoomsAreOccupied, Members, IsMember
<1>4. IssuersArePresent' /\ TokensFresh' /\ TokensAdmitOnce'
  BY <1>1 DEF IssuersArePresent, TokensFresh, TokensAdmitOnce
<1>5. QED
  BY <1>2, <1>3, <1>4

\* room.create keeps the invariant: the room is new, so it has no member and no
\* invitation that could be mistaken for the new ones.
LEMMA OpenPreserves ==
  ASSUME RegistryInv, NEW s \in Sessions, NEW r \in RoomIds, NEW p \in PeerIds,
         RoomCreate(s, r, p)
  PROVE  RegistryInv'
PROOF
<1> USE DEF RegistryInv, RegistryTypeOK
<1> DEFINE member == [roomId |-> r, peerId |-> p]
<1>1. /\ memberships[s] = None
      /\ r \notin rooms
      /\ rooms' = rooms \cup {r}
      /\ memberships' = [memberships EXCEPT ![s] = member]
      /\ peers' = [peers EXCEPT ![r] = [NoPeers EXCEPT ![p] = s]]
      /\ invitations' = [expireInvitations EXCEPT ![r] = NoInvitations]
      /\ UNCHANGED <<now, issued, uses>>
  BY DEF RoomCreate, IsMember
<1>2. NoPeers \in [PeerIds -> Sessions \cup {None}] /\ NoInvitations \in [Tokens -> Invitation \cup {None}]
  BY DEF NoPeers, NoInvitations
<1>3. /\ invitations' \in InvitationMap
      /\ \A q \in RoomIds, t \in Tokens :
           invitations'[q][t] # None => q # r /\ invitations'[q][t] = invitations[q][t]
  BY <1>1, <1>2, ExpiryOnlyRemoves DEF InvitationMap, NoInvitations
<1>4. member \in Membership
  BY DEF Membership
<1>5. RegistryTypeOK'
  BY <1>1, <1>2, <1>3, <1>4 DEF InvitationMap
<1>6. \A q \in RoomIds, o \in PeerIds :
        peers'[q][o] = IF q = r THEN (IF o = p THEN s ELSE None) ELSE peers[q][o]
  BY <1>1, <1>2 DEF NoPeers
<1>7. \A o \in PeerIds : peers[r][o] = None
  BY <1>1 DEF RoomsAreOccupied, Members
<1>8. IndexesAgree'
  <2> SUFFICES ASSUME NEW u \in Sessions, NEW q \in RoomIds, NEW o \in PeerIds
               PROVE  peers'[q][o] = u <=>
                        (memberships'[u] # None /\ memberships'[u] = [roomId |-> q, peerId |-> o])
    BY DEF IndexesAgree, IsMember
  <2>1. CASE u = s
    BY <2>1, <1>1, <1>4, <1>6, NoneAssumption DEF IndexesAgree, IsMember, Membership
  <2>2. CASE u # s
    BY <2>2, <1>1, <1>6, <1>7, NoneAssumption DEF IndexesAgree, IsMember, Membership
  <2>3. QED
    BY <2>1, <2>2
<1>9. RoomsAreOccupied'
  BY <1>1, <1>6, NoneAssumption DEF RoomsAreOccupied, Members
<1>10. IssuersArePresent' /\ TokensFresh' /\ TokensAdmitOnce'
  BY <1>1, <1>3, <1>6 DEF IssuersArePresent, TokensFresh, TokensAdmitOnce
<1>11. QED
  BY <1>5, <1>8, <1>9, <1>10

\* room.join keeps the invariant: the token it spends leaves the map in the same
\* step that counts its use.
LEMMA JoinPreserves ==
  ASSUME RegistryInv, NEW s \in Sessions, NEW r \in RoomIds, NEW t \in Tokens,
         NEW p \in PeerIds, RoomJoin(s, r, t, p)
  PROVE  RegistryInv'
PROOF
<1> USE DEF RegistryInv, RegistryTypeOK
<1> DEFINE member == [roomId |-> r, peerId |-> p]
<1>1. /\ memberships[s] = None
      /\ r \in rooms
      /\ expireInvitations[r][t] # None
      /\ peers[r][p] = None
      /\ memberships' = [memberships EXCEPT ![s] = member]
      /\ peers' = [peers EXCEPT ![r][p] = s]
      /\ invitations' = [expireInvitations EXCEPT ![r][t] = None]
      /\ uses' = [uses EXCEPT ![t] = @ + 1]
      /\ UNCHANGED <<rooms, now, issued>>
  BY DEF RoomJoin, HasPlace, Consumed, IsMember, Honoured, Members
<1>2. /\ invitations' \in InvitationMap
      /\ \A q \in RoomIds, u \in Tokens :
           invitations'[q][u] # None =>
             (q # r \/ u # t) /\ invitations'[q][u] = invitations[q][u]
  BY <1>1, ExpiryOnlyRemoves DEF InvitationMap
<1>3. member \in Membership
  BY DEF Membership
<1>4. uses' \in [Tokens -> Nat]
  BY <1>1
<1>5. RegistryTypeOK'
  BY <1>1, <1>2, <1>3, <1>4 DEF InvitationMap
<1>6. \A q \in RoomIds, o \in PeerIds :
        peers'[q][o] = IF q = r /\ o = p THEN s ELSE peers[q][o]
  BY <1>1
<1>7. IndexesAgree'
  <2> SUFFICES ASSUME NEW u \in Sessions, NEW q \in RoomIds, NEW o \in PeerIds
               PROVE  peers'[q][o] = u <=>
                        (memberships'[u] # None /\ memberships'[u] = [roomId |-> q, peerId |-> o])
    BY DEF IndexesAgree, IsMember
  <2>1. CASE u = s
    BY <2>1, <1>1, <1>3, <1>6, NoneAssumption DEF IndexesAgree, IsMember, Membership
  <2>2. CASE u # s
    BY <2>2, <1>1, <1>6, NoneAssumption DEF IndexesAgree, IsMember, Membership
  <2>3. QED
    BY <2>1, <2>2
<1>8. RoomsAreOccupied'
  BY <1>1, <1>6, NoneAssumption DEF RoomsAreOccupied, Members
<1>9. IssuersArePresent'
  BY <1>1, <1>2, <1>6, NoneAssumption DEF IssuersArePresent
<1>10. invitations[r][t] # None
  BY <1>1, ExpiryOnlyRemoves DEF InvitationMap
<1>11. TokensFresh' /\ TokensAdmitOnce'
  BY <1>1, <1>2, <1>10 DEF TokensFresh, TokensAdmitOnce
<1>12. QED
  BY <1>5, <1>7, <1>8, <1>9, <1>11

\* invite.create keeps the invariant: the issuer is a member of the room now, and
\* the token has never been handed out.
LEMMA IssuePreserves ==
  ASSUME RegistryInv, NEW s \in Sessions, NEW r \in RoomIds, NEW t \in Tokens,
         CreateInvitation(s, r, t)
  PROVE  RegistryInv'
PROOF
<1> USE DEF RegistryInv, RegistryTypeOK
<1> DEFINE invitation == [issuerPeerId |-> memberships[s].peerId,
                          expiresAt    |-> now + InvitationLifetime]
<1>1. /\ memberships[s] \in Membership
      /\ memberships[s].roomId = r
      /\ t \notin issued
      /\ invitations' = [expireInvitations EXCEPT ![r][t] = invitation]
      /\ issued' = issued \cup {t}
      /\ UNCHANGED <<memberships, rooms, peers, now, uses>>
  BY DEF CreateInvitation, InRoom, IsMember
<1>2. invitation \in Invitation
  BY <1>1, LimitAssumption DEF Invitation, Membership
<1>3. /\ invitations' \in InvitationMap
      /\ \A q \in RoomIds, u \in Tokens :
           \/ q = r /\ u = t /\ invitations'[q][u] = invitation
           \/ invitations'[q][u] \in {None, invitations[q][u]}
  BY <1>1, <1>2, ExpiryOnlyRemoves DEF InvitationMap
<1>4. peers[r][invitation.issuerPeerId] = s
  <2>1. /\ memberships[s] # None
        /\ memberships[s] = [roomId |-> r, peerId |-> memberships[s].peerId]
        /\ memberships[s].peerId \in PeerIds
    BY <1>1, NoneAssumption DEF Membership
  <2>2. QED
    BY <2>1 DEF IndexesAgree, IsMember
<1>5. RegistryTypeOK'
  BY <1>1, <1>3 DEF InvitationMap
<1>6. IndexesAgree' /\ RoomsAreOccupied'
  BY <1>1 DEF IndexesAgree, RoomsAreOccupied, Members, IsMember
<1>7. IssuersArePresent'
  BY <1>1, <1>3, <1>4, NoneAssumption DEF IssuersArePresent
<1>8. TokensFresh' /\ TokensAdmitOnce'
  BY <1>1, <1>3 DEF TokensFresh, TokensAdmitOnce
<1>9. QED
  BY <1>5, <1>6, <1>7, <1>8

\* leave keeps the invariant, from a request or from a closing socket: the peer id
\* that is freed issued none of the invitations that stay.
LEMMA LeavePreserves ==
  ASSUME RegistryInv, NEW s \in Sessions, NEW kept \in InvitationMap, Leave(s, kept),
         NEW r \in RoomIds, NEW p \in PeerIds, memberships[s] = [roomId |-> r, peerId |-> p],
         \A q \in RoomIds, u \in Tokens : kept[q][u] \in {None, invitations[q][u]}
  PROVE  RegistryInv'
PROOF
<1> USE DEF RegistryInv, RegistryTypeOK
<1> DEFINE left == [peers[r] EXCEPT ![p] = None]
<1>1. /\ memberships' = [memberships EXCEPT ![s] = None]
      /\ rooms' = IF SessionsOf(left) = {} THEN rooms \ {r} ELSE rooms
      /\ peers' = [peers EXCEPT ![r] = left]
      /\ UNCHANGED <<now, issued, uses>>
  BY DEF Leave, MembershipsWithout, WithoutIssuer
<1>2. peers[r][p] = s
  BY DEF IndexesAgree, Leave, MembershipsWithout, WithoutIssuer
<1>3. /\ invitations' \in InvitationMap
      /\ \A q \in RoomIds, u \in Tokens :
           invitations'[q][u] # None =>
             /\ invitations'[q][u] = invitations[q][u]
             /\ q = r => invitations'[q][u].issuerPeerId # p
  BY <1>1 DEF Leave, MembershipsWithout, WithoutIssuer, InvitationMap
<1>4. \A q \in RoomIds, o \in PeerIds :
        peers'[q][o] = IF q = r /\ o = p THEN None ELSE peers[q][o]
  BY <1>1
<1>5. RegistryTypeOK'
  BY <1>1, <1>3 DEF InvitationMap
<1>6. IndexesAgree'
  <2> SUFFICES ASSUME NEW u \in Sessions, NEW q \in RoomIds, NEW o \in PeerIds
               PROVE  peers'[q][o] = u <=>
                        (memberships'[u] # None /\ memberships'[u] = [roomId |-> q, peerId |-> o])
    BY DEF IndexesAgree, IsMember
  <2>1. CASE u = s
    BY <2>1, <1>1, <1>2, <1>4, NoneAssumption DEF IndexesAgree, IsMember, Membership
  <2>2. CASE u # s
    BY <2>2, <1>1, <1>2, <1>4, NoneAssumption DEF IndexesAgree, IsMember, Membership
  <2>3. QED
    BY <2>1, <2>2
<1>7. RoomsAreOccupied'
  <2>1. SessionsOf(left) = {} <=> \A o \in PeerIds : left[o] = None
    <3> HIDE DEF left
    <3> QED
      BY DEF SessionsOf
  <2>2. left = peers'[r]
    BY <1>1
  <2>3. r \in rooms
    BY <1>1, <1>2, NoneAssumption DEF RoomsAreOccupied, Members
  <2>4. rooms' = IF Members(r)' = {} THEN rooms \ {r} ELSE rooms
    <3>1. Members(r)' = {} <=> \A o \in PeerIds : peers'[r][o] = None
      BY DEF Members
    <3>2. QED
      BY <1>1, <2>1, <2>2, <3>1
  <2>5. \A q \in RoomIds : q # r => Members(q)' = Members(q)
    BY <1>1 DEF Members
  <2>6. QED
    BY <1>1, <2>3, <2>4, <2>5 DEF RoomsAreOccupied
<1>8. IssuersArePresent'
  <2>1. \A q \in RoomIds, u \in Tokens :
          invitations[q][u] # None => invitations[q][u].issuerPeerId \in PeerIds
    BY DEF Invitation
  <2>2. QED
    BY <1>3, <1>4, <2>1 DEF IssuersArePresent
<1>9. TokensFresh' /\ TokensAdmitOnce'
  BY <1>1, <1>3 DEF TokensFresh, TokensAdmitOnce
<1>10. QED
  BY <1>5, <1>6, <1>7, <1>8, <1>9

\* The five cases together.
LEMMA RegistryPreserved ==
  ASSUME RegistryInv, open \in SUBSET Sessions, [Next]_allVars
  PROVE  RegistryInv'
PROOF
<1>2. CASE QuietStep
  BY <1>2, QuietPreserves
<1>3. CASE OpenStep
  BY <1>3, OpenPreserves DEF OpenStep
<1>4. CASE JoinStep
  BY <1>4, JoinPreserves DEF JoinStep
<1>5. CASE IssueStep
  BY <1>5, IssuePreserves DEF IssueStep
<1>6. ASSUME NEW s \in Sessions, NEW kept \in {invitations, expireInvitations}, Leave(s, kept)
      PROVE  RegistryInv'
  <2>1. /\ kept \in InvitationMap
        /\ \A q \in RoomIds, u \in Tokens : kept[q][u] \in {None, invitations[q][u]}
    BY ExpiryOnlyRemoves DEF RegistryInv, RegistryTypeOK, InvitationMap
  <2>2. memberships[s] \in Membership
    BY <1>6 DEF Leave, MembershipsWithout, WithoutIssuer, IsMember, RegistryInv, RegistryTypeOK
  <2>3. PICK r \in RoomIds, p \in PeerIds : memberships[s] = [roomId |-> r, peerId |-> p]
    BY <2>2 DEF Membership
  <2>4. QED
    BY <1>6, <2>1, <2>3, LeavePreserves
<1>7. CASE LeaveStep
  BY <1>6, <1>7 DEF LeaveStep
<1>8. QED
  BY StepShapes, <1>2, <1>3, <1>4, <1>5, <1>7

-----------------------------------------------------------------------------
(* A room never holds more than its capacity.                              *)

\* Only room.join makes a room grow, and it looks at the capacity first.
LEMMA CapacityPreserved ==
  ASSUME RegistryInv, WithinCapacity, open \in SUBSET Sessions, [Next]_allVars
  PROVE  WithinCapacity'
PROOF
<1> USE DEF RegistryInv, RegistryTypeOK
<1> SUFFICES ASSUME NEW q \in RoomIds
             PROVE  Cardinality(Members(q)') <= RoomCapacity
  BY DEF WithinCapacity
<1>1. /\ IsFiniteSet(Members(q))
      /\ Cardinality(Members(q)) \in Nat
      /\ Cardinality(Members(q)) <= RoomCapacity
  BY FinitePeerIds, FS_Subset, FS_CardinalityType DEF Members, WithinCapacity
<1>2. ASSUME Members(q)' \subseteq Members(q)
      PROVE  Cardinality(Members(q)') <= RoomCapacity
  <2>1. Cardinality(Members(q)') <= Cardinality(Members(q)) /\ Cardinality(Members(q)') \in Nat
    BY <1>1, <1>2, FS_Subset, FS_CardinalityType
  <2>2. QED
    BY <1>1, <2>1, LimitAssumption
<1>3. CASE QuietStep \/ IssueStep
  <2>1. Members(q)' = Members(q)
    BY <1>3 DEF QuietStep, IssueStep, CreateInvitation, Members
  <2>2. QED
    BY <1>2, <2>1
<1>4. CASE OpenStep
  <2>1. PICK s \in Sessions, r \in RoomIds, p \in PeerIds : RoomCreate(s, r, p)
    BY <1>4 DEF OpenStep
  <2>2. peers' = [peers EXCEPT ![r] = [NoPeers EXCEPT ![p] = s]]
    BY <2>1 DEF RoomCreate
  <2>3. CASE q = r
    <3>1. Members(q)' = {p}
      BY <2>2, <2>3, NoneAssumption DEF Members, NoPeers
    <3>2. Cardinality(Members(q)') = 1
      BY <3>1, FS_Singleton
    <3>3. QED
      BY <3>2, LimitAssumption
  <2>4. CASE q # r
    BY <2>2, <2>4, <1>2 DEF Members
  <2>5. QED
    BY <2>3, <2>4
<1>5. CASE JoinStep
  <2>1. PICK s \in Sessions, r \in RoomIds, t \in Tokens, p \in PeerIds : RoomJoin(s, r, t, p)
    BY <1>5 DEF JoinStep
  <2>2. peers' = [peers EXCEPT ![r][p] = s]
    BY <2>1 DEF RoomJoin, HasPlace, Consumed
  <2>3. CASE q = r
    <3>1. Members(q)' = Members(q) \cup {p} /\ p \notin Members(q)
      BY <2>1, <2>2, <2>3, NoneAssumption DEF Members, RoomJoin, HasPlace, Consumed
    <3>2. Cardinality(Members(q)) < RoomCapacity
      BY <2>1, <2>3 DEF RoomJoin, HasPlace, Consumed
    <3>3. Cardinality(Members(q) \cup {p}) = Cardinality(Members(q)) + 1
      BY <1>1, <3>1, FS_AddElement
    <3>4. Cardinality(Members(q)') = Cardinality(Members(q)) + 1
      BY <3>1, <3>3
    <3>5. QED
      BY <1>1, <3>2, <3>4, LimitAssumption
  <2>4. CASE q # r
    BY <2>2, <2>4, <1>2 DEF Members
  <2>5. QED
    BY <2>3, <2>4
<1>6. CASE LeaveStep
  <2>1. PICK s \in Sessions : Leave(s, invitations) \/ Leave(s, expireInvitations)
    BY <1>6 DEF LeaveStep
  <2>2. peers' = [peers EXCEPT ![memberships[s].roomId] =
                    [peers[memberships[s].roomId] EXCEPT ![memberships[s].peerId] = None]]
    BY <2>1 DEF Leave, MembershipsWithout, WithoutIssuer
  <2>3. QED
    BY <2>2, <1>2 DEF Members
<1>7. QED
  BY StepShapes, <1>3, <1>4, <1>5, <1>6

-----------------------------------------------------------------------------
(* Sockets: a member always has an open one.                               *)

SocketsInv == open \in SUBSET Sessions /\ MembersAreOpen

\* A session is a member only while its socket is open: joining takes an open
\* socket, and closing one leaves the room in the same step.
LEMMA SocketsPreserved ==
  ASSUME RegistryInv, SocketsInv, [Next]_allVars
  PROVE  SocketsInv'
PROOF
<1> USE DEF SocketsInv, MembersAreOpen, IsMember
<1>0. DOMAIN memberships = Sessions
  BY DEF RegistryInv, RegistryTypeOK
<1>1. CASE UNCHANGED allVars
  BY <1>1 DEF allVars, vars, roomVars, serverVars
<1>2. CASE \E s \in Sessions : registerClient(s)
  BY <1>2 DEF registerClient, vars, roomVars
<1>3. ASSUME NEW s \in Sessions, receive(s)
      PROVE  SocketsInv'
  <2>1. s \in open /\ open' = open
    BY <1>3 DEF receive, serverVars
  <2>2. \A u \in Sessions \ {s} : memberships'[u] = memberships[u]
    BY <1>0, <1>3 DEF receive, handle, Fail, RoomCreateRefused, RoomCreate, RoomJoinRefused,
      HasPlace,
           RoomJoin, Consumed, InviteCreateRefused, InviteCreate, CreateInvitation, NotAMemberOf, RoomLeave,
           Leave, MembershipsWithout, WithoutIssuer, SignalSendRefused, SignalSend
  <2>3. QED
    BY <2>1, <2>2
<1>4. ASSUME NEW s \in Sessions, NEW queue, removeClient(s, queue)
      PROVE  SocketsInv'
  <2>1. open' = open \ {s}
    BY <1>4 DEF removeClient, Enqueue
  <2>2. memberships'[s] = None /\ \A u \in Sessions \ {s} : memberships'[u] = memberships[u]
    BY <1>0, <1>4 DEF removeClient, Enqueue, Leave, MembershipsWithout, WithoutIssuer, roomVars
  <2>3. QED
    BY <2>1, <2>2
<1>5. CASE \E s \in Sessions : Drop(s)
  BY <1>4, <1>5 DEF Drop
<1>6. CASE maintainConnections \/ Tick
  BY <1>6 DEF maintainConnections, Tick, serverVars
<1>7. CASE SendSucceeds
  BY <1>7 DEF SendSucceeds, roomVars
<1>8. CASE SendFails
  <2> DEFINE m == Head(Head(pending))
  <2>1. CASE UNCHANGED <<roomVars, open>>
    BY <2>1 DEF roomVars
  <2>2. CASE m.to \in open /\ removeClient(m.to, Popped)
    BY <1>4, <2>2
  <2>3. QED
    BY <1>8, <2>1, <2>2 DEF SendFails, Unsent
<1>9. QED
  BY <1>1, <1>2, <1>3, <1>5, <1>6, <1>7, <1>8 DEF Next, deliver

-----------------------------------------------------------------------------
(* The theorems.                                                           *)

RoomsInv == RegistryInv /\ WithinCapacity /\ SocketsInv

\* The server starts with nobody in a room.
LEMMA InitialRooms == ServerInit => RoomsInv
PROOF
<1> SUFFICES ASSUME ServerInit
             PROVE  RoomsInv
  OBVIOUS
<1> USE DEF ServerInit, RegistryInit
<1>1. RegistryTypeOK
  BY DEF RegistryTypeOK, NoPeers, NoInvitations
<1>2. IndexesAgree /\ IssuersArePresent
  BY NoneAssumption DEF IndexesAgree, IssuersArePresent, IsMember, NoPeers, NoInvitations
<1>3. \A r \in RoomIds : Members(r) = {}
  BY DEF Members, NoPeers
<1>4. TokensFresh /\ TokensAdmitOnce
  BY DEF TokensFresh, TokensAdmitOnce, NoInvitations
<1>5. RoomsAreOccupied /\ WithinCapacity
  <2>1. \A r \in RoomIds : Cardinality(Members(r)) = 0
    BY <1>3, FS_EmptySet
  <2>2. QED
    BY <1>3, <2>1, LimitAssumption DEF RoomsAreOccupied, WithinCapacity
<1>6. SocketsInv
  BY DEF SocketsInv, MembersAreOpen, IsMember
<1>7. QED
  BY <1>1, <1>2, <1>4, <1>5, <1>6 DEF RoomsInv, RegistryInv

\* Whatever clients do and whichever sends fail, the registry's two indexes
\* agree, rooms are never empty or over capacity, members have sockets and
\* invitations have issuers in the room.
THEOREM RoomsAlwaysSound == Spec => []RoomsInv
PROOF
<1>1. ServerInit => RoomsInv
  BY InitialRooms
<1>2. RoomsInv /\ [Next]_allVars => RoomsInv'
  BY RegistryPreserved, CapacityPreserved, SocketsPreserved DEF RoomsInv, SocketsInv
<1>3. QED
  BY <1>1, <1>2, PTL DEF Spec

\* An invitation token admits at most one session (room.join of handle()).
THEOREM OneUse == Spec => []TokensAdmitOnce
BY RoomsAlwaysSound, PTL DEF RoomsInv, RegistryInv

\* memberships_ and rooms_ never disagree about who is where, and a room lives
\* exactly as long as somebody is in it.
THEOREM IndexesAlwaysAgree == Spec => [](IndexesAgree /\ RoomsAreOccupied)
BY RoomsAlwaysSound, PTL DEF RoomsInv, RegistryInv

\* The invitations of a member who left are gone (leave()).
THEOREM IssuersAlwaysPresent == Spec => []IssuersArePresent
BY RoomsAlwaysSound, PTL DEF RoomsInv, RegistryInv

\* No interleaving of joins, leaves and disconnects overfills a room.
THEOREM NeverOverfull == Spec => []WithinCapacity
BY RoomsAlwaysSound, PTL DEF RoomsInv

\* A socket that closes, in mid-delivery too, leaves no member behind.
THEOREM NoGhostMembers == Spec => []MembersAreOpen
BY RoomsAlwaysSound, PTL DEF RoomsInv, SocketsInv

-----------------------------------------------------------------------------
(* The server implements Admission: one abstract step for each of the five *)
(* kinds of step.                                                          *)

\* What the cases share: a session without a membership is in no room of the
\* abstract state, and an invitation in force is one of its tickets.
LEMMA SharedFacts ==
  ASSUME RegistryInv
  PROVE  /\ \A s \in Sessions : ~IsMember(s) => A!Elsewhere(s)
         /\ \A r \in RoomIds, t \in Tokens :
              invitations[r][t] # None =>
                [token |-> t, room |-> r, host |-> peers[r][invitations[r][t].issuerPeerId]]
                  \in TicketsInForce
PROOF
<1> USE DEF RegistryInv, RegistryTypeOK
<1>1. ASSUME NEW s \in Sessions, ~IsMember(s), NEW r \in RoomIds
      PROVE  s \notin GuestLists[r]
  BY <1>1 DEF GuestLists, SessionsOf, IndexesAgree
<1>2. ASSUME NEW r \in RoomIds, NEW t \in Tokens, invitations[r][t] # None
      PROVE  [token |-> t, room |-> r, host |-> peers[r][invitations[r][t].issuerPeerId]]
               \in TicketsInForce
  <2>1. invitations[r][t] \in Invitation
    BY <1>2
  <2>2. peers[r][invitations[r][t].issuerPeerId] \in Sessions
    BY <1>2, <2>1 DEF IssuersArePresent, Invitation
  <2>3. QED
    BY <1>2, <2>2 DEF TicketsInForce
<1>3. QED
  BY <1>1, <1>2 DEF A!Elsewhere

\* Expiry is a lapse of tickets.
LEMMA QuietLapses ==
  ASSUME RegistryInv, QuietStep
  PROVE  A!Lapse
PROOF
<1>1. \A r \in RoomIds, t \in Tokens : invitations'[r][t] \in {None, invitations[r][t]}
  BY ExpiryOnlyRemoves DEF RegistryInv, RegistryTypeOK, QuietStep, InvitationMap
<1>2. TicketsInForce' \subseteq TicketsInForce
  BY <1>1 DEF TicketsInForce, QuietStep
<1>3. GuestLists' = GuestLists /\ issued' = issued
  BY DEF GuestLists, QuietStep
<1>4. QED
  BY <1>2, <1>3 DEF A!Lapse, A!TicketsFrom

\* room.create opens an empty room for its creator.
LEMMA OpenOpens ==
  ASSUME RegistryInv, NEW s \in Sessions, NEW r \in RoomIds, NEW p \in PeerIds,
         RoomCreate(s, r, p)
  PROVE  A!Open(s, r)
PROOF
<1> USE DEF RegistryInv, RegistryTypeOK
<1>1. /\ ~IsMember(s)
      /\ r \notin rooms
      /\ peers' = [peers EXCEPT ![r] = [NoPeers EXCEPT ![p] = s]]
      /\ invitations' = [expireInvitations EXCEPT ![r] = NoInvitations]
      /\ issued' = issued
  BY DEF RoomCreate
<1>2. \A o \in PeerIds : peers'[r][o] = IF o = p THEN s ELSE None
  BY <1>1 DEF NoPeers
<1>3. \A q \in RoomIds : q # r => peers'[q] = peers[q]
  BY <1>1
<1>4. SessionsOf(peers[r]) = {} /\ SessionsOf(peers'[r]) = {s}
  BY <1>1, <1>2, NoneAssumption DEF SessionsOf, RoomsAreOccupied, Members
<1>5. GuestLists[r] = {} /\ GuestLists' = [GuestLists EXCEPT ![r] = {s}]
  BY <1>1, <1>3, <1>4 DEF GuestLists
<1>6. \A q \in RoomIds, t \in Tokens :
        invitations'[q][t] # None => q # r /\ invitations'[q][t] = invitations[q][t]
  BY <1>1, ExpiryOnlyRemoves DEF InvitationMap, NoInvitations
<1>7. TicketsInForce' \subseteq TicketsInForce
  BY <1>3, <1>6 DEF TicketsInForce
<1>8. QED
  BY <1>1, <1>5, <1>7, SharedFacts DEF A!Open, A!TicketsFrom

\* room.join lets its session in on the ticket of its token.
LEMMA JoinEnters ==
  ASSUME RegistryInv, NEW s \in Sessions, NEW r \in RoomIds, NEW t \in Tokens,
         NEW p \in PeerIds, RoomJoin(s, r, t, p)
  PROVE  \E k \in TicketsInForce : A!Enter(s, k)
PROOF
<1> USE DEF RegistryInv, RegistryTypeOK
<1> DEFINE k == [token |-> t, room |-> r, host |-> peers[r][invitations[r][t].issuerPeerId]]
<1>1. /\ ~IsMember(s)
      /\ expireInvitations[r][t] # None
      /\ Cardinality(Members(r)) < RoomCapacity
      /\ peers[r][p] = None
      /\ peers' = [peers EXCEPT ![r][p] = s]
      /\ invitations' = [expireInvitations EXCEPT ![r][t] = None]
      /\ issued' = issued
  BY DEF RoomJoin, HasPlace, Consumed, Honoured, Members
<1>2. invitations[r][t] # None
  BY <1>1, ExpiryOnlyRemoves DEF InvitationMap
<1>3. k \in TicketsInForce
  BY <1>2, SharedFacts
<1>4. Cardinality(GuestLists[r]) < RoomCapacity
  <2> DEFINE f == [o \in Members(r) |-> peers[r][o]]
  <2>1. IsFiniteSet(Members(r)) /\ Cardinality(Members(r)) \in Nat
    BY FinitePeerIds, FS_Subset, FS_CardinalityType DEF Members
  <2>2. f \in Surjection(Members(r), SessionsOf(peers[r]))
    BY DEF Surjection, Members, SessionsOf
  <2>3. /\ IsFiniteSet(SessionsOf(peers[r]))
        /\ Cardinality(SessionsOf(peers[r])) <= Cardinality(Members(r))
    <3> HIDE DEF f
    <3> QED
      BY <2>1, <2>2, FS_Surjection
  <2>4. Cardinality(SessionsOf(peers[r])) \in Nat
    BY <2>3, FS_CardinalityType
  <2>5. QED
    BY <1>1, <2>1, <2>3, <2>4, LimitAssumption DEF GuestLists
<1>5. SessionsOf(peers'[r]) = SessionsOf(peers[r]) \cup {s}
  <2>1. \A o \in PeerIds : peers'[r][o] = IF o = p THEN s ELSE peers[r][o]
    BY <1>1
  <2>2. QED
    BY <1>1, <2>1, NoneAssumption DEF SessionsOf
<1>6. GuestLists' = [GuestLists EXCEPT ![r] = GuestLists[r] \cup {s}]
  BY <1>1, <1>5 DEF GuestLists
<1>7. TicketsInForce' \subseteq TicketsInForce \ {k}
  <2>1. \A q \in RoomIds, u \in Tokens :
          invitations'[q][u] # None =>
            (q # r \/ u # t) /\ invitations'[q][u] = invitations[q][u]
    BY <1>1, ExpiryOnlyRemoves DEF InvitationMap
  <2>2. \A q \in RoomIds, o \in PeerIds : peers[q][o] # None => peers'[q][o] = peers[q][o]
    BY <1>1
  <2>3. \A q \in RoomIds, u \in Tokens :
          invitations[q][u] # None =>
            /\ invitations[q][u].issuerPeerId \in PeerIds
            /\ peers[q][invitations[q][u].issuerPeerId] # None
    BY DEF IssuersArePresent, Invitation
  <2>4. QED
    BY <2>1, <2>2, <2>3 DEF TicketsInForce
<1>8. A!Enter(s, k)
  <2>1. k.room = r /\ A!Elsewhere(s)
    BY <1>1, SharedFacts
  <2> HIDE DEF k
  <2>2. GuestLists' = [GuestLists EXCEPT ![k.room] = GuestLists[k.room] \cup {s}]
    BY <1>6, <2>1
  <2>3. Cardinality(GuestLists[k.room]) < RoomCapacity
    BY <1>4, <2>1
  <2>4. A!TicketsFrom(TicketsInForce \ {k})
    BY <1>7 DEF A!TicketsFrom
  <2>5. issued' = issued
    BY <1>1
  <2>6. QED
    BY <1>3, <2>1, <2>2, <2>3, <2>4, <2>5 DEF A!Enter, A!Cardinality, Cardinality
<1>9. QED
  BY <1>3, <1>8

\* invite.create issues a ticket in the name of a guest.
LEMMA IssueIssues ==
  ASSUME RegistryInv, NEW s \in Sessions, NEW r \in RoomIds, NEW t \in Tokens,
         CreateInvitation(s, r, t)
  PROVE  A!Issue(s, r, t)
PROOF
<1> USE DEF RegistryInv, RegistryTypeOK
<1> DEFINE p == memberships[s].peerId
           k == [token |-> t, room |-> r, host |-> s]
<1>1. /\ memberships[s] \in Membership
      /\ memberships[s].roomId = r
      /\ t \notin issued
      /\ invitations' = [expireInvitations EXCEPT
                           ![r][t] = [issuerPeerId |-> p, expiresAt |-> now + InvitationLifetime]]
      /\ issued' = issued \cup {t}
      /\ peers' = peers
  BY DEF CreateInvitation, InRoom, IsMember
<1>2. p \in PeerIds /\ peers[r][p] = s
  <2>1. /\ memberships[s] # None
        /\ memberships[s] = [roomId |-> r, peerId |-> p]
        /\ p \in PeerIds
    BY <1>1, NoneAssumption DEF Membership
  <2>2. QED
    BY <2>1 DEF IndexesAgree, IsMember
<1>3. s \in GuestLists[r] /\ GuestLists' = GuestLists
  BY <1>1, <1>2, NoneAssumption DEF GuestLists, SessionsOf
<1>4. \A q \in RoomIds, u \in Tokens :
        \/ q = r /\ u = t /\ invitations'[q][u].issuerPeerId = p
        \/ invitations'[q][u] \in {None, invitations[q][u]}
  BY <1>1, ExpiryOnlyRemoves DEF InvitationMap
<1>5. TicketsInForce' \subseteq TicketsInForce \cup {k}
  <2> SUFFICES ASSUME NEW j \in TicketsInForce'
               PROVE  j \in TicketsInForce \cup {k}
    OBVIOUS
  <2>1. /\ j \in [token : Tokens, room : RoomIds, host : Sessions]
        /\ invitations'[j.room][j.token] # None
        /\ j.host = peers[j.room][invitations'[j.room][j.token].issuerPeerId]
    BY <1>1 DEF TicketsInForce
  <2>2. CASE invitations'[j.room][j.token] = invitations[j.room][j.token]
    BY <2>1, <2>2 DEF TicketsInForce
  <2>3. CASE /\ j.room = r /\ j.token = t
             /\ invitations'[j.room][j.token].issuerPeerId = p
    BY <2>1, <2>3, <1>2
  <2>4. QED
    BY <1>4, <2>1, <2>2, <2>3
<1>6. QED
  BY <1>1, <1>3, <1>5 DEF A!Issue, A!TicketsFrom

\* leave ends the stay of a guest and the tickets it hosts.
LEMMA LeaveLeaves ==
  ASSUME RegistryInv, NEW s \in Sessions, NEW kept \in InvitationMap, Leave(s, kept),
         NEW r \in RoomIds, NEW p \in PeerIds, memberships[s] = [roomId |-> r, peerId |-> p],
         \A q \in RoomIds, u \in Tokens : kept[q][u] \in {None, invitations[q][u]}
  PROVE  A!Leave(s, r)
PROOF
<1> USE DEF RegistryInv, RegistryTypeOK
<1>1. /\ IsMember(s)
      /\ peers' = [peers EXCEPT ![r] = [peers[r] EXCEPT ![p] = None]]
      /\ issued' = issued
  BY DEF Leave, MembershipsWithout, WithoutIssuer
<1>2. \A q \in RoomIds, o \in PeerIds : peers[q][o] = s <=> q = r /\ o = p
  BY <1>1 DEF IndexesAgree
<1>3. SessionsOf(peers'[r]) = SessionsOf(peers[r]) \ {s}
  <2>1. \A o \in PeerIds : peers'[r][o] = IF o = p THEN None ELSE peers[r][o]
    BY <1>1
  <2>2. peers[r][p] = s /\ \A o \in PeerIds : peers[r][o] = s => o = p
    BY <1>2
  <2>3. QED
    BY <2>1, <2>2 DEF SessionsOf
<1>4. s \in GuestLists[r] /\ GuestLists' = [GuestLists EXCEPT ![r] = GuestLists[r] \ {s}]
  <2>1. s \in GuestLists[r]
    BY <1>2, NoneAssumption DEF GuestLists, SessionsOf
  <2>2. \A q \in RoomIds : q # r => peers'[q] = peers[q]
    BY <1>1
  <2>3. QED
    BY <1>3, <2>1, <2>2 DEF GuestLists
<1>5. \A q \in RoomIds, u \in Tokens :
        invitations'[q][u] # None =>
          /\ invitations'[q][u] = invitations[q][u]
          /\ q = r => invitations'[q][u].issuerPeerId # p
  BY DEF Leave, MembershipsWithout, WithoutIssuer, InvitationMap
<1>6. TicketsInForce' \subseteq {k \in TicketsInForce : k.host # s}
  <2> SUFFICES ASSUME NEW j \in TicketsInForce'
               PROVE  j \in TicketsInForce /\ j.host # s
    OBVIOUS
  <2> DEFINE i == invitations[j.room][j.token].issuerPeerId
  <2>1. /\ j \in [token : Tokens, room : RoomIds, host : Sessions]
        /\ invitations'[j.room][j.token] # None
        /\ j.host = peers'[j.room][invitations'[j.room][j.token].issuerPeerId]
    BY DEF TicketsInForce
  <2>2. /\ invitations'[j.room][j.token] = invitations[j.room][j.token]
        /\ i \in PeerIds
        /\ j.room = r => i # p
    BY <1>5, <2>1 DEF Invitation
  <2>3. peers'[j.room][i] = peers[j.room][i]
    BY <1>1, <2>1, <2>2
  <2>4. invitations[j.room][j.token] # None /\ j.host = peers[j.room][i]
    BY <2>1, <2>2, <2>3
  <2>5. j \in TicketsInForce
    BY <2>1, <2>4 DEF TicketsInForce
  <2>6. j.room \in RoomIds
    BY <2>1
  <2>7. j.host # s
    BY <1>2, <2>2, <2>4, <2>6
  <2>8. QED
    BY <2>5, <2>7
<1>7. QED
  BY <1>4, <1>6, <1>1 DEF A!Leave, A!TicketsFrom

\* The server implements one-use admission (Admission.tla), for any number of
\* sessions, rooms and tokens.
THEOREM RoomsRefineAdmission == Spec => RoomsImplementAdmission
PROOF
<1>1. ServerInit => A!Init
  <2> SUFFICES ASSUME ServerInit
               PROVE  A!Init
    OBVIOUS
  <2>1. GuestLists = [r \in RoomIds |-> {}]
    BY DEF ServerInit, RegistryInit, GuestLists, SessionsOf, NoPeers
  <2>2. TicketsInForce = {} /\ issued = {}
    BY DEF ServerInit, RegistryInit, TicketsInForce, NoInvitations
  <2>3. QED
    BY <2>1, <2>2 DEF A!Init
<1>2. RoomsInv /\ [Next]_allVars => [A!Next]_A!vars
  <2> SUFFICES ASSUME RoomsInv, [Next]_allVars
               PROVE  A!Next
    OBVIOUS
  <2>1. RegistryInv /\ open \in SUBSET Sessions
    BY DEF RoomsInv, SocketsInv
  <2>2. CASE QuietStep
    BY <2>1, <2>2, QuietLapses DEF A!Next
  <2>3. CASE OpenStep
    BY <2>1, <2>3, OpenOpens DEF OpenStep, A!Next
  <2>4. CASE JoinStep
    BY <2>1, <2>4, JoinEnters DEF JoinStep, A!Next
  <2>5. CASE IssueStep
    BY <2>1, <2>5, IssueIssues DEF IssueStep, A!Next
  <2>6. CASE LeaveStep
    <3>1. PICK s \in Sessions, kept \in {invitations, expireInvitations} : Leave(s, kept)
      BY <2>6 DEF LeaveStep
    <3>2. /\ kept \in InvitationMap
          /\ \A q \in RoomIds, u \in Tokens : kept[q][u] \in {None, invitations[q][u]}
      BY <2>1, ExpiryOnlyRemoves DEF RegistryInv, RegistryTypeOK, InvitationMap
    <3>3. memberships[s] \in Membership
      BY <2>1, <3>1 DEF Leave, MembershipsWithout, WithoutIssuer, IsMember, RegistryInv,
        RegistryTypeOK
    <3>4. PICK r \in RoomIds, p \in PeerIds : memberships[s] = [roomId |-> r, peerId |-> p]
      BY <3>3 DEF Membership
    <3>5. A!Leave(s, r)
      BY <2>1, <3>1, <3>2, <3>4, LeaveLeaves
    <3>6. QED
      BY <3>5 DEF A!Next
  <2>7. QED
    BY <2>1, <2>2, <2>3, <2>4, <2>5, <2>6, StepShapes
<1>3. QED
  BY <1>1, <1>2, RoomsAlwaysSound, PTL DEF Spec, RoomsImplementAdmission, A!Spec

-----------------------------------------------------------------------------
(* The type invariant, the delivery queue included.                        *)

Batches   == Seq(Deliveries) \ {<<>>}
PendingOK == pending \in Seq(Batches)

TransportTypeOK ==
  /\ PendingOK
  /\ open \in SUBSET Sessions
  /\ relayFailed \in BOOLEAN
  /\ told \in [Sessions -> SUBSET PeerIds]
  /\ reached \in BOOLEAN

\* enqueue keeps the queue a sequence of batches that are not empty.
LEMMA QueueGrows ==
  ASSUME NEW queue \in Seq(Batches), NEW batch \in Seq(Deliveries)
  PROVE  (IF batch = <<>> THEN queue ELSE Append(queue, batch)) \in Seq(Batches)
BY DEF Batches

\* The same for the batch that a request returns.
LEMMA ReturnTyped ==
  ASSUME PendingOK, NEW batch \in Seq(Deliveries), Return(batch)
  PROVE  PendingOK'
BY QueueGrows DEF PendingOK, Return

\* The messages the registry builds are deliveries.
LEMMA MessagesTyped ==
  /\ \A s \in Sessions : \A type \in {"room.created", "room.left", "invite.created",
                                     "signal.received", "signal.accepted"} :
       Reply(s, type) \in Deliveries
  /\ \A s \in Sessions, p \in PeerIds, ps \in SUBSET PeerIds : Joined(s, p, ps) \in Deliveries
  /\ \A s \in Sessions, p \in PeerIds :
       PeerJoined(s, p) \in Deliveries /\ PeerLeft(s, p) \in Deliveries
  /\ \A s \in Sessions : \A code \in {"busy", "resource_limit", "invalid_invitation", "room_full",
                                     "not_in_room", "room_mismatch", "invalid_target",
                                     "peer_not_found"} :
       Error(s, code) \in Deliveries
BY DEF Reply, Joined, PeerJoined, PeerLeft, Error, Deliveries

\* The recipients of a broadcast, in whatever order, are a sequence of sessions.
LEMMA OrdersTyped ==
  ASSUME NEW roomPeers \in [PeerIds -> Sessions \cup {None}],
         NEW order \in SetToSeqs(SessionsOf(roomPeers))
  PROVE  order \in Seq(Sessions)
PROOF
<1> DEFINE all == {roomPeers[p] : p \in PeerIds}
           f   == [p \in PeerIds |-> roomPeers[p]]
<1>1. f \in Surjection(PeerIds, all)
  BY DEF Surjection
<1>2. IsFiniteSet(all)
  <2> HIDE DEF f, all
  <2> QED
    BY <1>1, FinitePeerIds, FS_Surjection
<1>3. SessionsOf(roomPeers) \in SUBSET all /\ SessionsOf(roomPeers) \subseteq Sessions
  BY DEF SessionsOf
<1>4. Cardinality(SessionsOf(roomPeers)) \in Nat
  <2> HIDE DEF all
  <2> QED
    BY <1>2, <1>3, FS_Subset, FS_CardinalityType
<1>5. order \in [1 .. Cardinality(SessionsOf(roomPeers)) -> SessionsOf(roomPeers)]
  BY DEF SetToSeqs
<1>6. QED
  BY <1>3, <1>4, <1>5

\* A broadcast to a sequence of sessions is a batch.
LEMMA BroadcastTyped ==
  ASSUME NEW order \in Seq(Sessions), NEW p \in PeerIds
  PROVE  /\ [i \in DOMAIN order |-> PeerJoined(order[i], p)] \in Seq(Deliveries)
         /\ [i \in DOMAIN order |-> PeerLeft(order[i], p)] \in Seq(Deliveries)
PROOF
<1>1. DOMAIN order = 1 .. Len(order) /\ Len(order) \in Nat
  BY LenProperties
<1>2. \A i \in DOMAIN order : order[i] \in Sessions
  BY <1>1, ElementOfSeq
<1>3. \A i \in DOMAIN order :
        PeerJoined(order[i], p) \in Deliveries /\ PeerLeft(order[i], p) \in Deliveries
  BY <1>2, MessagesTyped
<1>4. QED
  BY <1>1, <1>3

\* What leave returns is a batch.
LEMMA LeaveEventsTyped ==
  ASSUME RegistryTypeOK, NEW s \in Sessions, IsMember(s), NEW events \in LeaveEvents(s)
  PROVE  events \in Seq(Deliveries)
PROOF
<1>1. memberships[s] \in Membership
  BY DEF RegistryTypeOK, IsMember
<1>2. PICK r \in RoomIds, p \in PeerIds : memberships[s] = [roomId |-> r, peerId |-> p]
  BY <1>1 DEF Membership
<1>3. [peers[r] EXCEPT ![p] = None] \in [PeerIds -> Sessions \cup {None}]
  BY DEF RegistryTypeOK
<1>4. PICK order \in SetToSeqs(SessionsOf([peers[r] EXCEPT ![p] = None])) :
        events = [i \in DOMAIN order |-> PeerLeft(order[i], p)]
  BY <1>2 DEF LeaveEvents
<1>5. QED
  BY <1>3, <1>4, OrdersTyped, BroadcastTyped

\* Every request leaves a queue of batches.
LEMMA HandleTyped ==
  ASSUME RegistryTypeOK, PendingOK, NEW s \in Sessions, handle(s)
  PROVE  PendingOK'
PROOF
<1>1. ASSUME NEW code \in {"busy", "resource_limit", "invalid_invitation", "room_full",
                           "not_in_room", "room_mismatch", "invalid_target", "peer_not_found"},
             Fail(s, code)
      PROVE  PendingOK'
  <2>1. <<Error(s, code)>> \in Seq(Deliveries)
    BY MessagesTyped
  <2>2. QED
    BY <1>1, <2>1, ReturnTyped DEF Fail
<1>2. ASSUME NEW r \in RoomIds, NEW p \in PeerIds, RoomCreate(s, r, p)
      PROVE  PendingOK'
  <2>1. <<Reply(s, "room.created")>> \in Seq(Deliveries)
    BY MessagesTyped
  <2>2. QED
    BY <1>2, <2>1, ReturnTyped DEF RoomCreate
<1>3. ASSUME NEW r \in RoomIds, NEW t \in Tokens, NEW p \in PeerIds, RoomJoin(s, r, t, p)
      PROVE  PendingOK'
  <2>1. PICK order \in SetToSeqs(SessionsOf(peers[r])) :
          Return(<<Joined(s, p, Members(r))>> \o [i \in DOMAIN order |-> PeerJoined(order[i], p)])
    BY <1>3 DEF RoomJoin, HasPlace, Consumed
  <2>2. order \in Seq(Sessions)
    BY OrdersTyped DEF RegistryTypeOK
  <2>3. <<Joined(s, p, Members(r))>> \in Seq(Deliveries)
    BY MessagesTyped DEF Members
  <2>4. <<Joined(s, p, Members(r))>> \o [i \in DOMAIN order |-> PeerJoined(order[i], p)]
          \in Seq(Deliveries)
    BY <2>2, <2>3, BroadcastTyped, ConcatProperties
  <2>5. QED
    BY <2>1, <2>4, ReturnTyped
<1>4. ASSUME NEW r \in RoomIds, NEW t \in Tokens, InviteCreate(s, r, t)
      PROVE  PendingOK'
  <2>1. <<Reply(s, "invite.created")>> \in Seq(Deliveries)
    BY MessagesTyped
  <2>2. QED
    BY <1>4, <2>1, ReturnTyped DEF InviteCreate
<1>5. ASSUME NEW r \in RoomIds, RoomLeave(s, r)
      PROVE  PendingOK'
  <2>1. PICK events \in LeaveEvents(s) : Return(<<Reply(s, "room.left")>> \o events)
    BY <1>5 DEF RoomLeave
  <2>2. events \in Seq(Deliveries)
    BY <1>5, LeaveEventsTyped DEF RoomLeave, InRoom
  <2>3. <<Reply(s, "room.left")>> \in Seq(Deliveries)
    BY MessagesTyped
  <2>4. <<Reply(s, "room.left")>> \o events \in Seq(Deliveries)
    BY <2>2, <2>3, ConcatProperties
  <2>5. QED
    BY <2>1, <2>4, ReturnTyped
<1>6. ASSUME NEW r \in RoomIds, NEW p \in PeerIds, SignalSend(s, r, p)
      PROVE  PendingOK'
  <2>1. peers[r][p] \in Sessions
    BY <1>6 DEF SignalSend, RegistryTypeOK
  <2>2. Reply(peers[r][p], "signal.received") \in Deliveries /\ Reply(s, "signal.accepted") \in Deliveries
    BY <2>1, MessagesTyped
  <2>3. <<Reply(peers[r][p], "signal.received"), Reply(s, "signal.accepted")>> \in Seq(Deliveries)
    BY <2>2
  <2>4. QED
    BY <1>6, <2>3, ReturnTyped DEF SignalSend
<1>7. QED
  BY <1>1, <1>2, <1>3, <1>4, <1>5, <1>6
     DEF handle, RoomCreateRefused, RoomJoinRefused, HasPlace, InviteCreateRefused, NotAMemberOf,
         SignalSendRefused

\* Taking one delivery off the queue leaves a queue of batches.
LEMMA PoppedTyped ==
  ASSUME PendingOK, ~Idle
  PROVE  /\ Head(Head(pending)) \in Deliveries
         /\ Popped \in Seq(Batches)
PROOF
<1>1. Head(pending) \in Batches /\ Tail(pending) \in Seq(Batches)
  BY HeadTailProperties DEF PendingOK, Idle
<1>2. Head(pending) \in Seq(Deliveries) /\ Head(pending) # <<>>
  BY <1>1 DEF Batches
<1>3. /\ Head(Head(pending)) \in Deliveries
      /\ Tail(Head(pending)) \in Seq(Deliveries)
      /\ Len(Tail(Head(pending))) = Len(Head(pending)) - 1
  BY <1>2, HeadTailProperties
<1>4. CASE Len(Head(pending)) = 1
  BY <1>1, <1>3, <1>4 DEF Popped
<1>5. CASE Len(Head(pending)) # 1
  <2>1. Tail(Head(pending)) # <<>>
    <3>1. Len(Head(pending)) \in Nat
      BY <1>2, LenProperties
    <3>2. Len(Tail(Head(pending))) # 0
      BY <1>3, <1>5, <3>1
    <3>3. Len(<< >>) = 0
      BY EmptySeq
    <3>4. QED
      BY <3>2, <3>3, Zenon
  <2>2. <<Tail(Head(pending))>> \in Seq(Batches)
    BY <1>3, <2>1 DEF Batches
  <2>3. <<Tail(Head(pending))>> \o Tail(pending) \in Seq(Batches)
    BY <1>1, <2>2, ConcatProperties
  <2>4. QED
    BY <1>3, <1>5, <2>3 DEF Popped
<1>6. QED
  BY <1>4, <1>5

\* Closing a client leaves a queue of batches, whatever it found queued.
LEMMA RemoveClientTyped ==
  ASSUME RegistryTypeOK, TransportTypeOK, NEW s \in Sessions, NEW queue \in Seq(Batches),
         removeClient(s, queue)
  PROVE  /\ PendingOK'
         /\ open' \in SUBSET Sessions
         /\ told' \in [Sessions -> SUBSET PeerIds]
PROOF
<1>1. open' = open \ {s} /\ told' = [told EXCEPT ![s] = {}]
  BY DEF removeClient, Enqueue
<1>2. PendingOK'
  <2>1. CASE pending' = queue
    BY <2>1 DEF PendingOK
  <2>2. CASE pending' # queue
    <3>1. PICK events \in LeaveEvents(s) :
            pending' = IF events = <<>> THEN queue ELSE Append(queue, events)
      BY <2>2 DEF removeClient, Enqueue
    <3>2. events \in Seq(Deliveries)
      BY <2>2, LeaveEventsTyped DEF removeClient, Enqueue, Leave, MembershipsWithout,
        WithoutIssuer
    <3>3. QED
      BY <3>1, <3>2, QueueGrows DEF PendingOK
  <2>3. QED
    BY <2>1, <2>2
<1>3. QED
  BY <1>1, <1>2 DEF TransportTypeOK

\* Every step keeps the types of the transport.
LEMMA TransportPreserved ==
  ASSUME RegistryTypeOK, TransportTypeOK, [Next]_allVars
  PROVE  TransportTypeOK'
PROOF
<1> USE DEF TransportTypeOK
<1>1. CASE UNCHANGED allVars
  BY <1>1 DEF allVars, vars, serverVars, PendingOK
<1>2. CASE \E s \in Sessions : registerClient(s)
  BY <1>2 DEF registerClient, vars, PendingOK
<1>3. CASE \E s \in Sessions : receive(s)
  BY <1>3, HandleTyped DEF receive, serverVars
<1>4. CASE \E s \in Sessions : Drop(s)
  BY <1>4, RemoveClientTyped DEF Drop, PendingOK
<1>5. CASE maintainConnections \/ Tick
  BY <1>5 DEF maintainConnections, Tick, serverVars, PendingOK
<1>6. CASE SendSucceeds
  <2> DEFINE d == Head(Head(pending))
             m == Outgoing(d)
  <2>1. d \in Deliveries /\ Popped \in Seq(Batches)
    BY <1>6, PoppedTyped DEF SendSucceeds
  <2>2. m = d \/ m = Error(d.to, "recipient_unavailable")
    BY DEF Outgoing
  <2>3. m.to \in Sessions
    BY <1>6 DEF SendSucceeds
  <2>4. Knows(m) \subseteq PeerIds
    <3>1. CASE m = d
      BY <2>1, <2>3, <3>1 DEF Knows, Deliveries
    <3>2. CASE m = Error(d.to, "recipient_unavailable")
      BY <2>3, <3>2 DEF Knows, Error
    <3>3. QED
      BY <2>2, <3>1, <3>2
  <2>5. QED
    BY <1>6, <2>1, <2>3, <2>4 DEF SendSucceeds, PendingOK
<1>7. CASE SendFails
  <2> DEFINE d == Head(Head(pending))
  <2>1. d \in Deliveries /\ Popped \in Seq(Batches)
    BY <1>7, PoppedTyped DEF SendFails, Unsent
  <2>2. relayFailed' \in BOOLEAN /\ reached' \in BOOLEAN
    BY <1>7 DEF SendFails, Unsent
  <2>3. CASE pending' = Popped /\ UNCHANGED <<roomVars, open, told>>
    BY <2>1, <2>2, <2>3 DEF PendingOK
  <2>4. CASE d.to \in open /\ removeClient(d.to, Popped)
    BY <2>1, <2>2, <2>4, RemoveClientTyped
  <2>5. QED
    BY <1>7, <2>3, <2>4 DEF SendFails, Unsent
<1>8. QED
  BY <1>1, <1>2, <1>3, <1>4, <1>5, <1>6, <1>7 DEF Next, deliver

\* Every variable keeps its type, the queue of half-sent batches included.
THEOREM TypeCorrect == Spec => []TypeOK
PROOF
<1>1. ServerInit => TransportTypeOK
  BY EmptySeq DEF ServerInit, RegistryInit, TransportTypeOK, PendingOK
<1>2. RoomsInv /\ TransportTypeOK /\ [Next]_allVars => TransportTypeOK'
  BY TransportPreserved DEF RoomsInv, RegistryInv
<1>3. RoomsInv /\ TransportTypeOK => TypeOK
  BY DEF RoomsInv, RegistryInv, RegistryTypeOK, TransportTypeOK, TypeOK, PendingOK, Batches
<1>4. QED
  BY <1>1, <1>2, <1>3, RoomsAlwaysSound, PTL DEF Spec

\* The rooms are sound however large the server is: indexes, sockets, capacity
\* and invitations fit in every state, a half-sent batch included.
THEOREM RoomsSound == Spec => []RoomsAreSound
PROOF
<1>1. RoomsInv /\ TypeOK => RoomsAreSound
  BY DEF RoomsInv, RegistryInv, SocketsInv, RoomsAreSound
<1>2. QED
  BY <1>1, RoomsAlwaysSound, TypeCorrect, PTL

-----------------------------------------------------------------------------
(* What the clients are told.                                              *)

\* The delivery queue q, batch by batch: after the first batch, which may be
\* the answer to a request, there are only the farewells of those who were
\* closed meanwhile.
LaterAreFarewells(q) ==
  \A b \in 1..Len(q) : b > 1 => \A k \in 1..Len(q[b]) : q[b][k].type = "peer.left"

\* The first batch f: an answer, who joined or who left, or a signal and its verdict.
FirstBatch(f) ==
  /\ \A k \in 1..Len(f) : k > 1 => f[k].type \in {"peer.joined", "peer.left", "signal.accepted"}
  /\ \A j, k \in 1..Len(f) : f[j].type = "peer.joined" => f[k].type # "peer.left"
  /\ \A k \in 1..Len(f) : Verdict(f[k]) => k = Len(f) /\ (k > 1 => k = 2 /\ Relay(f[1]))
  /\ Relay(f[1]) => Len(f) = 2 /\ Verdict(f[2])

\* Nobody is told the same thing twice.
ToldOnce(q) ==
  \A b, c \in 1..Len(q) : \A k \in 1..Len(q[b]), j \in 1..Len(q[c]) :
    q[b][k] = q[c][j] /\ q[b][k].type \in {"peer.joined", "peer.left"} => b = c /\ k = j

Orderly(q) == LaterAreFarewells(q) /\ (q # <<>> => FirstBatch(q[1])) /\ ToldOnce(q)

\* The message m is in the queue.
Queued(q, m) == \E b \in 1..Len(q) : \E k \in 1..Len(q[b]) : q[b][k] = m

\* Who is in the room of s besides it.
Mates(s) ==
  IF IsMember(s) THEN Members(memberships[s].roomId) \ {memberships[s].peerId} ELSE {}

\* What s knows once it has had the answer the queue q may start with.
Answer(m) == m.type \in {"room.joined", "room.created", "room.left"}
Answered(q, s) ==
  IF q # <<>> /\ Head(Head(q)).to = s /\ Answer(Head(Head(q)))
  THEN Knows(Head(Head(q))) ELSE told[s]

\* The news on its way to s makes up what s does not know of its room yet, and
\* contradicts neither what it knows nor itself.
ToldInTheEnd(q, s) ==
  \A p \in PeerIds :
    /\ p \in Mates(s) <=> /\ p \in Answered(q, s) \/ Queued(q, PeerJoined(s, p))
                          /\ ~Queued(q, PeerLeft(s, p))
    /\ Queued(q, PeerLeft(s, p)) => p \in Answered(q, s) \/ Queued(q, PeerJoined(s, p))
    /\ Queued(q, PeerJoined(s, p)) => p \notin Answered(q, s)

\* The verdict follows its signal, whose fate is known by then.
FateKnown ==
  /\ relayFailed \/ reached => ~Idle /\ Verdict(Head(Head(pending)))
  /\ ~Idle /\ Verdict(Head(Head(pending))) => (relayFailed <=> ~reached)

ToldInv ==
  /\ Orderly(pending)
  /\ \A s \in open : ToldInTheEnd(pending, s)
  /\ \A s \in Sessions : s \notin open => told[s] = {}
  /\ FateKnown

\* The queue without its first delivery.
PoppedOf(q) ==
  IF Len(Head(q)) = 1 THEN Tail(q) ELSE <<Tail(Head(q))>> \o Tail(q)

\* Where the deliveries of a queue are once the first is taken: in the batches
\* that follow it, or in the rest of its own batch and the batches that follow.
LEMMA PoppedAt ==
  ASSUME NEW q \in Seq(Batches), q # <<>>
  PROVE  /\ Len(q) \in Nat \ {0} /\ Head(q) = q[1] /\ Len(q[1]) \in Nat \ {0}
         /\ Head(Head(q)) = q[1][1]
         /\ PoppedOf(q) \in Seq(Batches)
         /\ \A b \in 1..Len(q) : q[b] \in Seq(Deliveries) /\ Len(q[b]) \in Nat \ {0}
         /\ Len(q[1]) = 1 =>
              /\ Len(PoppedOf(q)) = Len(q) - 1
              /\ \A b \in 1..Len(q) - 1 : PoppedOf(q)[b] = q[b + 1]
         /\ Len(q[1]) # 1 =>
              /\ Len(PoppedOf(q)) = Len(q)
              /\ Len(PoppedOf(q)[1]) = Len(q[1]) - 1
              /\ \A k \in 1..Len(q[1]) - 1 : PoppedOf(q)[1][k] = q[1][k + 1]
              /\ \A b \in 2..Len(q) : PoppedOf(q)[b] = q[b]
PROOF
<1>1. Len(q) \in Nat \ {0} /\ Head(q) = q[1] /\ q[1] \in Batches
  OBVIOUS
<1>2. \A b \in 1..Len(q) : q[b] \in Batches
  OBVIOUS
<1>3. ASSUME NEW f \in Batches
      PROVE  f \in Seq(Deliveries) /\ Len(f) \in Nat \ {0} /\ Head(f) = f[1]
  BY DEF Batches
<1>4. ASSUME Len(q[1]) = 1
      PROVE  /\ Len(PoppedOf(q)) = Len(q) - 1
             /\ \A b \in 1..Len(q) - 1 : PoppedOf(q)[b] = q[b + 1]
  <2>1. PoppedOf(q) = Tail(q)
    BY <1>1, <1>4 DEF PoppedOf
  <2>2. Len(Tail(q)) = Len(q) - 1 /\ \A b \in 1..Len(q) - 1 : Tail(q)[b] = q[b + 1]
    OBVIOUS
  <2>3. QED
    BY <2>1, <2>2
<1>5. ASSUME Len(q[1]) # 1
      PROVE  /\ Len(PoppedOf(q)) = Len(q)
             /\ Len(PoppedOf(q)[1]) = Len(q[1]) - 1
             /\ \A k \in 1..Len(q[1]) - 1 : PoppedOf(q)[1][k] = q[1][k + 1]
             /\ \A b \in 2..Len(q) : PoppedOf(q)[b] = q[b]
  <2> DEFINE f == Tail(q[1])
             t == Tail(q)
  <2>1. PoppedOf(q) = <<f>> \o t
    BY <1>1, <1>5 DEF PoppedOf
  <2>2. t \in Seq(Batches) /\ Len(t) = Len(q) - 1 /\ \A b \in 1..Len(q) - 1 : t[b] = q[b + 1]
    OBVIOUS
  <2>3. q[1] \in Seq(Deliveries) /\ q[1] # <<>>
    BY <1>1 DEF Batches
  <2>4. /\ f \in Seq(Deliveries) /\ Len(f) = Len(q[1]) - 1
        /\ \A k \in 1..Len(q[1]) - 1 : f[k] = q[1][k + 1]
    BY <2>3
  <2> HIDE DEF f, t
  <2>5. /\ Len(<<f>> \o t) = Len(t) + 1
        /\ (<<f>> \o t)[1] = f
        /\ \A b \in 2..Len(t) + 1 : (<<f>> \o t)[b] = t[b - 1]
    BY <2>2
  <2>6. \A b \in 2..Len(q) : b - 1 \in 1..Len(q) - 1 /\ (b - 1) + 1 = b
    BY <1>1
  <2>7. QED
    BY <1>1, <2>1, <2>2, <2>4, <2>5, <2>6
<1>6. PoppedOf(q) \in Seq(Batches)
  <2>1. CASE Len(q[1]) = 1
    BY <1>1, <2>1 DEF PoppedOf
  <2>2. CASE Len(q[1]) # 1
    <3> DEFINE f == Tail(q[1])
    <3>1. q[1] \in Seq(Deliveries) /\ q[1] # <<>> /\ Len(q[1]) # 1
      BY <1>1, <2>2 DEF Batches
    <3>2. f \in Seq(Deliveries) /\ Len(f) = Len(q[1]) - 1
      BY <3>1, HeadTailProperties
    <3>6. f # <<>>
      <4>1. Len(f) # 0 /\ Len(<< >>) = 0
        BY <3>1, <3>2, LenProperties, EmptySeq
      <4>2. QED
        BY <4>1, Zenon
    <3> HIDE DEF f
    <3>3. <<f>> \in Seq(Batches) /\ Tail(q) \in Seq(Batches)
      BY <3>1, <3>2, <3>6, HeadTailProperties DEF Batches
    <3>4. <<f>> \o Tail(q) \in Seq(Batches)
      BY <3>3, ConcatProperties
    <3>5. QED
      BY <1>1, <2>2, <3>4 DEF PoppedOf, f
  <2>3. QED
    BY <2>1, <2>2
<1>7. QED
  BY <1>1, <1>2, <1>3, <1>4, <1>5, <1>6

\* When a delivery is taken off the queue, the rest stays in order, and what
\* was taken is not told again.
LEMMA PopKeeps ==
  ASSUME NEW q \in Seq(Batches), q # <<>>, Orderly(q)
  PROVE  /\ Orderly(PoppedOf(q))
         /\ \A n : Queued(q, n) <=> n = q[1][1] \/ Queued(PoppedOf(q), n)
         /\ q[1][1].type \in {"peer.joined", "peer.left"} => ~Queued(PoppedOf(q), q[1][1])
         /\ q[1][1].type = "peer.left" => \A n : Queued(q, n) => n.type # "peer.joined"
         /\ PoppedOf(q) # <<>> =>
              /\ PoppedOf(q)[1][1].type \in {"peer.joined", "peer.left", "signal.accepted"}
              /\ Verdict(PoppedOf(q)[1][1]) => Len(q[1]) # 1 /\ Relay(q[1][1])
         /\ Relay(q[1][1]) =>
              PoppedOf(q) # <<>> /\ Len(q[1]) # 1 /\ Verdict(PoppedOf(q)[1][1])
         /\ Verdict(q[1][1]) => Len(q[1]) = 1
PROOF
<1> DEFINE r == PoppedOf(q)
           f == q[1]
           m == f[1]
<1>a. /\ Len(q) \in Nat \ {0} /\ Len(f) \in Nat \ {0}
      /\ \A b \in 1..Len(q) : Len(q[b]) \in Nat \ {0}
  BY PoppedAt
<1>0. PICK n \in Nat : n + 1 = Len(q)
  <2>1. Len(q) - 1 \in Nat /\ (Len(q) - 1) + 1 = Len(q)
    BY <1>a
  <2>2. QED
    BY <2>1
<1>1. PICK l \in Nat : l + 1 = Len(f)
  <2>1. Len(f) - 1 \in Nat /\ (Len(f) - 1) + 1 = Len(f)
    BY <1>a
  <2>2. QED
    BY <2>1
<1>2. \A b \in 1..n + 1 : Len(q[b]) \in Nat \ {0}
  BY <1>0, <1>a
<1>b. /\ Len(f) = 1 =>
           /\ Len(r) = Len(q) - 1
           /\ \A b \in 1..Len(q) - 1 : r[b] = q[b + 1]
      /\ Len(f) # 1 =>
           /\ Len(r) = Len(q)
           /\ Len(r[1]) = Len(f) - 1
           /\ \A k \in 1..Len(f) - 1 : r[1][k] = f[k + 1]
           /\ \A b \in 2..Len(q) : r[b] = q[b]
  BY PoppedAt
<1>d. r # <<>> <=> Len(r) # 0
  BY PoppedAt
<1> HIDE DEF r, f
<1>c. Len(q) - 1 = n /\ Len(f) - 1 = l /\ (l = 0 <=> Len(f) = 1)
  <2>1. \A x \in Nat \ {0}, y \in Nat : y + 1 = x => x - 1 = y /\ (y = 0 <=> x = 1)
    OBVIOUS
  <2>2. QED
    BY <1>a, <1>0, <1>1, <2>1
<1>3. l = 0 => Len(r) = n /\ \A b \in 1..n : r[b] = q[b + 1]
  BY <1>b, <1>c
<1>4. l # 0 => /\ Len(r) = n + 1
               /\ Len(r[1]) = l /\ \A k \in 1..l : r[1][k] = f[k + 1]
               /\ \A b \in 2..n + 1 : r[b] = q[b]
  BY <1>0, <1>b, <1>c
<1> USE DEF f
<1>5. FirstBatch(f) /\ LaterAreFarewells(q) /\ ToldOnce(q)
  BY DEF Orderly
<1>6. /\ \A b \in 1..n + 1 : b > 1 => \A k \in 1..Len(q[b]) : q[b][k].type = "peer.left"
      /\ \A b, c \in 1..n + 1 : \A k \in 1..Len(q[b]), j \in 1..Len(q[c]) :
           q[b][k] = q[c][j] /\ q[b][k].type \in {"peer.joined", "peer.left"} => b = c /\ k = j
  BY <1>0, <1>5 DEF LaterAreFarewells, ToldOnce
<1>7. /\ \A k \in 1..l + 1 : k > 1 => f[k].type \in {"peer.joined", "peer.left", "signal.accepted"}
      /\ \A j, k \in 1..l + 1 : f[j].type = "peer.joined" => f[k].type # "peer.left"
      /\ \A k \in 1..l + 1 : Verdict(f[k]) => k = l + 1 /\ (k > 1 => k = 2 /\ Relay(m))
      /\ Relay(m) => l + 1 = 2 /\ Verdict(f[2])
  BY <1>1, <1>5 DEF FirstBatch
<1>8. r # <<>> <=> Len(r) # 0
  BY <1>d
<1>9. CASE l = 0
  <2>1. \A b \in 1..n : b + 1 \in 1..n + 1 /\ b + 1 > 1 /\ b + 1 # 1
    BY <1>0
  <2>2. \A b \in 1..n : r[b] = q[b + 1] /\ Len(r[b]) \in Nat \ {0}
                       /\ \A k \in 1..Len(r[b]) : r[b][k].type = "peer.left"
    BY <1>2, <1>3, <1>6, <1>9, <2>1
  <2>3. Len(r) = n
    BY <1>3, <1>9
  <2>4. LaterAreFarewells(r)
    BY <2>2, <2>3 DEF LaterAreFarewells
  <2>5. r # <<>> => 1 \in 1..n /\ 1 \in 1..Len(r[1]) /\ r[1][1].type = "peer.left"
    BY <1>0, <1>8, <2>2, <2>3
  <2>6. r # <<>> => FirstBatch(r[1])
    BY <2>2, <2>5 DEF FirstBatch, Verdict, Relay
  <2>7. ToldOnce(r)
    <3> SUFFICES ASSUME NEW b \in 1..n, NEW c \in 1..n, NEW k \in 1..Len(r[b]),
                        NEW j \in 1..Len(r[c]), r[b][k] = r[c][j],
                        r[b][k].type \in {"peer.joined", "peer.left"}
                 PROVE  b = c /\ k = j
      BY <2>3 DEF ToldOnce
    <3>1. b + 1 \in 1..n + 1 /\ c + 1 \in 1..n + 1 /\ r[b] = q[b + 1] /\ r[c] = q[c + 1]
      BY <2>1, <2>2
    <3>0. /\ k \in 1..Len(q[b + 1]) /\ j \in 1..Len(q[c + 1])
          /\ q[b + 1][k] = q[c + 1][j] /\ q[b + 1][k].type \in {"peer.joined", "peer.left"}
      BY <3>1
    <3>2. b + 1 = c + 1 /\ k = j
      BY <1>6, <3>0, <3>1
    <3>3. QED
      BY <3>2
  <2>8. \A b \in 1..n + 1 : b = 1 \/ (b - 1 \in 1..n /\ (b - 1) + 1 = b)
    BY <1>0
  <2>9. \A k : k \in 1..l + 1 <=> k = 1
    BY <1>9
  <2>10. ASSUME NEW x
         PROVE  Queued(q, x) <=> x = m \/ Queued(r, x)
    <3>1. ASSUME NEW b \in 1..n + 1, NEW k \in 1..Len(q[b]), q[b][k] = x
          PROVE  x = m \/ Queued(r, x)
      <4>1. CASE b = 1
        BY <1>1, <2>9, <3>1, <4>1
      <4>2. CASE b # 1
        <5>1. b - 1 \in 1..n /\ (b - 1) + 1 = b
          BY <2>8, <4>2
        <5>2. r[b - 1] = q[b]
          BY <2>2, <5>1
        <5>3. k \in 1..Len(r[b - 1]) /\ r[b - 1][k] = x
          BY <3>1, <5>2
        <5>4. QED
          BY <2>3, <5>1, <5>3 DEF Queued
      <4>3. QED
        BY <4>1, <4>2
    <3>2. Queued(r, x) => Queued(q, x)
      BY <1>0, <2>1, <2>2, <2>3 DEF Queued
    <3>3. x = m => Queued(q, x)
      <4>1. 1 \in 1..n + 1 /\ 1 \in 1..Len(q[1])
        BY <1>0, <1>1
      <4>2. QED
        BY <1>0, <4>1 DEF Queued
    <3>4. QED
      BY <1>0, <3>1, <3>2, <3>3 DEF Queued
  <2>11. m.type \in {"peer.joined", "peer.left"} => ~Queued(r, m)
    <3> SUFFICES ASSUME NEW b \in 1..n, NEW k \in 1..Len(r[b]), r[b][k] = m,
                        m.type \in {"peer.joined", "peer.left"}
                 PROVE  FALSE
      BY <2>3 DEF Queued
    <3>1. 1 \in 1..n + 1 /\ 1 \in 1..Len(q[1])
      BY <1>0, <1>1
    <3>2. b + 1 = 1
      BY <1>6, <2>1, <2>2, <3>1
    <3>3. QED
      BY <2>1, <3>2
  <2>12. m.type = "peer.left" => \A x : Queued(q, x) => x.type # "peer.joined"
    <3>1. \A x : Queued(r, x) => x.type = "peer.left"
      BY <2>2, <2>3 DEF Queued
    <3>2. QED
      BY <2>10, <3>1
  <2>13. Verdict(m) => l + 1 = 1
    BY <1>9
  <2>14. ~Relay(m) /\ (r # <<>> => ~Verdict(r[1][1]))
    BY <1>7, <1>9, <2>5 DEF Verdict
  <2>15. QED
    BY <1>1, <2>4, <2>5, <2>6, <2>7, <2>10, <2>11, <2>12, <2>13, <2>14 DEF Orderly, r
<1>10. CASE l # 0
  <2>1. /\ Len(r) = n + 1 /\ r # <<>> /\ Len(r[1]) = l
        /\ \A k \in 1..l : r[1][k] = f[k + 1] /\ k + 1 \in 1..l + 1 /\ k + 1 > 1
        /\ \A b \in 2..n + 1 : r[b] = q[b] /\ b > 1 /\ b \in 1..n + 1
    BY <1>0, <1>1, <1>4, <1>8, <1>10
  <2>2. \A b \in 1..n + 1 : b = 1 \/ b \in 2..n + 1
    BY <1>0
  <2>3. 1 \in 1..n + 1 /\ 1 \in 1..l /\ 1 \in 1..l + 1
    BY <1>0, <1>1, <1>10
  <2>4. \A k \in 1..l : r[1][k].type \in {"peer.joined", "peer.left", "signal.accepted"}
    BY <1>7, <2>1
  <2>5. LaterAreFarewells(r)
    <3>1. ASSUME NEW b \in 1..n + 1, b > 1, NEW k \in 1..Len(r[b])
          PROVE  r[b][k].type = "peer.left"
      <4>1. b \in 2..n + 1
        BY <2>2, <3>1
      <4>2. r[b] = q[b]
        BY <2>1, <4>1
      <4>3. QED
        BY <1>6, <3>1, <4>2
    <3>2. QED
      BY <2>1, <3>1 DEF LaterAreFarewells
  <2>6. FirstBatch(r[1])
    <3>1. \A j, k \in 1..l : r[1][j].type = "peer.joined" => r[1][k].type # "peer.left"
      BY <1>7, <2>1, SMTT(30)
    <3>2. ASSUME NEW k \in 1..l, Verdict(r[1][k]) PROVE k = l /\ k = 1
      <4>1. k + 1 = l + 1 /\ k + 1 = 2
        BY <1>7, <2>1, <3>2
      <4>2. QED
        BY <4>1, <1>1
    <3>3. ~Relay(r[1][1])
      BY <2>3, <2>4 DEF Relay
    <3>4. QED
      BY <2>1, <2>4, <3>1, <3>2, <3>3 DEF FirstBatch
  <2>7. ToldOnce(r)
    <3> SUFFICES ASSUME NEW b \in 1..n + 1, NEW c \in 1..n + 1, NEW k \in 1..Len(r[b]),
                        NEW j \in 1..Len(r[c]), r[b][k] = r[c][j],
                        r[b][k].type \in {"peer.joined", "peer.left"}
                 PROVE  b = c /\ k = j
      BY <2>1 DEF ToldOnce
    <3>1. CASE b = 1 /\ c = 1
      <4>1. /\ k \in 1..l /\ j \in 1..l /\ r[1][k] = r[1][j]
            /\ r[1][k].type \in {"peer.joined", "peer.left"}
        BY <2>1, <3>1
      <4>2. /\ k + 1 \in 1..Len(q[1]) /\ j + 1 \in 1..Len(q[1])
            /\ r[1][k] = q[1][k + 1] /\ r[1][j] = q[1][j + 1]
        BY <1>1, <2>1, <4>1
      <4>3. /\ q[1][k + 1] = q[1][j + 1]
            /\ q[1][k + 1].type \in {"peer.joined", "peer.left"}
        BY <4>1, <4>2
      <4>4. k + 1 = j + 1
        BY <1>6, <2>3, <4>2, <4>3
      <4>5. QED
        BY <3>1, <4>1, <4>4
    <3>2. CASE b = 1 /\ c # 1
      <4>1. r[1][k] = f[k + 1] /\ k + 1 \in 1..Len(q[1]) /\ r[c] = q[c] /\ c \in 2..n + 1
        BY <1>1, <2>1, <2>2, <3>2
      <4>2. 1 = c
        BY <1>6, <2>3, <3>2, <4>1
      <4>3. QED
        BY <3>2, <4>2
    <3>3. CASE b # 1 /\ c = 1
      <4>1. r[1][j] = f[j + 1] /\ j + 1 \in 1..Len(q[1]) /\ r[b] = q[b] /\ b \in 2..n + 1
        BY <1>1, <2>1, <2>2, <3>3
      <4>2. b = 1
        BY <1>6, <2>3, <3>3, <4>1
      <4>3. QED
        BY <3>3, <4>2
    <3>4. CASE b # 1 /\ c # 1
      BY <1>6, <2>1, <2>2, <3>4
    <3>5. QED
      BY <3>1, <3>2, <3>3, <3>4
  <2>8. \A k \in 1..l + 1 : k = 1 \/ (k - 1 \in 1..l /\ (k - 1) + 1 = k)
    BY <1>1
  <2>9. ASSUME NEW x
        PROVE  Queued(q, x) <=> x = m \/ Queued(r, x)
    <3>1. ASSUME NEW b \in 1..n + 1, NEW k \in 1..Len(q[b]), q[b][k] = x
          PROVE  x = m \/ Queued(r, x)
      <4>1. CASE b = 1 /\ k = 1
        BY <3>1, <4>1
      <4>2. CASE b = 1 /\ k # 1
        <5>1. k - 1 \in 1..l /\ r[1][k - 1] = x
          BY <1>1, <2>1, <2>8, <3>1, <4>2
        <5>2. QED
          BY <2>1, <2>3, <5>1 DEF Queued
      <4>3. CASE b # 1
        BY <2>1, <2>2, <3>1, <4>3 DEF Queued
      <4>4. QED
        BY <4>1, <4>2, <4>3
    <3>2. ASSUME NEW b \in 1..n + 1, NEW k \in 1..Len(r[b]), r[b][k] = x
          PROVE  Queued(q, x)
      <4>1. CASE b = 1
        <5>1. k + 1 \in 1..Len(q[1]) /\ q[1][k + 1] = x
          BY <1>1, <2>1, <3>2, <4>1
        <5>2. QED
          BY <1>0, <2>3, <5>1 DEF Queued
      <4>2. CASE b # 1
        BY <1>0, <2>1, <2>2, <3>2, <4>2 DEF Queued
      <4>3. QED
        BY <4>1, <4>2
    <3>3. x = m => Queued(q, x)
      <4>1. 1 \in 1..Len(q[1])
        BY <1>1
      <4>2. QED
        BY <1>0, <2>3, <4>1 DEF Queued
    <3>4. QED
      BY <1>0, <2>1, <3>1, <3>2, <3>3 DEF Queued
  <2>10. m.type \in {"peer.joined", "peer.left"} => ~Queued(r, m)
    <3> SUFFICES ASSUME NEW b \in 1..n + 1, NEW k \in 1..Len(r[b]), r[b][k] = m,
                        m.type \in {"peer.joined", "peer.left"}
                 PROVE  FALSE
      BY <2>1 DEF Queued
    <3>1. CASE b = 1
      <4>1. k + 1 \in 1..Len(q[1]) /\ q[1][k + 1] = q[1][1] /\ 1 \in 1..Len(q[1]) /\ k \in 1..l
        BY <1>1, <2>1, <2>3, <3>1
      <4>2. k + 1 = 1
        BY <1>6, <2>3, <4>1
      <4>3. QED
        BY <4>1, <4>2
    <3>2. CASE b # 1
      <4>1. b \in 2..n + 1 /\ r[b] = q[b] /\ 1 \in 1..Len(q[1])
        BY <1>1, <2>1, <2>2, <2>3, <3>2
      <4>2. b = 1
        BY <1>6, <2>3, <4>1
      <4>3. QED
        BY <3>2, <4>2
    <3>3. QED
      BY <3>1, <3>2
  <2>11. m.type = "peer.left" => \A x : Queued(q, x) => x.type # "peer.joined"
    <3> SUFFICES ASSUME m.type = "peer.left", NEW b \in 1..n + 1, NEW k \in 1..Len(q[b])
                 PROVE  q[b][k].type # "peer.joined"
      BY <1>0 DEF Queued
    <3>1. CASE b = 1
      BY <1>1, <1>7, <2>3, <3>1
    <3>2. CASE b # 1
      BY <1>6, <2>1, <2>2, <3>2
    <3>3. QED
      BY <3>1, <3>2
  <2>12. Verdict(m) => l + 1 = 1
    BY <1>7, <2>3
  <2>13. r[1][1] = f[2] /\ 2 \in 1..l + 1
    BY <2>1, <2>3
  <2>14. Verdict(r[1][1]) => Relay(m)
    BY <1>7, <2>13
  <2>15. Relay(m) => Verdict(r[1][1])
    BY <1>7, <2>13
  <2>16. r[1][1].type \in {"peer.joined", "peer.left", "signal.accepted"} /\ l + 1 # 1
    BY <1>10, <1>1, <2>3, <2>4
  <2>17. QED
    BY <1>1, <2>1, <2>5, <2>6, <2>7, <2>9, <2>10, <2>11, <2>12, <2>14, <2>15, <2>16
       DEF Orderly, r
<1>11. QED
  BY <1>9, <1>10

\* The farewells of a client that is closed go behind what is queued.
LEMMA PushKeeps ==
  ASSUME NEW q \in Seq(Batches), Orderly(q), NEW f \in Batches,
         \A k \in 1..Len(f) : f[k].type = "peer.left" /\ ~Queued(q, f[k]),
         \A j, k \in 1..Len(f) : f[j] = f[k] => j = k
  PROVE  /\ Orderly(Append(q, f))
         /\ \A x : Queued(Append(q, f), x) <=> Queued(q, x) \/ \E k \in 1..Len(f) : f[k] = x
         /\ Append(q, f) # <<>>
         /\ q # <<>> => Head(Append(q, f)) = Head(q)
         /\ q = <<>> => Head(Append(q, f)) = f
PROOF
<1> DEFINE r == Append(q, f)
<1>1. PICK n \in Nat : n = Len(q)
  OBVIOUS
<1>2. /\ Len(r) = n + 1 /\ r[n + 1] = f /\ r # <<>>
      /\ \A b \in 1..n : r[b] = q[b]
      /\ r \in Seq(Batches)
  BY <1>1
<1>3. \A b : b \in 1..n + 1 <=> b \in 1..n \/ b = n + 1
  BY <1>1
<1>4. \A b \in 1..n : b # n + 1
  BY <1>1
<1>5. (q # <<>> <=> n # 0) /\ (q # <<>> => Head(q) = q[1])
  BY <1>1
<1>6. Head(r) = r[1]
  BY <1>2
<1>7. Len(f) \in Nat \ {0}
  BY DEF Batches
<1> HIDE DEF r
<1>8. \A x : Queued(r, x) <=> Queued(q, x) \/ \E k \in 1..Len(f) : f[k] = x
  BY <1>1, <1>2, <1>3 DEF Queued
<1>9. LaterAreFarewells(r)
  BY <1>1, <1>2, <1>3 DEF LaterAreFarewells, Orderly
<1>10. ToldOnce(r)
  <2> SUFFICES ASSUME NEW b \in 1..n + 1, NEW c \in 1..n + 1, NEW k \in 1..Len(r[b]),
                      NEW j \in 1..Len(r[c]), r[b][k] = r[c][j],
                      r[b][k].type \in {"peer.joined", "peer.left"}
               PROVE  b = c /\ k = j
    BY <1>2 DEF ToldOnce
  <2>1. CASE b \in 1..n /\ c \in 1..n
    BY <1>1, <1>2, <2>1 DEF ToldOnce, Orderly
  <2>2. CASE b = n + 1 /\ c = n + 1
    BY <1>2, <2>2
  <2>3. CASE b \in 1..n /\ c = n + 1
    BY <1>1, <1>2, <2>3 DEF Queued
  <2>4. CASE b = n + 1 /\ c \in 1..n
    BY <1>1, <1>2, <2>4 DEF Queued
  <2>5. QED
    BY <1>3, <2>1, <2>2, <2>3, <2>4
<1>11. FirstBatch(r[1])
  <2>1. CASE n = 0
    <3>1. r[1] = f
      BY <1>2, <2>1
    <3>2. 1 \in 1..Len(f)
      BY <1>7
    <3>3. QED
      BY <3>1, <3>2 DEF FirstBatch, Verdict, Relay
  <2>2. CASE n # 0
    BY <1>1, <1>2, <1>5, <2>2 DEF Orderly
  <2>3. QED
    BY <2>1, <2>2
<1>12. Orderly(r)
  BY <1>9, <1>10, <1>11 DEF Orderly
<1>13. (q # <<>> => r[1] = q[1]) /\ (q = <<>> => r[1] = f)
  BY <1>1, <1>2, <1>5
<1>14. QED
  BY <1>2, <1>5, <1>6, <1>8, <1>12, <1>13 DEF r

\* The answer to a request is alone in the queue.
LEMMA AloneKeeps ==
  ASSUME NEW f \in Batches, FirstBatch(f),
         \A j, k \in 1..Len(f) :
           f[j] = f[k] /\ f[j].type \in {"peer.joined", "peer.left"} => j = k
  PROVE  /\ Orderly(<<f>>) /\ <<f>> # <<>>
         /\ Head(<<f>>) = f /\ Head(Head(<<f>>)) = f[1]
         /\ \A x : Queued(<<f>>, x) <=> \E k \in 1..Len(f) : f[k] = x
PROOF
<1> DEFINE r == <<f>>
<1>1. Len(r) = 1 /\ r[1] = f /\ r # <<>> /\ Head(r) = f
  OBVIOUS
<1>2. \A b : b \in 1..1 <=> b = 1
  OBVIOUS
<1>3. Head(f) = f[1]
  BY DEF Batches
<1> HIDE DEF r
<1>4. Orderly(r)
  BY <1>1, <1>2 DEF Orderly, LaterAreFarewells, ToldOnce
<1>5. \A x : Queued(r, x) <=> \E k \in 1..Len(f) : f[k] = x
  BY <1>1, <1>2 DEF Queued
<1>6. QED
  BY <1>1, <1>3, <1>4, <1>5 DEF r

-----------------------------------------------------------------------------
(* Who hears of whom.                                                      *)

\* A broadcast goes to every session of the room once.
LEMMA OrderFacts ==
  ASSUME NEW roomPeers \in [PeerIds -> Sessions \cup {None}],
         NEW order \in SetToSeqs(SessionsOf(roomPeers))
  PROVE  /\ order \in Seq(Sessions) /\ Len(order) \in Nat /\ DOMAIN order = 1..Len(order)
         /\ \A i, j \in 1..Len(order) : order[i] = order[j] => i = j
         /\ \A u \in Sessions :
              (\E i \in 1..Len(order) : order[i] = u) <=> (\E o \in PeerIds : roomPeers[o] = u)
PROOF
<1> DEFINE S == SessionsOf(roomPeers)
           all == {roomPeers[p] : p \in PeerIds}
           f   == [p \in PeerIds |-> roomPeers[p]]
<1>1. order \in Seq(Sessions) /\ Len(order) \in Nat /\ DOMAIN order = 1..Len(order)
  BY OrdersTyped, LenProperties
<1>2. IsFiniteSet(S)
  <2>1. f \in Surjection(PeerIds, all)
    BY DEF Surjection
  <2>2. IsFiniteSet(all)
    <3> HIDE DEF f, all
    <3>1. QED
      BY <2>1, FinitePeerIds, FS_Surjection
  <2>3. S \in SUBSET all
    BY DEF SessionsOf
  <2> HIDE DEF S, all
  <2>4. QED
    BY <2>2, <2>3, FS_Subset
<1>3. /\ order \in [1..Cardinality(S) -> S]
      /\ \A i, j \in 1..Cardinality(S) : i # j => order[i] # order[j]
  BY DEF SetToSeqs
<1>4. Cardinality(S) \in Nat
  BY <1>2, FS_CardinalityType
<1>5. order \in Injection(1..Cardinality(S), S)
  BY <1>3 DEF Injection, IsInjective
<1>6. Cardinality(1..Cardinality(S)) = Cardinality(S)
  BY <1>4, FS_Interval
<1>7. order \in Surjection(1..Cardinality(S), S)
  <2> HIDE DEF S
  <2>1. QED
    BY <1>2, <1>5, <1>6, FS_Injection
<1>8. DOMAIN order = 1..Cardinality(S)
  BY <1>3
<1>9. \A u : u \in S <=> \E i \in 1..Cardinality(S) : order[i] = u
  <2> HIDE DEF S
  <2>1. QED
    BY <1>3, <1>7 DEF Surjection
<1>10. \A u \in Sessions : u \in S <=> \E o \in PeerIds : roomPeers[o] = u
  BY NoneAssumption DEF SessionsOf
<1>11. QED
  BY <1>1, <1>3, <1>8, <1>9, <1>10

\* The other members of the room of a session that goes hear of it, once each,
\* and nobody else does.
LEMMA FarewellFacts ==
  ASSUME RegistryInv, NEW s \in Sessions, NEW r \in RoomIds, NEW p \in PeerIds,
         memberships[s] = [roomId |-> r, peerId |-> p], IsMember(s),
         NEW events \in LeaveEvents(s)
  PROVE  /\ events \in Seq(Deliveries)
         /\ \A k \in 1..Len(events) : \E u \in Sessions :
              events[k] = PeerLeft(u, p) /\ u # s /\ InRoom(u, r)
         /\ \A j, k \in 1..Len(events) : events[j] = events[k] => j = k
         /\ \A u \in Sessions :
              u # s /\ InRoom(u, r) => \E k \in 1..Len(events) : events[k] = PeerLeft(u, p)
PROOF
<1> DEFINE left == [peers[r] EXCEPT ![p] = None]
<1>1. peers \in [RoomIds -> [PeerIds -> Sessions \cup {None}]]
  BY DEF RegistryInv, RegistryTypeOK
<1>2. left \in [PeerIds -> Sessions \cup {None}]
  BY <1>1
<1>3. PICK order \in SetToSeqs(SessionsOf(left)) :
        events = [i \in DOMAIN order |-> PeerLeft(order[i], p)]
  BY DEF LeaveEvents
<1>4. \A o \in PeerIds : left[o] = IF o = p THEN None ELSE peers[r][o]
  BY <1>1
<1> HIDE DEF left
<1>5. /\ order \in Seq(Sessions) /\ Len(order) \in Nat /\ DOMAIN order = 1..Len(order)
      /\ \A i, j \in 1..Len(order) : order[i] = order[j] => i = j
      /\ \A u \in Sessions :
           (\E i \in 1..Len(order) : order[i] = u) <=> (\E o \in PeerIds : left[o] = u)
  BY <1>2, OrderFacts
<1>6. events \in Seq(Deliveries)
  BY <1>3, <1>5, BroadcastTyped
<1>7. /\ Len(events) = Len(order)
      /\ \A i \in 1..Len(order) : events[i] = PeerLeft(order[i], p) /\ order[i] \in Sessions
  BY <1>3, <1>5
<1>8. \A u \in Sessions : (\E o \in PeerIds : left[o] = u) <=> u # s /\ InRoom(u, r)
  <2> SUFFICES ASSUME NEW u \in Sessions
               PROVE  (\E o \in PeerIds : left[o] = u) <=> u # s /\ InRoom(u, r)
    OBVIOUS
  <2>0. IndexesAgree
    BY DEF RegistryInv
  <2>1. peers[r][p] = s
    BY <2>0 DEF IndexesAgree
  <2>2. ASSUME NEW o \in PeerIds, left[o] = u
        PROVE  u # s /\ InRoom(u, r)
    <3>1. o # p /\ peers[r][o] = u
      BY <1>4, <2>2, NoneAssumption
    <3>2. IsMember(u) /\ memberships[u] = [roomId |-> r, peerId |-> o]
      BY <2>0, <3>1 DEF IndexesAgree
    <3>3. QED
      BY <3>1, <3>2 DEF InRoom
  <2>3. ASSUME u # s, InRoom(u, r)
        PROVE  \E o \in PeerIds : left[o] = u
    <3>1. memberships[u] \in Membership
      BY <2>3 DEF InRoom, IsMember, RegistryInv, RegistryTypeOK
    <3>2. PICK o \in PeerIds : memberships[u] = [roomId |-> r, peerId |-> o]
      BY <2>3, <3>1 DEF InRoom, Membership
    <3>3. peers[r][o] = u
      BY <2>0, <2>3, <3>2 DEF IndexesAgree, InRoom
    <3>4. QED
      BY <1>4, <2>1, <2>3, <3>3
  <2>4. QED
    BY <2>2, <2>3
<1>9. \A u, v : PeerLeft(u, p) = PeerLeft(v, p) => u = v
  BY DEF PeerLeft
<1>10. QED
  BY <1>5, <1>6, <1>7, <1>8, <1>9

\* Who is in a room with whom once a session has gone.
LEMMA LeaveMates ==
  ASSUME RegistryInv, NEW s \in Sessions, NEW kept, Leave(s, kept),
         NEW r \in RoomIds, NEW p \in PeerIds, memberships[s] = [roomId |-> r, peerId |-> p]
  PROVE  /\ Mates(s)' = {}
         /\ \A u \in Sessions : u # s =>
              /\ InRoom(u, r) => p \in Mates(u) /\ Mates(u)' = Mates(u) \ {p}
              /\ ~InRoom(u, r) => Mates(u)' = Mates(u)
PROOF
<1>1. /\ memberships' = [memberships EXCEPT ![s] = None]
      /\ peers' = [peers EXCEPT ![r] = [peers[r] EXCEPT ![p] = None]]
  BY DEF Leave, MembershipsWithout
<1>2. /\ memberships \in [Sessions -> Membership \cup {None}]
      /\ peers \in [RoomIds -> [PeerIds -> Sessions \cup {None}]]
  BY DEF RegistryInv, RegistryTypeOK
<1>3. Mates(s)' = {}
  BY <1>1, <1>2 DEF Mates, IsMember
<1>4. \A q \in RoomIds : Members(q)' = IF q = r THEN Members(q) \ {p} ELSE Members(q)
  BY <1>1, <1>2 DEF Members
<1>5. ASSUME NEW u \in Sessions, u # s
      PROVE  /\ InRoom(u, r) => p \in Mates(u) /\ Mates(u)' = Mates(u) \ {p}
             /\ ~InRoom(u, r) => Mates(u)' = Mates(u)
  <2>1. memberships'[u] = memberships[u]
    BY <1>1, <1>2, <1>5
  <2>2. CASE ~IsMember(u)
    BY <2>1, <2>2 DEF Mates, IsMember, InRoom
  <2>3. CASE IsMember(u)
    <3>1. PICK q \in RoomIds, o \in PeerIds : memberships[u] = [roomId |-> q, peerId |-> o]
      BY <1>2, <2>3 DEF IsMember, Membership
    <3>2. Mates(u) = Members(q) \ {o} /\ Mates(u)' = Members(q)' \ {o}
      BY <2>1, <2>3, <3>1 DEF Mates, IsMember
    <3>3. InRoom(u, r) <=> q = r
      BY <2>3, <3>1 DEF InRoom
    <3>4. peers[r][p] = s /\ peers[q][o] = u
      BY <2>3, <3>1 DEF RegistryInv, IndexesAgree, Leave
    <3>5. q = r => p \in Members(q) \ {o}
      BY <1>5, <3>4, NoneAssumption DEF Members
    <3>6. QED
      BY <1>4, <3>2, <3>3, <3>5
  <2>4. QED
    BY <2>2, <2>3
<1>6. QED
  BY <1>3, <1>5

\* Who is in a room with whom once a session has come.
LEMMA JoinMates ==
  ASSUME RegistryInv, NEW s \in Sessions, NEW r \in RoomIds, NEW t \in Tokens,
         NEW p \in PeerIds, RoomJoin(s, r, t, p)
  PROVE  /\ Mates(s)' = Members(r)
         /\ \A u \in Sessions : u # s =>
              /\ InRoom(u, r) => p \notin Mates(u) /\ Mates(u)' = Mates(u) \cup {p}
              /\ ~InRoom(u, r) => Mates(u)' = Mates(u)
         /\ \A u \in Sessions : (\E o \in PeerIds : peers[r][o] = u) <=> InRoom(u, r)
         /\ ~InRoom(s, r)
PROOF
<1> DEFINE member == [roomId |-> r, peerId |-> p]
<1>1. /\ ~IsMember(s) /\ p \notin Members(r)
      /\ memberships' = [memberships EXCEPT ![s] = member]
      /\ peers' = [peers EXCEPT ![r][p] = s]
  BY DEF RoomJoin
<1>2. /\ memberships \in [Sessions -> Membership \cup {None}]
      /\ peers \in [RoomIds -> [PeerIds -> Sessions \cup {None}]]
      /\ IndexesAgree
  BY DEF RegistryInv, RegistryTypeOK
<1>3. \A q \in RoomIds : Members(q)' = IF q = r THEN Members(q) \cup {p} ELSE Members(q)
  BY <1>1, <1>2, NoneAssumption DEF Members
<1>4. Mates(s)' = Members(r)
  <2>1. memberships'[s] = member /\ member # None
    BY <1>1, <1>2, NoneAssumption
  <2>2. member.roomId = r /\ member.peerId = p
    OBVIOUS
  <2>3. QED
    BY <1>1, <1>3, <2>1, <2>2 DEF Mates, IsMember
<1>5. ASSUME NEW u \in Sessions, u # s
      PROVE  /\ InRoom(u, r) => p \notin Mates(u) /\ Mates(u)' = Mates(u) \cup {p}
             /\ ~InRoom(u, r) => Mates(u)' = Mates(u)
  <2>1. memberships'[u] = memberships[u]
    BY <1>1, <1>2, <1>5
  <2>2. CASE ~IsMember(u)
    BY <2>1, <2>2 DEF Mates, IsMember, InRoom
  <2>3. CASE IsMember(u)
    <3>1. PICK q \in RoomIds, o \in PeerIds : memberships[u] = [roomId |-> q, peerId |-> o]
      BY <1>2, <2>3 DEF IsMember, Membership
    <3>2. Mates(u) = Members(q) \ {o} /\ Mates(u)' = Members(q)' \ {o}
      BY <2>1, <2>3, <3>1 DEF Mates, IsMember
    <3>3. InRoom(u, r) <=> q = r
      BY <2>3, <3>1 DEF InRoom
    <3>4. peers[q][o] = u
      BY <1>2, <2>3, <3>1 DEF IndexesAgree
    <3>5. q = r => o # p
      BY <1>1, <3>4, NoneAssumption DEF Members
    <3>6. QED
      BY <1>1, <1>3, <3>2, <3>3, <3>5
  <2>4. QED
    BY <2>2, <2>3
<1>6. ASSUME NEW u \in Sessions
      PROVE  (\E o \in PeerIds : peers[r][o] = u) <=> InRoom(u, r)
  <2>1. ASSUME NEW o \in PeerIds, peers[r][o] = u PROVE InRoom(u, r)
    BY <1>2, <2>1 DEF IndexesAgree, InRoom
  <2>2. ASSUME InRoom(u, r) PROVE \E o \in PeerIds : peers[r][o] = u
    <3>1. PICK o \in PeerIds : memberships[u] = [roomId |-> r, peerId |-> o]
      BY <1>2, <2>2 DEF InRoom, IsMember, Membership
    <3>2. QED
      BY <1>2, <2>2, <3>1 DEF IndexesAgree, InRoom
  <2>3. QED
    BY <2>1, <2>2
<1>7. QED
  BY <1>1, <1>4, <1>5, <1>6 DEF InRoom

-----------------------------------------------------------------------------
(* One delivery.                                                           *)

\* An answer tells its reader of its room, whatever the reader knew before.
LEMMA AnswerFacts ==
  ASSUME NEW m, Answer(m)
  PROVE  /\ ~Verdict(m) /\ m.type \notin {"peer.joined", "peer.left"}
         /\ m.type = "room.joined" => Knows(m) = m.peers /\ Knows(m)' = m.peers
         /\ m.type # "room.joined" => Knows(m) = {} /\ Knows(m)' = {}
BY DEF Answer, Knows, Verdict

\* What is left of the queue never starts with an answer.
LEMMA NoAnswerLeft ==
  ASSUME PendingOK, ~Idle, Orderly(pending)
  PROVE  /\ Popped = PoppedOf(pending) /\ Popped \in Seq(Batches) /\ Orderly(Popped)
         /\ Head(Head(pending)) \in Deliveries
         /\ \A n : Queued(pending, n) <=> n = Head(Head(pending)) \/ Queued(Popped, n)
         /\ Popped # <<>> => ~Answer(Head(Head(Popped)))
PROOF
<1>1. pending \in Seq(Batches) /\ pending # <<>>
  BY DEF PendingOK, Idle
<1>2. Popped = PoppedOf(pending)
  BY DEF Popped, PoppedOf
<1>3. Head(Head(pending)) = pending[1][1] /\ Popped \in Seq(Batches)
  BY <1>1, <1>2, PoppedAt
<1>4. /\ Orderly(Popped)
      /\ \A n : Queued(pending, n) <=> n = pending[1][1] \/ Queued(Popped, n)
      /\ Popped # <<>> => Popped[1][1].type \in {"peer.joined", "peer.left", "signal.accepted"}
  BY <1>1, <1>2, PopKeeps
<1>5. Popped # <<>> => Head(Head(Popped)) = Popped[1][1]
  BY <1>3, PoppedAt
<1>6. Head(Head(pending)) \in Deliveries
  BY PoppedTyped
<1>7. QED
  BY <1>2, <1>3, <1>4, <1>5, <1>6 DEF Answer

\* A delivery does not concern those it is not for.
LEMMA OthersTold ==
  ASSUME PendingOK, ~Idle, Orderly(pending), NEW u \in Sessions,
         u # Head(Head(pending)).to, ToldInTheEnd(pending, u)
  PROVE  ToldInTheEnd(Popped, u)
PROOF
<1> DEFINE m == Head(Head(pending))
<1>1. Answered(pending, u) = told[u]
  BY DEF Answered
<1>2. Answered(Popped, u) = told[u]
  BY NoAnswerLeft DEF Answered
<1>3. \A p : PeerJoined(u, p).to = u /\ PeerLeft(u, p).to = u
  BY DEF PeerJoined, PeerLeft
<1>4. \A n : Queued(pending, n) <=> n = m \/ Queued(Popped, n)
  BY NoAnswerLeft
<1> HIDE DEF m
<1>5. u # m.to
  BY DEF m
<1>6. \A p : /\ Queued(pending, PeerJoined(u, p)) <=> Queued(Popped, PeerJoined(u, p))
             /\ Queued(pending, PeerLeft(u, p)) <=> Queued(Popped, PeerLeft(u, p))
  <2> TAKE p
  <2>1. PeerJoined(u, p) # m /\ PeerLeft(u, p) # m
    BY <1>3, <1>5
  <2>2. QED
    BY <1>4, <2>1
<1>7. QED
  BY <1>1, <1>2, <1>6 DEF ToldInTheEnd

\* What is on its way to a client stays so while it, its room and its news stay.
LEMMA CarryOver ==
  ASSUME NEW u \in Sessions, NEW q, ToldInTheEnd(q, u), pending' = q, told'[u] = told[u],
         Mates(u)' = Mates(u)
  PROVE  ToldInTheEnd(pending, u)'
PROOF
<1>1. Answered(pending, u)' = Answered(q, u)
  <2>1. CASE q # <<>> /\ Head(Head(q)).to = u /\ Answer(Head(Head(q)))
    <3>1. Knows(Head(Head(q)))' = Knows(Head(Head(q)))
      BY <2>1, AnswerFacts
    <3>2. Answered(pending, u)' = Knows(Head(Head(q)))'
      BY <2>1 DEF Answered, Answer
    <3>3. QED
      BY <2>1, <3>1, <3>2 DEF Answered
  <2>2. CASE ~(q # <<>> /\ Head(Head(q)).to = u /\ Answer(Head(Head(q))))
    BY <2>2 DEF Answered, Answer
  <2>3. QED
    BY <2>1, <2>2
<1>2. \A n : Queued(pending, n)' <=> Queued(q, n)
  BY DEF Queued
<1>3. \A p : PeerJoined(u, p)' = PeerJoined(u, p) /\ PeerLeft(u, p)' = PeerLeft(u, p)
  BY DEF PeerJoined, PeerLeft
<1>4. QED
  BY <1>1, <1>2, <1>3 DEF ToldInTheEnd

\* Whoever a delivery is for knows what it says, and the rest is still to come.
LEMMA SelfTold ==
  ASSUME TransportTypeOK, Orderly(pending), SendSucceeds, NEW u \in Sessions,
         u = Head(Head(pending)).to, ToldInTheEnd(pending, u)
  PROVE  ToldInTheEnd(pending, u)'
PROOF
<1> DEFINE m   == Head(Head(pending))
           out == Outgoing(m)
<1>0. ~Idle /\ PendingOK
  BY DEF SendSucceeds, TransportTypeOK
<1>1. /\ m \in Deliveries
      /\ \A n : Queued(pending, n) <=> n = m \/ Queued(Popped, n)
      /\ Popped # <<>> => ~Answer(Head(Head(Popped)))
  BY <1>0, NoAnswerLeft
<1>2. pending' = Popped
  BY DEF SendSucceeds
<1>3. out.to = u
  BY DEF Outgoing, Error
<1>4. told'[u] = Knows(out)
  BY <1>3 DEF SendSucceeds, TransportTypeOK
<1>5. Mates(u)' = Mates(u)
  BY DEF SendSucceeds, roomVars, Mates, IsMember, Members
<1>6. Answered(pending, u)' = told'[u]
  BY <1>1, <1>2 DEF Answered, Answer
<1>7. \A n : Queued(pending, n)' <=> Queued(Popped, n)
  BY <1>2 DEF Queued
<1>8. pending # <<>> /\ pending \in Seq(Batches) /\ m = pending[1][1] /\ Popped = PoppedOf(pending)
  BY <1>0, PoppedAt, NoAnswerLeft DEF Idle, PendingOK
<1>9. /\ m.type \in {"peer.joined", "peer.left"} => ~Queued(Popped, m)
      /\ m.type = "peer.left" => \A n : Queued(pending, n) => n.type # "peer.joined"
  BY <1>8, PopKeeps
<1>10. out = m \/ (Verdict(m) /\ out = Error(u, "recipient_unavailable"))
  BY DEF Outgoing
<1>11. m.to = u
  OBVIOUS
<1>12. Answered(pending, u) = IF Answer(m) THEN Knows(m) ELSE told[u]
  BY <1>0, <1>11 DEF Answered, Idle
<1> DEFINE joined(p) == Queued(Popped, PeerJoined(u, p))
           left(p)   == Queued(Popped, PeerLeft(u, p))
<1>13. \A p \in PeerIds :
         /\ p \in Mates(u) <=> (p \in Answered(pending, u) \/ PeerJoined(u, p) = m \/ joined(p))
                               /\ ~(PeerLeft(u, p) = m \/ left(p))
         /\ PeerLeft(u, p) = m \/ left(p)
              => p \in Answered(pending, u) \/ PeerJoined(u, p) = m \/ joined(p)
         /\ PeerJoined(u, p) = m \/ joined(p) => p \notin Answered(pending, u)
  BY <1>1 DEF ToldInTheEnd
<1>14. SUFFICES \A p \in PeerIds :
         /\ p \in Mates(u) <=> (p \in told'[u] \/ joined(p)) /\ ~left(p)
         /\ left(p) => p \in told'[u] \/ joined(p)
         /\ joined(p) => p \notin told'[u]
  <2>1. \A p : PeerJoined(u, p)' = PeerJoined(u, p) /\ PeerLeft(u, p)' = PeerLeft(u, p)
    BY DEF PeerJoined, PeerLeft
  <2>2. QED
    BY <1>5, <1>6, <1>7, <2>1 DEF ToldInTheEnd
<1>15. \A p : PeerJoined(u, p).type = "peer.joined" /\ PeerLeft(u, p).type = "peer.left"
  BY DEF PeerJoined, PeerLeft
<1>16. CASE Answer(m)
  <2>1. out = m /\ m.type \notin {"peer.joined", "peer.left"}
    BY <1>10, <1>16, AnswerFacts
  <2>2. told'[u] = Answered(pending, u)
    BY <1>4, <1>12, <1>16, <2>1
  <2>3. \A p : PeerJoined(u, p) # m /\ PeerLeft(u, p) # m
    BY <1>15, <2>1
  <2> HIDE DEF m, joined, left
  <2>4. QED
    BY <1>13, <2>2, <2>3
<1>17. CASE m.type = "peer.joined"
  <2>1. out = m /\ Answered(pending, u) = told[u] /\ told'[u] = told[u] \cup {m.peerId}
    BY <1>4, <1>10, <1>11, <1>12, <1>17 DEF Verdict, Answer, Knows
  <2>2. m = PeerJoined(u, m.peerId)
    BY <1>1, <1>11, <1>17 DEF Deliveries, PeerJoined
  <2>3. \A p : (PeerJoined(u, p) = m <=> p = m.peerId) /\ PeerLeft(u, p) # m
    BY <1>15, <1>17, <2>2 DEF PeerJoined
  <2>4. ~joined(m.peerId)
    BY <1>9, <1>17, <2>2
  <2> HIDE DEF m, joined, left
  <2>5. QED
    BY <1>13, <2>1, <2>3, <2>4
<1>18. CASE m.type = "peer.left"
  <2>1. out = m /\ Answered(pending, u) = told[u] /\ told'[u] = told[u] \ {m.peerId}
    BY <1>4, <1>10, <1>11, <1>12, <1>18 DEF Verdict, Answer, Knows
  <2>2. m = PeerLeft(u, m.peerId)
    BY <1>1, <1>11, <1>18 DEF Deliveries, PeerLeft
  <2>3. \A p : (PeerLeft(u, p) = m <=> p = m.peerId) /\ PeerJoined(u, p) # m
    BY <1>15, <1>18, <2>2 DEF PeerLeft
  <2>4. ~left(m.peerId)
    BY <1>9, <1>18, <2>2
  <2>5. \A p : ~joined(p)
    BY <1>1, <1>9, <1>15, <1>18
  <2> HIDE DEF m, joined, left
  <2>6. QED
    BY <1>13, <2>1, <2>3, <2>4, <2>5
<1>19. CASE ~Answer(m) /\ m.type \notin {"peer.joined", "peer.left"}
  <2>1. told'[u] = told[u]
    <3>1. CASE out = m
      BY <1>4, <1>11, <1>19, <3>1 DEF Answer, Knows
    <3>2. CASE out = Error(u, "recipient_unavailable")
      <4>1. out.type = "error" /\ out.to = u
        BY <3>2 DEF Error
      <4>2. QED
        BY <1>4, <4>1 DEF Knows
    <3>3. QED
      BY <1>10, <3>1, <3>2
  <2>2. Answered(pending, u) = told[u]
    BY <1>12, <1>19
  <2>3. \A p : PeerJoined(u, p) # m /\ PeerLeft(u, p) # m
    BY <1>15, <1>19
  <2> HIDE DEF m, joined, left
  <2>4. QED
    BY <1>13, <2>1, <2>2, <2>3
<1>20. QED
  BY <1>16, <1>17, <1>18, <1>19

\* The order of a queue is the queue's alone.
LEMMA OrderMoves ==
  ASSUME NEW q, Orderly(q), pending' = q
  PROVE  Orderly(pending)'
PROOF
<1>1. LaterAreFarewells(pending)' /\ ToldOnce(pending)'
  BY DEF Orderly, LaterAreFarewells, ToldOnce
<1>3. pending' # <<>> => FirstBatch(pending[1])'
  <2>1. FirstBatch(pending[1])' <=> FirstBatch(q[1])
    BY DEF FirstBatch, Verdict, Relay
  <2>2. QED
    BY <2>1 DEF Orderly
<1>4. QED
  BY <1>1, <1>3 DEF Orderly

\* The end of the queue q is news of who left, for clients that are still in
\* the room of the one that is closed.
LEMMA ClosingTells ==
  ASSUME RoomsInv, TransportTypeOK, NEW s \in open, NEW queue \in Seq(Batches), Orderly(queue),
         \A u \in open : u # s => ToldInTheEnd(queue, u), removeClient(s, queue)
  PROVE  /\ Orderly(pending)'
         /\ \A u \in open' : ToldInTheEnd(pending, u)'
         /\ open' = open \ {s} /\ told' = [told EXCEPT ![s] = {}]
         /\ queue # <<>> => pending' # <<>> /\ Head(pending') = Head(queue)
         /\ queue = <<>> /\ pending' # <<>> => Head(Head(pending')).type = "peer.left"
PROOF
<1>1. open' = open \ {s} /\ told' = [told EXCEPT ![s] = {}]
  BY DEF removeClient
<1>2. s \in Sessions /\ RegistryInv /\ MembersAreOpen /\ open \in SUBSET Sessions
  BY DEF RoomsInv, SocketsInv
<1>3. \A u \in Sessions : u # s => told'[u] = told[u]
  BY <1>1 DEF TransportTypeOK
<1>4. CASE ~IsMember(s)
  <2>1. pending' = queue /\ UNCHANGED roomVars
    BY <1>4 DEF removeClient, Leave
  <2>2. \A u \in Sessions : Mates(u)' = Mates(u)
    BY <2>1 DEF roomVars, Mates, IsMember, Members
  <2>3. \A u \in open' : ToldInTheEnd(pending, u)'
    BY <1>1, <1>2, <1>3, <2>1, <2>2, CarryOver
  <2>4. Orderly(pending)'
    BY <2>1, OrderMoves
  <2>5. QED
    BY <1>1, <2>1, <2>3, <2>4
<1>5. CASE IsMember(s)
  <2>1. Leave(s, invitations) /\ \E events \in LeaveEvents(s) : pending' = Enqueue(queue, events)
    BY <1>5 DEF removeClient
  <2>2. PICK events \in LeaveEvents(s) : pending' = Enqueue(queue, events)
    BY <2>1
  <2>3. PICK r \in RoomIds, p \in PeerIds : memberships[s] = [roomId |-> r, peerId |-> p]
    BY <1>2, <1>5 DEF IsMember, Membership, RegistryInv, RegistryTypeOK
  <2>a. memberships[s] = [roomId |-> r, peerId |-> p] /\ s \in Sessions /\ events \in LeaveEvents(s)
    BY <1>2, <2>2, <2>3
  <2>4. /\ events \in Seq(Deliveries)
        /\ \A k \in 1..Len(events) : \E u \in Sessions :
             events[k] = PeerLeft(u, p) /\ u # s /\ InRoom(u, r)
        /\ \A j, k \in 1..Len(events) : events[j] = events[k] => j = k
        /\ \A u \in Sessions :
             u # s /\ InRoom(u, r) => \E k \in 1..Len(events) : events[k] = PeerLeft(u, p)
    BY <1>2, <1>5, <2>a, FarewellFacts, SMTT(30)
  <2>5. \A u \in Sessions : u # s =>
          /\ InRoom(u, r) => p \in Mates(u) /\ Mates(u)' = Mates(u) \ {p}
          /\ ~InRoom(u, r) => Mates(u)' = Mates(u)
    BY <1>2, <2>1, <2>3, LeaveMates
  <2>6. \A u \in Sessions : InRoom(u, r) => u \in open
    BY <1>2 DEF MembersAreOpen, InRoom
  <2>7. \A u \in Sessions : u # s /\ InRoom(u, r) => ~Queued(queue, PeerLeft(u, p))
    BY <2>5, <2>6 DEF ToldInTheEnd
  <2>8. \A u, v \in Sessions, x, y \in PeerIds :
          /\ PeerLeft(u, x) = PeerLeft(v, y) <=> u = v /\ x = y
          /\ PeerLeft(u, x) # PeerJoined(v, y)
    <3>1. \A u, v, x, y : /\ PeerLeft(u, x) = PeerLeft(v, y) <=> u = v /\ x = y
                          /\ PeerLeft(u, x).type # PeerJoined(v, y).type
      BY DEF PeerLeft, PeerJoined
    <3>2. QED
      BY <3>1
  <2>9. \A k \in 1..Len(events) : events[k].type = "peer.left" /\ ~Queued(queue, events[k])
    <3>1. \A u : PeerLeft(u, p).type = "peer.left"
      BY DEF PeerLeft
    <3>2. QED
      BY <2>4, <2>7, <3>1
  <2>10. CASE events = <<>>
    <3>1. pending' = queue
      BY <2>2, <2>10 DEF Enqueue
    <3>2. \A u \in Sessions : u # s => ~InRoom(u, r)
      <4>1. 1..Len(events) = {}
        BY <2>10
      <4>2. QED
        BY <2>4, <4>1
    <3>3. \A u \in open' : ToldInTheEnd(pending, u)'
      BY <1>1, <1>2, <1>3, <2>5, <3>1, <3>2, CarryOver
    <3>4. Orderly(pending)'
      BY <3>1, OrderMoves
    <3>5. QED
      BY <1>1, <3>1, <3>3, <3>4
  <2>11. CASE events # <<>>
    <3>1. pending' = Append(queue, events) /\ events \in Batches
      BY <2>2, <2>4, <2>11 DEF Enqueue, Batches
    <3>2. /\ Orderly(Append(queue, events))
          /\ \A x : Queued(Append(queue, events), x) <=>
                      Queued(queue, x) \/ \E k \in 1..Len(events) : events[k] = x
          /\ Append(queue, events) # <<>>
          /\ queue # <<>> => Head(Append(queue, events)) = Head(queue)
          /\ queue = <<>> => Head(Append(queue, events)) = events
      BY <2>4, <2>9, <3>1, PushKeeps
    <3>3. Orderly(pending)'
      BY <3>1, <3>2, OrderMoves
    <3>4. Head(events) = events[1] /\ 1 \in 1..Len(events)
      BY <2>4, <2>11
    <3>5. queue = <<>> => Head(Head(pending')).type = "peer.left"
      BY <2>9, <3>1, <3>2, <3>4
    <3>6. ASSUME NEW u \in open'
          PROVE  ToldInTheEnd(pending, u)'
      <4>1. u \in open /\ u \in Sessions /\ u # s /\ told'[u] = told[u] /\ ToldInTheEnd(queue, u)
        BY <1>1, <1>2, <1>3
      <4>2. Answered(pending, u)' = Answered(queue, u)
        <5>1. CASE queue = <<>>
          <6>1. ~Answer(Head(Head(pending')))
            BY <3>5, <5>1 DEF Answer
          <6>2. Answered(pending, u)' = told'[u]
            BY <6>1 DEF Answered, Answer
          <6>3. QED
            BY <4>1, <5>1, <6>2 DEF Answered
        <5>2. CASE queue # <<>>
          <6>1. pending' # <<>> /\ Head(pending') = Head(queue)
            BY <3>1, <3>2, <5>2
          <6>2. CASE Head(Head(queue)).to = u /\ Answer(Head(Head(queue)))
            <7>1. Knows(Head(Head(queue)))' = Knows(Head(Head(queue)))
              BY <6>2, AnswerFacts
            <7>2. Answered(pending, u)' = Knows(Head(Head(pending)))'
              BY <6>1, <6>2 DEF Answered, Answer
            <7>3. Knows(Head(Head(pending)))' = Knows(Head(Head(queue)))'
              BY <6>1 DEF Knows
            <7>4. QED
              BY <5>2, <6>2, <7>1, <7>2, <7>3 DEF Answered
          <6>3. CASE ~(Head(Head(queue)).to = u /\ Answer(Head(Head(queue))))
            BY <4>1, <6>1, <6>3 DEF Answered, Answer
          <6>4. QED
            BY <6>2, <6>3
        <5>3. QED
          BY <5>1, <5>2
      <4>3. \A x : Queued(pending, x)' <=>
                     Queued(queue, x) \/ \E k \in 1..Len(events) : events[k] = x
        <5>1. \A x : Queued(pending, x)' <=> Queued(Append(queue, events), x)
          BY <3>1 DEF Queued
        <5>2. QED
          BY <3>2, <5>1
      <4>4. \A o \in PeerIds : Queued(pending, PeerJoined(u, o))' <=> Queued(queue, PeerJoined(u, o))
        <5> TAKE o \in PeerIds
        <5>1. \A k \in 1..Len(events) : events[k] # PeerJoined(u, o)
          BY <2>4, <2>8, <4>1
        <5>2. QED
          BY <4>3, <5>1 DEF PeerJoined
      <4>5. \A o \in PeerIds : Queued(pending, PeerLeft(u, o))' <=>
              Queued(queue, PeerLeft(u, o)) \/ (InRoom(u, r) /\ o = p)
        <5> TAKE o \in PeerIds
        <5>1. (\E k \in 1..Len(events) : events[k] = PeerLeft(u, o)) <=> InRoom(u, r) /\ o = p
          BY <2>4, <2>8, <4>1
        <5>2. PeerLeft(u, o)' = PeerLeft(u, o)
          BY DEF PeerLeft
        <5>3. QED
          BY <4>3, <5>1, <5>2
      <4>6. /\ InRoom(u, r) => p \in Mates(u) /\ Mates(u)' = Mates(u) \ {p}
            /\ ~InRoom(u, r) => Mates(u)' = Mates(u)
        BY <2>5, <4>1
      <4>7. \A o \in PeerIds :
              /\ o \in Mates(u) <=> /\ o \in Answered(queue, u) \/ Queued(queue, PeerJoined(u, o))
                                    /\ ~Queued(queue, PeerLeft(u, o))
              /\ Queued(queue, PeerLeft(u, o))
                   => o \in Answered(queue, u) \/ Queued(queue, PeerJoined(u, o))
              /\ Queued(queue, PeerJoined(u, o)) => o \notin Answered(queue, u)
        BY <4>1 DEF ToldInTheEnd
      <4>8. QED
        BY <4>2, <4>4, <4>5, <4>6, <4>7 DEF ToldInTheEnd
    <3>7. QED
      BY <1>1, <3>1, <3>2, <3>3, <3>5, <3>6
  <2>12. QED
    BY <2>10, <2>11
<1>6. QED
  BY <1>4, <1>5

-----------------------------------------------------------------------------
(* A request.                                                              *)

\* Between two runs of the delivery loop everybody knows its room.
LEMMA AtRest ==
  ASSUME Idle, NEW u \in Sessions, ToldInTheEnd(pending, u)
  PROVE  \A p \in PeerIds : p \in told[u] <=> p \in Mates(u)
PROOF
<1>1. Answered(pending, u) = told[u]
  BY DEF Answered, Idle
<1>2. 1..Len(pending) = {}
  BY DEF Idle
<1>3. \A n : ~Queued(pending, n)
  BY <1>2 DEF Queued
<1>4. QED
  BY <1>1, <1>3 DEF ToldInTheEnd

\* The queue q, once it is the server's, tells u of its room.
LEMMA News ==
  ASSUME NEW u \in Sessions, NEW q, pending' = q, q # <<>>, NEW known,
         known = IF Head(Head(q)).to = u /\ Answer(Head(Head(q)))
                 THEN IF Head(Head(q)).type = "room.joined" THEN Head(Head(q)).peers ELSE {}
                 ELSE told'[u],
         \A p \in PeerIds :
           /\ p \in Mates(u)' <=> /\ p \in known \/ Queued(q, PeerJoined(u, p))
                                  /\ ~Queued(q, PeerLeft(u, p))
           /\ Queued(q, PeerLeft(u, p)) => p \in known \/ Queued(q, PeerJoined(u, p))
           /\ Queued(q, PeerJoined(u, p)) => p \notin known
  PROVE  ToldInTheEnd(pending, u)'
PROOF
<1>1. Answered(pending, u)' = known
  <2>1. CASE Head(Head(q)).to = u /\ Answer(Head(Head(q)))
    <3>1. Answered(pending, u)' = Knows(Head(Head(pending)))'
      BY <2>1 DEF Answered, Answer
    <3>2. Knows(Head(Head(pending)))' = Knows(Head(Head(q)))'
      BY DEF Knows
    <3>3. QED
      BY <2>1, <3>1, <3>2, AnswerFacts
  <2>2. CASE ~(Head(Head(q)).to = u /\ Answer(Head(Head(q))))
    BY <2>2 DEF Answered, Answer
  <2>3. QED
    BY <2>1, <2>2
<1>2. \A n : Queued(pending, n)' <=> Queued(q, n)
  BY DEF Queued
<1>3. \A p : PeerJoined(u, p)' = PeerJoined(u, p) /\ PeerLeft(u, p)' = PeerLeft(u, p)
  BY DEF PeerJoined, PeerLeft
<1>4. QED
  BY <1>1, <1>2, <1>3 DEF ToldInTheEnd

\* The answer to a request, with the news of it that others get behind it.
LEMMA AnswerKeeps ==
  ASSUME NEW a \in Deliveries, ~Verdict(a), ~Relay(a), a.type \notin {"peer.joined", "peer.left"},
         NEW g \in Seq(Deliveries), NEW type \in {"peer.joined", "peer.left"},
         \A k \in 1..Len(g) : g[k].type = type,
         \A j, k \in 1..Len(g) : g[j] = g[k] => j = k
  PROVE  /\ <<a>> \o g \in Batches /\ Orderly(<<<<a>> \o g>>)
         /\ Head(Head(<<<<a>> \o g>>)) = a
         /\ \A x : Queued(<<<<a>> \o g>>, x) <=> x = a \/ \E k \in 1..Len(g) : g[k] = x
PROOF
<1> DEFINE f == <<a>> \o g
<1>1. PICK n \in Nat : n = Len(g)
  OBVIOUS
<1>2. /\ f \in Seq(Deliveries) /\ Len(f) = n + 1 /\ f[1] = a
      /\ \A k \in 1..n : f[k + 1] = g[k]
  BY <1>1
<1>3. f \in Batches
  <2>1. Len(f) # 0 /\ Len(<< >>) = 0
    BY <1>2, EmptySeq
  <2>2. f # <<>>
    BY <2>1, Zenon
  <2>3. QED
    BY <1>2, <2>2 DEF Batches
<1> HIDE DEF f
<1>4. \A k \in 1..n + 1 : k = 1 \/ (k - 1 \in 1..n /\ (k - 1) + 1 = k)
  OBVIOUS
<1>5. \A k \in 1..n + 1 : k # 1 => f[k] = g[k - 1] /\ f[k].type = type
  BY <1>1, <1>2, <1>4, SMTT(30)
<1>6. \A k \in 1..n + 1 : ~Verdict(f[k]) /\ (k > 1 => k # 1)
  BY <1>2, <1>5 DEF Verdict
<1>7. FirstBatch(f)
  <2>1. \A k \in 1..n + 1 : k > 1 => f[k].type \in {"peer.joined", "peer.left", "signal.accepted"}
    BY <1>5, <1>6
  <2>2. \A j, k \in 1..n + 1 : f[j].type = "peer.joined" => f[k].type # "peer.left"
    <3>1. \A k \in 1..n + 1 : f[k].type \in {"peer.joined", "peer.left"} => f[k].type = type
      BY <1>2, <1>5
    <3>2. QED
      BY <3>1
  <2>3. ~Relay(f[1])
    BY <1>2
  <2>4. QED
    BY <1>2, <1>6, <2>1, <2>2, <2>3 DEF FirstBatch
<1>8. \A j, k \in 1..n + 1 :
        f[j] = f[k] /\ f[j].type \in {"peer.joined", "peer.left"} => j = k
  <2> SUFFICES ASSUME NEW j \in 1..n + 1, NEW k \in 1..n + 1, f[j] = f[k],
                      f[j].type \in {"peer.joined", "peer.left"}
               PROVE  j = k
    OBVIOUS
  <2>1. j # 1 /\ k # 1
    BY <1>2
  <2>2. /\ j - 1 \in 1..n /\ k - 1 \in 1..n /\ (j - 1) + 1 = j /\ (k - 1) + 1 = k
        /\ g[j - 1] = g[k - 1]
    BY <1>4, <1>5, <2>1
  <2>3. j - 1 = k - 1
    BY <1>1, <2>2
  <2>4. QED
    BY <2>2, <2>3
<1>9. /\ Orderly(<<f>>) /\ Head(Head(<<f>>)) = f[1]
      /\ \A x : Queued(<<f>>, x) <=> \E k \in 1..Len(f) : f[k] = x
  <2>1. \A j, k \in 1..Len(f) :
          f[j] = f[k] /\ f[j].type \in {"peer.joined", "peer.left"} => j = k
    BY <1>2, <1>8
  <2>2. QED
    BY <1>3, <1>7, <2>1, AloneKeeps
<1>10. ASSUME NEW x
       PROVE  (\E k \in 1..n + 1 : f[k] = x) <=> x = a \/ \E k \in 1..n : g[k] = x
  <2>1. 1 \in 1..n + 1 /\ \A k \in 1..n : k + 1 \in 1..n + 1
    OBVIOUS
  <2>2. QED
    BY <1>2, <1>4, <1>5, <2>1
<1>11. QED
  BY <1>1, <1>2, <1>3, <1>9, <1>10, ZenonT(30) DEF f

\* A batch returned to an idle server is the whole queue.
LEMMA ReturnFills ==
  ASSUME Idle, NEW f \in Batches, Return(f)
  PROVE  pending' = <<f>> /\ <<f>> # <<>>
BY DEF Return, Idle, Batches

\* An answer that is no news of the room leaves what everybody knows.
LEMMA QuietTells ==
  ASSUME Idle, NEW u \in Sessions, ToldInTheEnd(pending, u), NEW q, pending' = q, q # <<>>,
         told'[u] = told[u], Mates(u)' = Mates(u), ~Answer(Head(Head(q))),
         \A x : Queued(q, x) => x.type \notin {"peer.joined", "peer.left"}
  PROVE  ToldInTheEnd(pending, u)'
PROOF
<1>1. \A p : ~Queued(q, PeerJoined(u, p)) /\ ~Queued(q, PeerLeft(u, p))
  <2>1. \A p : PeerJoined(u, p).type = "peer.joined" /\ PeerLeft(u, p).type = "peer.left"
    BY DEF PeerJoined, PeerLeft
  <2>2. QED
    BY <2>1
<1>2. \A p \in PeerIds : p \in told[u] <=> p \in Mates(u)
  BY AtRest
<1>3. QED
  BY <1>1, <1>2, News

\* What a request leaves in the queue: batches in order, news that is true and
\* no verdict in front.
AnswerTold ==
  /\ Orderly(pending)'
  /\ \A u \in open : ToldInTheEnd(pending, u)'
  /\ pending' # <<>> /\ ~Verdict(Head(Head(pending')))

\* What a request may count on.
Ready(s) ==
  /\ RoomsInv /\ TransportTypeOK /\ Idle /\ s \in open /\ told' = told
  /\ \A u \in open : ToldInTheEnd(pending, u)

\* The requests that are refused, and those that change nobody's room.
LEMMA PlainTells ==
  ASSUME NEW s \in Sessions, Ready(s), NEW a \in Deliveries,
         a.type \in {"error", "invite.created"}, Return(<<a>>), UNCHANGED <<memberships, peers>>
  PROVE  AnswerTold
PROOF
<1>1. \A u \in Sessions : Mates(u)' = Mates(u)
  BY DEF Mates, IsMember, Members
<1>2. ~Verdict(a) /\ ~Relay(a) /\ ~Answer(a) /\ a.type \notin {"peer.joined", "peer.left"}
  BY DEF Verdict, Relay, Answer
<1> DEFINE g == << >>
<1>3. /\ g \in Seq(Deliveries) /\ 1..Len(g) = {} /\ <<a>> \o g = <<a>>
  OBVIOUS
<1> HIDE DEF g
<1>4. /\ <<a>> \in Batches /\ Orderly(<<<<a>>>>) /\ Head(Head(<<<<a>>>>)) = a
      /\ \A x : Queued(<<<<a>>>>, x) <=> x = a
  <2>1. /\ \A k \in 1..Len(g) : g[k].type = "peer.left"
        /\ \A j, k \in 1..Len(g) : g[j] = g[k] => j = k
    BY <1>3
  <2>2. /\ <<a>> \o g \in Batches /\ Orderly(<<<<a>> \o g>>) /\ Head(Head(<<<<a>> \o g>>)) = a
        /\ \A x : Queued(<<<<a>> \o g>>, x) <=> x = a \/ \E k \in 1..Len(g) : g[k] = x
    BY <1>2, <1>3, <2>1, AnswerKeeps
  <2>3. QED
    BY <1>3, <2>2
<1>5. pending' = <<<<a>>>> /\ <<<<a>>>> # <<>>
  BY <1>4, ReturnFills DEF Ready
<1>6. \A u \in open : ToldInTheEnd(pending, u)'
  <2> TAKE u \in open
  <2>1. u \in Sessions /\ told'[u] = told[u] /\ ToldInTheEnd(pending, u) /\ Idle
    BY DEF Ready, RoomsInv, SocketsInv
  <2>2. \A x : Queued(<<<<a>>>>, x) => x.type \notin {"peer.joined", "peer.left"}
    BY <1>2, <1>4
  <2>3. ~Answer(Head(Head(<<<<a>>>>)))
    BY <1>2, <1>4
  <2>4. QED
    BY <1>1, <1>5, <2>1, <2>2, <2>3, QuietTells
<1>7. QED
  BY <1>2, <1>4, <1>5, <1>6, OrderMoves DEF AnswerTold

\* A signal and its verdict are no news of the room either.
LEMMA SignalTells ==
  ASSUME NEW s \in Sessions, Ready(s), NEW r \in RoomIds, NEW p \in PeerIds, SignalSend(s, r, p)
  PROVE  AnswerTold
PROOF
<1> DEFINE a == Reply(peers[r][p], "signal.received")
           v == Reply(s, "signal.accepted")
           f == <<a, v>>
<1>1. peers[r][p] \in Sessions
  BY DEF SignalSend, Ready, RoomsInv, RegistryInv, RegistryTypeOK
<1>2. a \in Deliveries /\ v \in Deliveries
  BY <1>1, MessagesTyped
<1>3. a.type = "signal.received" /\ v.type = "signal.accepted"
  BY DEF Reply
<1>4. Return(f) /\ UNCHANGED <<memberships, peers>>
  BY DEF SignalSend
<1> HIDE DEF a, v
<1>5. /\ f \in Batches /\ Len(f) = 2 /\ f[1] = a /\ f[2] = v
      /\ \A k : k \in 1..Len(f) <=> k = 1 \/ k = 2
  BY <1>2 DEF Batches
<1> HIDE DEF f
<1>6. FirstBatch(f)
  BY <1>3, <1>5 DEF FirstBatch, Verdict, Relay
<1>7. /\ \A k \in 1..Len(f) : f[k].type \notin {"peer.joined", "peer.left"}
      /\ ~Answer(a) /\ ~Verdict(a)
  BY <1>3, <1>5 DEF Answer, Verdict
<1>8. /\ Orderly(<<f>>) /\ Head(Head(<<f>>)) = a
      /\ \A x : Queued(<<f>>, x) <=> \E k \in 1..Len(f) : f[k] = x
  BY <1>5, <1>6, <1>7, AloneKeeps
<1>9. pending' = <<f>> /\ <<f>> # <<>>
  BY <1>4, <1>5, ReturnFills DEF Ready
<1>10. \A u \in Sessions : Mates(u)' = Mates(u)
  BY <1>4 DEF Mates, IsMember, Members
<1>11. \A u \in open : ToldInTheEnd(pending, u)'
  <2> TAKE u \in open
  <2>1. u \in Sessions /\ told'[u] = told[u] /\ ToldInTheEnd(pending, u) /\ Idle
    BY DEF Ready, RoomsInv, SocketsInv
  <2>2. \A x : Queued(<<f>>, x) => x.type \notin {"peer.joined", "peer.left"}
    BY <1>7, <1>8
  <2>3. ~Answer(Head(Head(<<f>>)))
    BY <1>7, <1>8
  <2>4. QED
    BY <1>9, <1>10, <2>1, <2>2, <2>3, QuietTells
<1>12. QED
  BY <1>7, <1>8, <1>9, <1>11, OrderMoves DEF AnswerTold

\* Who opens a room is alone in it.
LEMMA CreateTells ==
  ASSUME NEW s \in Sessions, Ready(s), NEW r \in RoomIds, NEW p \in PeerIds, RoomCreate(s, r, p)
  PROVE  AnswerTold
PROOF
<1> DEFINE a == Reply(s, "room.created")
           g == << >>
           member == [roomId |-> r, peerId |-> p]
<1>0. RegistryInv /\ Idle /\ told' = told /\ open \in SUBSET Sessions
  BY DEF Ready, RoomsInv, SocketsInv
<1>1. a \in Deliveries /\ a.type = "room.created" /\ a.to = s
  BY MessagesTyped DEF Reply
<1>2. Return(<<a>>)
  BY DEF RoomCreate
<1> HIDE DEF a
<1>3. ~Verdict(a) /\ ~Relay(a) /\ Answer(a) /\ a.type \notin {"peer.joined", "peer.left"}
  BY <1>1 DEF Verdict, Relay, Answer
<1>4. g \in Seq(Deliveries) /\ 1..Len(g) = {} /\ <<a>> \o g = <<a>>
  BY <1>1
<1> HIDE DEF g
<1>5. /\ <<a>> \in Batches /\ Orderly(<<<<a>>>>) /\ Head(Head(<<<<a>>>>)) = a
      /\ \A x : Queued(<<<<a>>>>, x) <=> x = a
  <2>1. /\ \A k \in 1..Len(g) : g[k].type = "peer.left"
        /\ \A j, k \in 1..Len(g) : g[j] = g[k] => j = k
    BY <1>4
  <2>2. /\ <<a>> \o g \in Batches /\ Orderly(<<<<a>> \o g>>) /\ Head(Head(<<<<a>> \o g>>)) = a
        /\ \A x : Queued(<<<<a>> \o g>>, x) <=> x = a \/ \E k \in 1..Len(g) : g[k] = x
    BY <1>1, <1>3, <1>4, <2>1, AnswerKeeps
  <2>3. QED
    BY <1>4, <2>2
<1>6. pending' = <<<<a>>>> /\ <<<<a>>>> # <<>>
  BY <1>0, <1>2, <1>5, ReturnFills
<1>7. \A x, q : ~Queued(<<<<a>>>>, PeerJoined(x, q)) /\ ~Queued(<<<<a>>>>, PeerLeft(x, q))
  <2>1. \A x, q : PeerJoined(x, q).type = "peer.joined" /\ PeerLeft(x, q).type = "peer.left"
    BY DEF PeerJoined, PeerLeft
  <2>2. QED
    BY <1>3, <1>5, <2>1
<1>8. /\ memberships \in [Sessions -> Membership \cup {None}]
      /\ peers \in [RoomIds -> [PeerIds -> Sessions \cup {None}]]
      /\ memberships' = [memberships EXCEPT ![s] = member]
      /\ peers' = [peers EXCEPT ![r] = [NoPeers EXCEPT ![p] = s]]
      /\ Members(r) = {}
  BY <1>0 DEF RoomCreate, RegistryInv, RegistryTypeOK, RoomsAreOccupied
<1>9. Mates(s)' = {}
  <2>1. memberships'[s] = member /\ member # None /\ member.roomId = r /\ member.peerId = p
    BY <1>8, NoneAssumption
  <2>2. \A o \in PeerIds : peers'[r][o] # None => o = p
    BY <1>8 DEF NoPeers
  <2>3. Members(r)' \subseteq {p}
    BY <2>2 DEF Members
  <2>4. QED
    BY <2>1, <2>3 DEF Mates, IsMember
<1>10. ASSUME NEW u \in Sessions, u # s
       PROVE  Mates(u)' = Mates(u)
  <2>1. memberships'[u] = memberships[u]
    BY <1>8, <1>10
  <2>2. CASE ~IsMember(u)
    BY <2>1, <2>2 DEF Mates, IsMember
  <2>3. CASE IsMember(u)
    <3>1. PICK q \in RoomIds, o \in PeerIds : memberships[u] = [roomId |-> q, peerId |-> o]
      BY <1>8, <2>3 DEF IsMember, Membership
    <3>2. peers[q][o] = u
      BY <1>0, <2>3, <3>1 DEF RegistryInv, IndexesAgree
    <3>3. q # r
      BY <1>8, <3>2, NoneAssumption DEF Members
    <3>4. Members(q)' = Members(q)
      BY <1>8, <3>3 DEF Members
    <3>5. QED
      BY <2>1, <2>3, <3>1, <3>4 DEF Mates, IsMember
  <2>4. QED
    BY <2>2, <2>3
<1>11. \A u \in open : ToldInTheEnd(pending, u)'
  <2> TAKE u \in open
  <2>1. u \in Sessions /\ told'[u] = told[u] /\ ToldInTheEnd(pending, u)
    BY <1>0 DEF Ready
  <2>2. \A q \in PeerIds : q \in told[u] <=> q \in Mates(u)
    BY <1>0, <2>1, AtRest
  <2>3. CASE u = s
    BY <1>1, <1>3, <1>5, <1>6, <1>7, <1>9, <2>1, <2>3, News, SMTT(30)
  <2>4. CASE u # s
    <3>1. Head(Head(<<<<a>>>>)).to # u /\ Mates(u)' = Mates(u)
      BY <1>1, <1>5, <1>10, <2>1, <2>4
    <3>2. QED
      BY <1>6, <1>7, <2>1, <2>2, <3>1, News
  <2>5. QED
    BY <2>3, <2>4
<1>12. QED
  BY <1>3, <1>5, <1>6, <1>11, OrderMoves DEF AnswerTold

\* Who joins learns who is there, and they learn of it.
LEMMA JoinTells ==
  ASSUME NEW s \in Sessions, Ready(s), NEW r \in RoomIds, NEW t \in Tokens, NEW p \in PeerIds,
         RoomJoin(s, r, t, p)
  PROVE  AnswerTold
PROOF
<1>0. RegistryInv /\ Idle /\ told' = told /\ open \in SUBSET Sessions
  BY DEF Ready, RoomsInv, SocketsInv
<1> DEFINE a == Joined(s, p, Members(r))
<1>1. PICK order \in SetToSeqs(SessionsOf(peers[r])) :
        Return(<<a>> \o [i \in DOMAIN order |-> PeerJoined(order[i], p)])
  BY DEF RoomJoin
<1> DEFINE g == [i \in DOMAIN order |-> PeerJoined(order[i], p)]
<1>2. a \in Deliveries /\ a.type = "room.joined" /\ a.to = s /\ a.peers = Members(r)
  BY MessagesTyped DEF Joined, Members
<1>3. ~Verdict(a) /\ ~Relay(a) /\ Answer(a) /\ a.type \notin {"peer.joined", "peer.left"}
  BY <1>2 DEF Verdict, Relay, Answer
<1>4. /\ order \in Seq(Sessions) /\ Len(order) \in Nat /\ DOMAIN order = 1..Len(order)
      /\ \A i, j \in 1..Len(order) : order[i] = order[j] => i = j
      /\ \A u \in Sessions :
           (\E i \in 1..Len(order) : order[i] = u) <=> (\E o \in PeerIds : peers[r][o] = u)
  <2>1. peers[r] \in [PeerIds -> Sessions \cup {None}]
    BY <1>0 DEF RegistryInv, RegistryTypeOK
  <2>2. QED
    BY <2>1, OrderFacts
<1>5. g \in Seq(Deliveries)
  BY <1>4, BroadcastTyped
<1>6. /\ Len(g) = Len(order)
      /\ \A i \in 1..Len(order) : g[i] = PeerJoined(order[i], p) /\ order[i] \in Sessions
  BY <1>4
<1>7. Return(<<a>> \o g)
  BY <1>1
<1> HIDE DEF a, g
<1>8. /\ \A u, v, x, y : PeerJoined(u, x) = PeerJoined(v, y) <=> u = v /\ x = y
      /\ \A u, x : PeerJoined(u, x).type = "peer.joined" /\ PeerLeft(u, x).type = "peer.left"
  BY DEF PeerJoined, PeerLeft
<1>9. /\ \A k \in 1..Len(g) : g[k].type = "peer.joined"
      /\ \A j, k \in 1..Len(g) : g[j] = g[k] => j = k
  BY <1>4, <1>6, <1>8
<1> DEFINE q == <<<<a>> \o g>>
<1>10. /\ <<a>> \o g \in Batches /\ Orderly(q) /\ Head(Head(q)) = a
       /\ \A x : Queued(q, x) <=> x = a \/ \E k \in 1..Len(g) : g[k] = x
  BY <1>2, <1>3, <1>5, <1>9, AnswerKeeps
<1>11. pending' = q /\ q # <<>>
  BY <1>0, <1>7, <1>10, ReturnFills
<1> HIDE DEF q
<1>12. /\ Mates(s)' = Members(r)
       /\ \A u \in Sessions : u # s =>
            /\ InRoom(u, r) => p \notin Mates(u) /\ Mates(u)' = Mates(u) \cup {p}
            /\ ~InRoom(u, r) => Mates(u)' = Mates(u)
       /\ \A u \in Sessions : (\E o \in PeerIds : peers[r][o] = u) <=> InRoom(u, r)
       /\ ~InRoom(s, r)
  BY <1>0, JoinMates
<1>13. \A u \in Sessions, x \in PeerIds :
         /\ Queued(q, PeerJoined(u, x)) <=> InRoom(u, r) /\ x = p
         /\ ~Queued(q, PeerLeft(u, x))
  <2> TAKE u \in Sessions, x \in PeerIds
  <2>1. PeerJoined(u, x) # a /\ PeerLeft(u, x) # a
    BY <1>3, <1>8
  <2>2. (\E k \in 1..Len(g) : g[k] = PeerJoined(u, x)) <=> InRoom(u, r) /\ x = p
    BY <1>4, <1>6, <1>8, <1>12
  <2>3. \A k \in 1..Len(g) : g[k] # PeerLeft(u, x)
    BY <1>8, <1>9
  <2>4. QED
    BY <1>10, <2>1, <2>2, <2>3
<1>14. \A u \in open : ToldInTheEnd(pending, u)'
  <2> TAKE u \in open
  <2>1. u \in Sessions /\ told'[u] = told[u] /\ ToldInTheEnd(pending, u)
    BY <1>0 DEF Ready
  <2>2. \A x \in PeerIds : x \in told[u] <=> x \in Mates(u)
    BY <1>0, <2>1, AtRest
  <2>3. CASE u = s
    <3>1. \A x \in PeerIds :
            /\ x \in Mates(u)' <=> x \in Members(r)
            /\ ~Queued(q, PeerJoined(u, x)) /\ ~Queued(q, PeerLeft(u, x))
      BY <1>12, <1>13, <2>1, <2>3
    <3>2. Members(r) = IF Head(Head(q)).to = u /\ Answer(Head(Head(q)))
                       THEN IF Head(Head(q)).type = "room.joined" THEN Head(Head(q)).peers ELSE {}
                       ELSE told'[u]
      BY <1>2, <1>3, <1>10, <2>3
    <3>3. QED
      BY <1>11, <2>1, <3>1, <3>2, News
  <2>4. CASE u # s
    <3>1. told'[u] = IF Head(Head(q)).to = u /\ Answer(Head(Head(q)))
                     THEN IF Head(Head(q)).type = "room.joined" THEN Head(Head(q)).peers ELSE {}
                     ELSE told'[u]
      BY <1>2, <1>10, <2>4
    <3>2. \A x \in PeerIds :
            /\ x \in Mates(u)' <=> x \in told'[u] \/ Queued(q, PeerJoined(u, x))
            /\ Queued(q, PeerJoined(u, x)) => x \notin told'[u]
            /\ ~Queued(q, PeerLeft(u, x))
      BY <1>12, <1>13, <2>1, <2>2, <2>4
    <3>3. QED
      BY <1>11, <2>1, <3>1, <3>2, News
  <2>5. QED
    BY <2>3, <2>4
<1>15. QED
  BY <1>3, <1>10, <1>11, <1>14, OrderMoves DEF AnswerTold

\* Who leaves knows of nobody any more, and the others learn that it left.
LEMMA LeaveTells ==
  ASSUME NEW s \in Sessions, Ready(s), NEW r \in RoomIds, RoomLeave(s, r)
  PROVE  AnswerTold
PROOF
<1>0. RegistryInv /\ Idle /\ told' = told /\ open \in SUBSET Sessions /\ IsMember(s)
  BY DEF Ready, RoomsInv, SocketsInv, RoomLeave, InRoom
<1> DEFINE a == Reply(s, "room.left")
<1>1. PICK g \in LeaveEvents(s) : Return(<<a>> \o g)
  BY DEF RoomLeave
<1>2. PICK p \in PeerIds : memberships[s] = [roomId |-> r, peerId |-> p]
  BY <1>0 DEF RoomLeave, InRoom, IsMember, Membership, RegistryInv, RegistryTypeOK
<1>3. a \in Deliveries /\ a.type = "room.left" /\ a.to = s
  BY MessagesTyped DEF Reply
<1> HIDE DEF a
<1>4. ~Verdict(a) /\ ~Relay(a) /\ Answer(a) /\ a.type \notin {"peer.joined", "peer.left"}
  BY <1>3 DEF Verdict, Relay, Answer
<1>5. g \in LeaveEvents(s)
  OBVIOUS
<1>6. /\ g \in Seq(Deliveries)
      /\ \A k \in 1..Len(g) : \E u \in Sessions : g[k] = PeerLeft(u, p) /\ u # s /\ InRoom(u, r)
      /\ \A j, k \in 1..Len(g) : g[j] = g[k] => j = k
      /\ \A u \in Sessions :
           u # s /\ InRoom(u, r) => \E k \in 1..Len(g) : g[k] = PeerLeft(u, p)
  BY <1>0, <1>2, <1>5, FarewellFacts
<1>7. /\ \A u, v, x, y : PeerLeft(u, x) = PeerLeft(v, y) <=> u = v /\ x = y
      /\ \A u, x : PeerJoined(u, x).type = "peer.joined" /\ PeerLeft(u, x).type = "peer.left"
  BY DEF PeerJoined, PeerLeft
<1>8. \A k \in 1..Len(g) : g[k].type = "peer.left"
  BY <1>6, <1>7
<1> DEFINE q == <<<<a>> \o g>>
<1>9. /\ <<a>> \o g \in Batches /\ Orderly(q) /\ Head(Head(q)) = a
      /\ \A x : Queued(q, x) <=> x = a \/ \E k \in 1..Len(g) : g[k] = x
  BY <1>3, <1>4, <1>6, <1>8, AnswerKeeps
<1>10. pending' = q /\ q # <<>>
  BY <1>0, <1>1, <1>9, ReturnFills
<1> HIDE DEF q
<1>11. Leave(s, expireInvitations)
  BY DEF RoomLeave
<1>12. /\ Mates(s)' = {}
       /\ \A u \in Sessions : u # s =>
            /\ InRoom(u, r) => p \in Mates(u) /\ Mates(u)' = Mates(u) \ {p}
            /\ ~InRoom(u, r) => Mates(u)' = Mates(u)
  BY <1>0, <1>2, <1>11, LeaveMates
<1>13. \A u \in Sessions, x \in PeerIds :
         /\ Queued(q, PeerLeft(u, x)) <=> u # s /\ InRoom(u, r) /\ x = p
         /\ ~Queued(q, PeerJoined(u, x))
  <2> TAKE u \in Sessions, x \in PeerIds
  <2>1. PeerJoined(u, x) # a /\ PeerLeft(u, x) # a
    BY <1>4, <1>7
  <2>2. (\E k \in 1..Len(g) : g[k] = PeerLeft(u, x)) <=> u # s /\ InRoom(u, r) /\ x = p
    BY <1>6, <1>7
  <2>3. \A k \in 1..Len(g) : g[k] # PeerJoined(u, x)
    BY <1>7, <1>8
  <2>4. QED
    BY <1>9, <2>1, <2>2, <2>3
<1>14. \A u \in open : ToldInTheEnd(pending, u)'
  <2> TAKE u \in open
  <2>1. u \in Sessions /\ told'[u] = told[u] /\ ToldInTheEnd(pending, u)
    BY <1>0 DEF Ready
  <2>2. \A x \in PeerIds : x \in told[u] <=> x \in Mates(u)
    BY <1>0, <2>1, AtRest
  <2>3. CASE u = s
    <3>1. \A x \in PeerIds :
            /\ x \notin Mates(u)'
            /\ ~Queued(q, PeerJoined(u, x)) /\ ~Queued(q, PeerLeft(u, x))
      BY <1>12, <1>13, <2>1, <2>3
    <3>2. {} = IF Head(Head(q)).to = u /\ Answer(Head(Head(q)))
               THEN IF Head(Head(q)).type = "room.joined" THEN Head(Head(q)).peers ELSE {}
               ELSE told'[u]
      BY <1>3, <1>4, <1>9, <2>3
    <3>3. QED
      BY <1>10, <2>1, <3>1, <3>2, News
  <2>4. CASE u # s
    <3>1. told'[u] = IF Head(Head(q)).to = u /\ Answer(Head(Head(q)))
                     THEN IF Head(Head(q)).type = "room.joined" THEN Head(Head(q)).peers ELSE {}
                     ELSE told'[u]
      BY <1>3, <1>9, <2>4
    <3>2. \A x \in PeerIds :
            /\ x \in Mates(u)' <=> x \in told'[u] /\ ~Queued(q, PeerLeft(u, x))
            /\ Queued(q, PeerLeft(u, x)) => x \in told'[u]
            /\ ~Queued(q, PeerJoined(u, x))
      BY <1>12, <1>13, <2>1, <2>2, <2>4
    <3>3. QED
      BY <1>10, <2>1, <3>1, <3>2, News
  <2>5. QED
    BY <2>3, <2>4
<1>15. QED
  BY <1>4, <1>9, <1>10, <1>14, OrderMoves DEF AnswerTold

\* Whatever a client asks for.
LEMMA HandleTells ==
  ASSUME NEW s \in Sessions, Ready(s), handle(s)
  PROVE  AnswerTold
PROOF
<1>1. ASSUME NEW code \in {"busy", "resource_limit", "invalid_invitation", "room_full",
                           "not_in_room", "room_mismatch", "invalid_target", "peer_not_found"},
             Fail(s, code)
      PROVE  AnswerTold
  <2>1. Error(s, code) \in Deliveries /\ Error(s, code).type = "error"
    BY MessagesTyped DEF Error
  <2>2. QED
    BY <1>1, <2>1, PlainTells DEF Fail
<1>2. ASSUME NEW r \in RoomIds, NEW t \in Tokens, InviteCreate(s, r, t)
      PROVE  AnswerTold
  <2>1. Reply(s, "invite.created") \in Deliveries /\ Reply(s, "invite.created").type = "invite.created"
    BY MessagesTyped DEF Reply
  <2>2. QED
    BY <1>2, <2>1, PlainTells DEF InviteCreate, CreateInvitation
<1>3. QED
  BY <1>1, <1>2, CreateTells, JoinTells, LeaveTells, SignalTells
     DEF handle, RoomCreateRefused, RoomJoinRefused, HasPlace, InviteCreateRefused, NotAMemberOf,
         SignalSendRefused

-----------------------------------------------------------------------------
(* Every step.                                                             *)

\* The fate of a signal is known exactly when its verdict is next.
LEMMA FateStep ==
  ASSUME TransportTypeOK, ~Idle, Orderly(pending), FateKnown,
         \/ /\ reached' = ((reached \/ Relay(Head(Head(pending)))) /\ ~BatchEnds)
            /\ relayFailed' = (relayFailed /\ ~BatchEnds)
         \/ /\ relayFailed' = ((relayFailed \/ Relay(Head(Head(pending)))) /\ ~BatchEnds)
            /\ reached' = (reached /\ ~BatchEnds),
         Popped # <<>> => pending' # <<>> /\ Head(pending') = Head(Popped),
         Popped = <<>> /\ pending' # <<>> => ~Verdict(Head(Head(pending')))
  PROVE  FateKnown'
PROOF
<1> DEFINE m == Head(Head(pending))
<1>1. /\ PendingOK /\ pending \in Seq(Batches) /\ pending # <<>>
      /\ Popped = PoppedOf(pending) /\ Popped \in Seq(Batches)
  BY NoAnswerLeft DEF TransportTypeOK, PendingOK, Idle
<1>2. m = pending[1][1] /\ Head(pending) = pending[1]
  BY <1>1, PoppedAt
<1>3. Popped # <<>> => Head(Head(Popped)) = Popped[1][1]
  BY <1>1, PoppedAt
<1>4. /\ Popped # <<>> /\ Verdict(Head(Head(Popped))) => Relay(m)
      /\ Relay(m) => Popped # <<>> /\ ~BatchEnds /\ Verdict(Head(Head(Popped)))
      /\ Verdict(m) => BatchEnds
  BY <1>1, <1>2, <1>3, PopKeeps DEF BatchEnds
<1>5. ~(Relay(m) /\ Verdict(m))
  BY DEF Relay, Verdict
<1>6. relayFailed \/ reached => Verdict(m)
  BY DEF FateKnown
<1>7. Idle' <=> pending' = <<>>
  BY DEF Idle
<1>8. Verdict(Head(Head(pending)))' <=> Verdict(Head(Head(pending')))
  BY DEF Verdict
<1> HIDE DEF m
<1>9. relayFailed \in BOOLEAN /\ reached \in BOOLEAN
  BY DEF TransportTypeOK
<1>10. CASE Relay(m)
  <2>1. ~relayFailed /\ ~reached /\ ~BatchEnds
    BY <1>4, <1>5, <1>6, <1>10
  <2>2. relayFailed' <=> ~reached'
    BY <1>10, <2>1 DEF m
  <2>3. pending' # <<>> /\ Verdict(Head(Head(pending')))
    BY <1>4, <1>10
  <2>4. QED
    BY <1>7, <1>8, <2>2, <2>3 DEF FateKnown
<1>11. CASE ~Relay(m)
  <2>1. ~relayFailed' /\ ~reached'
    BY <1>4, <1>6, <1>11 DEF m
  <2>2. pending' # <<>> => ~Verdict(Head(Head(pending')))
    BY <1>4, <1>11
  <2>3. QED
    BY <1>7, <1>8, <2>1, <2>2 DEF FateKnown
<1>12. QED
  BY <1>10, <1>11

\* A delivery that goes out.
LEMMA SendKeeps ==
  ASSUME RoomsInv, TransportTypeOK, ToldInv, SendSucceeds
  PROVE  ToldInv'
PROOF
<1> DEFINE m == Head(Head(pending))
<1>1. /\ ~Idle /\ PendingOK /\ Orderly(pending) /\ open \in SUBSET Sessions /\ FateKnown
      /\ \A u \in open : ToldInTheEnd(pending, u)
  BY DEF SendSucceeds, TransportTypeOK, ToldInv
<1>2. Popped \in Seq(Batches) /\ Orderly(Popped)
  BY <1>1, NoAnswerLeft
<1>3. /\ Outgoing(m).to = m.to
      /\ m.to \in open
      /\ told' = [told EXCEPT ![m.to] = Knows(Outgoing(m))]
      /\ pending' = Popped
      /\ open' = open
      /\ relayFailed' = (relayFailed /\ ~BatchEnds)
      /\ reached' = ((reached \/ Relay(Outgoing(m))) /\ ~BatchEnds)
      /\ UNCHANGED <<memberships, peers>>
  <2>1. Outgoing(m).to = m.to
    BY DEF Outgoing, Error
  <2>2. QED
    BY <2>1 DEF SendSucceeds, roomVars
<1>4. \A u \in Sessions : u # m.to => told'[u] = told[u]
  BY <1>1, <1>3 DEF TransportTypeOK
<1>5. \A u \in Sessions : Mates(u)' = Mates(u)
  BY <1>3 DEF Mates, IsMember, Members
<1>6. ASSUME NEW u \in open
      PROVE  ToldInTheEnd(pending, u)'
  <2>1. u \in Sessions /\ ToldInTheEnd(pending, u)
    BY <1>1
  <2>2. CASE u = m.to
    BY <1>1, <2>1, <2>2, SelfTold
  <2>3. CASE u # m.to
    <3>1. ToldInTheEnd(Popped, u)
      BY <1>1, <2>1, <2>3, OthersTold
    <3>2. QED
      BY <1>3, <1>4, <1>5, <2>1, <2>3, <3>1, CarryOver
  <2>4. QED
    BY <2>2, <2>3
<1>7. Orderly(pending)'
  BY <1>2, <1>3, OrderMoves
<1>8. \A u \in Sessions : u \notin open' => told'[u] = {}
  BY <1>1, <1>3, <1>4 DEF ToldInv
<1>9. FateKnown'
  <2>1. reached' = ((reached \/ Relay(m)) /\ ~BatchEnds)
    <3>1. CASE Outgoing(m) = m
      BY <1>3, <3>1
    <3>2. CASE Outgoing(m) # m
      <4>1. Verdict(m) /\ ~Relay(Outgoing(m)) /\ ~Relay(m)
        BY <3>2 DEF Outgoing, Error, Verdict, Relay
      <4>2. QED
        BY <1>3, <4>1
    <3>3. QED
      BY <3>1, <3>2
  <2>2. QED
    BY <1>1, <1>3, <2>1, FateStep
<1>10. QED
  BY <1>3, <1>6, <1>7, <1>8, <1>9 DEF ToldInv

\* A delivery that does not, whether or not its client is closed for it.
LEMMA FailKeeps ==
  ASSUME RoomsInv, TransportTypeOK, ToldInv, SendFails
  PROVE  ToldInv'
PROOF
<1> DEFINE m == Head(Head(pending))
<1>1. /\ ~Idle /\ PendingOK /\ Orderly(pending) /\ open \in SUBSET Sessions /\ FateKnown
      /\ \A u \in open : ToldInTheEnd(pending, u)
      /\ \A u \in Sessions : u \notin open => told[u] = {}
      /\ relayFailed' = ((relayFailed \/ Relay(m)) /\ ~BatchEnds)
      /\ reached' = (reached /\ ~BatchEnds)
  BY DEF SendFails, Unsent, TransportTypeOK, ToldInv
<1>2. Popped \in Seq(Batches) /\ Orderly(Popped)
  BY <1>1, NoAnswerLeft
<1>3. \A u \in open : u # m.to => ToldInTheEnd(Popped, u)
  BY <1>1, OthersTold
<1>4. CASE m.to \notin open /\ pending' = Popped /\ UNCHANGED <<roomVars, open, told>>
  <2>1. \A u \in Sessions : Mates(u)' = Mates(u)
    BY <1>4 DEF roomVars, Mates, IsMember, Members
  <2>2. \A u \in open' : ToldInTheEnd(pending, u)'
    BY <1>1, <1>3, <1>4, <2>1, CarryOver
  <2>3. Orderly(pending)'
    BY <1>2, <1>4, OrderMoves
  <2>4. FateKnown'
    BY <1>1, <1>4, FateStep
  <2>5. QED
    BY <1>1, <1>4, <2>2, <2>3, <2>4 DEF ToldInv
<1>5. CASE m.to \in open /\ removeClient(m.to, Popped)
  <2>1. /\ Orderly(pending)'
        /\ \A u \in open' : ToldInTheEnd(pending, u)'
        /\ open' = open \ {m.to} /\ told' = [told EXCEPT ![m.to] = {}]
        /\ Popped # <<>> => pending' # <<>> /\ Head(pending') = Head(Popped)
        /\ Popped = <<>> /\ pending' # <<>> => Head(Head(pending')).type = "peer.left"
    BY <1>2, <1>3, <1>5, ClosingTells
  <2>2. Popped = <<>> /\ pending' # <<>> => ~Verdict(Head(Head(pending')))
    BY <2>1 DEF Verdict
  <2>3. FateKnown'
    BY <1>1, <2>1, <2>2, FateStep
  <2>4. \A u \in Sessions : u \notin open' => told'[u] = {}
    BY <1>1, <2>1 DEF TransportTypeOK
  <2>5. QED
    BY <2>1, <2>3, <2>4 DEF ToldInv
<1>6. QED
  BY <1>4, <1>5 DEF SendFails

\* Every step keeps what is told true.
LEMMA ToldPreserved ==
  ASSUME RoomsInv, TransportTypeOK, ToldInv, [Next]_allVars
  PROVE  ToldInv'
PROOF
<1>0. /\ open \in SUBSET Sessions /\ told \in [Sessions -> SUBSET PeerIds] /\ MembersAreOpen
      /\ Orderly(pending) /\ FateKnown
      /\ \A u \in open : ToldInTheEnd(pending, u)
      /\ \A u \in Sessions : u \notin open => told[u] = {}
  BY DEF TransportTypeOK, ToldInv, RoomsInv, SocketsInv
<1>1. ASSUME UNCHANGED <<memberships, peers, pending, open, told, relayFailed, reached>>
      PROVE  ToldInv'
  <2>1. \A u \in Sessions : Mates(u)' = Mates(u)
    BY <1>1 DEF Mates, IsMember, Members
  <2>2. \A u \in open' : ToldInTheEnd(pending, u)'
    BY <1>0, <1>1, <2>1, CarryOver
  <2>3. Orderly(pending)'
    BY <1>0, <1>1, OrderMoves
  <2>4. FateKnown'
    BY <1>0, <1>1 DEF FateKnown, Idle, Verdict
  <2>5. QED
    BY <1>0, <1>1, <2>2, <2>3, <2>4 DEF ToldInv
<1>2. CASE UNCHANGED allVars \/ maintainConnections \/ Tick
  BY <1>1, <1>2 DEF allVars, vars, roomVars, serverVars, maintainConnections, Tick
<1>3. ASSUME NEW s \in Sessions, registerClient(s)
      PROVE  ToldInv'
  <2>1. /\ Idle /\ s \notin open /\ open' = open \cup {s}
        /\ UNCHANGED <<memberships, peers, pending, told, relayFailed, reached>>
    BY <1>3 DEF registerClient, vars, roomVars
  <2>2. \A u \in Sessions : Mates(u)' = Mates(u)
    BY <2>1 DEF Mates, IsMember, Members
  <2>3. ToldInTheEnd(pending, s)
    <3>1. 1..Len(pending) = {} /\ pending = <<>>
      BY <2>1 DEF Idle
    <3>2. \A n : ~Queued(pending, n)
      BY <3>1 DEF Queued
    <3>3. Mates(s) = {} /\ Answered(pending, s) = {}
      BY <1>0, <2>1, <3>1 DEF MembersAreOpen, Mates, Answered
    <3>4. QED
      BY <3>2, <3>3 DEF ToldInTheEnd
  <2>4. \A u \in open' : ToldInTheEnd(pending, u)'
    <3> TAKE u \in open'
    <3>1. u \in Sessions /\ ToldInTheEnd(pending, u) /\ told'[u] = told[u] /\ pending' = pending
      BY <1>0, <2>1, <2>3
    <3>2. QED
      BY <2>2, <3>1, CarryOver
  <2>5. Orderly(pending)'
    BY <1>0, <2>1, OrderMoves
  <2>6. FateKnown'
    BY <1>0, <2>1 DEF FateKnown, Idle, Verdict
  <2>7. QED
    BY <1>0, <2>1, <2>4, <2>5, <2>6 DEF ToldInv
<1>4. ASSUME NEW s \in Sessions, receive(s)
      PROVE  ToldInv'
  <2>1. Ready(s) /\ handle(s)
    BY <1>0, <1>4 DEF receive, serverVars, Ready
  <2>2. /\ Orderly(pending)' /\ \A u \in open : ToldInTheEnd(pending, u)'
        /\ pending' # <<>> /\ ~Verdict(Head(Head(pending')))
    BY <2>1, HandleTells DEF AnswerTold
  <2>3. Idle /\ UNCHANGED <<open, told, relayFailed, reached>>
    BY <1>4 DEF receive, serverVars
  <2>4. FateKnown'
    BY <1>0, <2>2, <2>3 DEF FateKnown, Verdict
  <2>5. QED
    BY <1>0, <2>2, <2>3, <2>4 DEF ToldInv
<1>5. ASSUME NEW s \in Sessions, Drop(s)
      PROVE  ToldInv'
  <2>1. Idle /\ s \in open /\ removeClient(s, pending) /\ UNCHANGED <<relayFailed, reached>>
    BY <1>5 DEF Drop
  <2>2. pending \in Seq(Batches) /\ pending = <<>>
    BY <2>1 DEF TransportTypeOK, PendingOK, Idle
  <2>3. /\ Orderly(pending)'
        /\ \A u \in open' : ToldInTheEnd(pending, u)'
        /\ open' = open \ {s} /\ told' = [told EXCEPT ![s] = {}]
        /\ pending' # <<>> => Head(Head(pending')).type = "peer.left"
    BY <1>0, <2>1, <2>2, ClosingTells
  <2>4. FateKnown'
    BY <1>0, <2>1, <2>3 DEF FateKnown, Idle, Verdict
  <2>5. QED
    BY <1>0, <2>3, <2>4 DEF ToldInv
<1>6. QED
  BY <1>2, <1>3, <1>4, <1>5, SendKeeps, FailKeeps DEF Next, deliver

\* At the start nobody is there to be told anything.
LEMMA InitialTold == ServerInit => ToldInv
PROOF
<1> SUFFICES ASSUME ServerInit
             PROVE  ToldInv
  OBVIOUS
<1>1. /\ pending = <<>> /\ open = {} /\ told = [s \in Sessions |-> {}]
      /\ ~relayFailed /\ ~reached
  BY DEF ServerInit, RegistryInit
<1>2. 1..Len(pending) = {}
  BY <1>1
<1>3. Orderly(pending)
  BY <1>1, <1>2 DEF Orderly, LaterAreFarewells, ToldOnce
<1>4. FateKnown
  BY <1>1 DEF FateKnown, Idle
<1>5. QED
  BY <1>1, <1>3, <1>4 DEF ToldInv

\* What the clients were told adds up, reaches them in order and is so.
LEMMA ToldAddsUp ==
  ASSUME RoomsInv, TransportTypeOK, ToldInv
  PROVE  ClientsAreTold
PROOF
<1>0. /\ open \in SUBSET Sessions /\ told \in [Sessions -> SUBSET PeerIds] /\ MembersAreOpen
      /\ PendingOK /\ relayFailed \in BOOLEAN /\ reached \in BOOLEAN
      /\ Orderly(pending) /\ FateKnown
      /\ \A u \in open : ToldInTheEnd(pending, u)
      /\ \A u \in Sessions : u \notin open => told[u] = {}
  BY DEF TransportTypeOK, ToldInv, RoomsInv, SocketsInv
<1>1. RostersAgree
  <2> SUFFICES ASSUME Idle, NEW s \in Sessions
               PROVE  told[s] = Mates(s)
    BY DEF RostersAgree, Mates
  <2>1. CASE s \in open
    <3>1. \A p \in PeerIds : p \in told[s] <=> p \in Mates(s)
      BY <1>0, <2>1, AtRest
    <3>2. Mates(s) \subseteq PeerIds /\ told[s] \subseteq PeerIds
      BY <1>0 DEF Mates, Members
    <3>3. QED
      BY <3>1, <3>2
  <2>2. CASE s \notin open
    BY <1>0, <2>2 DEF MembersAreOpen, Mates
  <2>3. QED
    BY <2>1, <2>2
<1> DEFINE m == Head(Head(pending))
<1>2. ASSUME ~Idle, m.to \in open
      PROVE  /\ m.type = "peer.left" => m.peerId \in told[m.to]
             /\ m.type = "peer.joined" => m.peerId \notin told[m.to]
  <2>1. m \in Deliveries /\ \A n : Queued(pending, n) <=> n = m \/ Queued(Popped, n)
    BY <1>0, <1>2, NoAnswerLeft
  <2>2. Queued(pending, m)
    BY <2>1
  <2>3. pending \in Seq(Batches) /\ pending # <<>>
    BY <1>0, <1>2 DEF PendingOK, Idle
  <2>4. m.type = "peer.left" => \A n : Queued(pending, n) => n.type # "peer.joined"
    BY <1>0, <2>3, PoppedAt, PopKeeps
  <2>5. ToldInTheEnd(pending, m.to) /\ m.to \in Sessions
    BY <1>0, <1>2
  <2>6. CASE m.type = "peer.left"
    <3>1. m.peerId \in PeerIds /\ m = PeerLeft(m.to, m.peerId)
      BY <2>1, <2>6 DEF Deliveries, PeerLeft
    <3>2. ~Queued(pending, PeerJoined(m.to, m.peerId))
      BY <2>4, <2>6 DEF PeerJoined
    <3>3. m.peerId \in Answered(pending, m.to)
      BY <2>2, <2>5, <3>1, <3>2 DEF ToldInTheEnd
    <3>4. QED
      BY <2>6, <3>3 DEF Answered, Answer
  <2>7. CASE m.type = "peer.joined"
    <3>1. m.peerId \in PeerIds /\ m = PeerJoined(m.to, m.peerId)
      BY <2>1, <2>7 DEF Deliveries, PeerJoined
    <3>2. m.peerId \notin Answered(pending, m.to)
      BY <2>2, <2>5, <3>1 DEF ToldInTheEnd
    <3>3. QED
      BY <2>7, <3>2 DEF Answered, Answer
  <2>8. QED
    BY <2>6, <2>7
<1>3. ASSUME ~Idle, Verdict(m)
      PROVE  Verdict(Outgoing(m)) <=> reached
  <2>1. relayFailed <=> ~reached
    BY <1>0, <1>3 DEF FateKnown
  <2>2. relayFailed => ~Verdict(Outgoing(m))
    BY <1>3 DEF Outgoing, Error, Verdict
  <2>3. ~relayFailed => Verdict(Outgoing(m))
    BY <1>3 DEF Outgoing
  <2>4. QED
    BY <1>0, <2>1, <2>2, <2>3
<1>4. EventsInOrder
  BY <1>2 DEF EventsInOrder
<1>5. RelayVerdict
  BY <1>3 DEF RelayVerdict
<1>6. QED
  BY <1>1, <1>4, <1>5 DEF ClientsAreTold

\* What the server tells its clients is so: rosters add up whenever the queue
\* is empty, joins and leaves reach a client in order, and the sender of a
\* signal learns its fate, whatever is closed in the middle of a batch.
THEOREM ClientsAlwaysTold == Spec => []ClientsAreTold
PROOF
<1>1. ServerInit => TransportTypeOK
  BY EmptySeq DEF ServerInit, RegistryInit, TransportTypeOK, PendingOK
<1>2. RoomsInv /\ TransportTypeOK /\ [Next]_allVars => TransportTypeOK'
  BY TransportPreserved DEF RoomsInv, RegistryInv
<1>3. ServerInit => ToldInv
  BY InitialTold
<1>4. RoomsInv /\ TransportTypeOK /\ ToldInv /\ [Next]_allVars => ToldInv'
  BY ToldPreserved
<1>5. RoomsInv /\ TransportTypeOK /\ ToldInv => ClientsAreTold
  BY ToldAddsUp
<1>6. QED
  BY <1>1, <1>2, <1>3, <1>4, <1>5, RoomsAlwaysSound, PTL DEF Spec
=============================================================================
