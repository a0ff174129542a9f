--------------------------- MODULE PresenceProofs ---------------------------
(***************************************************************************)
(* The presence registry of the signaling server, for any number of users, *)
(* rooms and conversations and any limits: every pending ask can be        *)
(* answered, the clients know which asks are open, and every user sees     *)
(* what the acquaintances are doing.                                       *)
(***************************************************************************)
EXTENDS PresenceRegistry, Asks, SequenceTheorems, FiniteSetTheorems, TLAPS

\* Only a session with a socket has published anything.
PresentAreOpen == \A s \in Sessions : Present(s) => s \in open

\* What an ask was made in still holds, but for the clock: the timer looks at
\* that, every other change of the situation ends the ask at once.
KnockStands(k) ==
  mutual(k.from, k.to) /\ MeshOf(k.to) = k.mesh /\ ~Busy(k.from) /\ ~InRoom(k.from)

ContactStands(c) ==
  mutual(c.from, c.to) /\ c.from \in guests[c.room] /\ ~Busy(c.to) /\ ~InRoom(c.to)

AsksStand ==
  /\ \A k \in knocks : KnockStands(k)
  /\ \A c \in contacts : ContactStands(c)

Inv ==
  /\ TypeOK
  /\ IsFiniteSet(contacts)
  /\ PresentAreOpen
  /\ AsksStand
  /\ OneAskAtATime
  /\ ClientsAgree
  /\ SnapshotsCurrent

-----------------------------------------------------------------------------
(* What the operators of the registry do.                                  *)

\* What a client waits for and shows is what the server keeps of it.
Agrees(s) ==
  /\ waiting[s] = {Knock(k) : k \in {k \in knocks : k.from = s}}
                    \cup {Contact(c) : c \in {c \in contacts : c.from = s}}
  /\ asked[s] = {Knock(k) : k \in {k \in knocks : k.to = s}}
                  \cup {Contact(c) : c \in {c \in contacts : c.to = s}}

\* The types of the asks.
KnockType   == [from : Sessions, to : Sessions, mesh : Meshes, left : 0..Lifetime]
ContactType == [from : Sessions, to : Sessions, room : RoomIds, left : 0..Lifetime]

\* An ask as the clock leaves it.
Aged(a) == [a EXCEPT !.left = Down(@)]

\* A user has at most so many invitations out.
InvitesOf(s) == {c \in contacts : c.from = s}

\* No two asks share a role.
Apart ==
  /\ \A j, k \in knocks : j.from = k.from \/ j.to = k.to => j = k
  /\ \A b, c \in contacts : b.to = c.to => b = c

\* OneAskAtATime, by its parts.
LEMMA OneAskParts ==
  OneAskAtATime <=> Apart /\ \A s \in Sessions : Cardinality(InvitesOf(s)) < RoomCapacity
  BY DEF OneAskAtATime, Apart, InvitesOf

\* An ask is told to the clients by its kind and its parties.
LEMMA AskFields ==
  /\ \A k : Knock(k).kind = "knock" /\ Knock(k).from = k.from /\ Knock(k).to = k.to
  /\ \A c : Contact(c).kind = "contact" /\ Contact(c).from = c.from /\ Contact(c).to = c.to
  /\ \A k \in KnockType : Knock(k) \in Asks
  /\ \A c \in ContactType : Contact(c) \in Asks
  BY DEF Knock, Contact, KnockType, ContactType, Asks

\* A user whose asks are taken away one by one keeps the cardinality bound.
LEMMA FewerInvites ==
  ASSUME TypeOK, IsFiniteSet(contacts), contacts' \subseteq contacts,
         \A s \in Sessions : Cardinality(InvitesOf(s)) < RoomCapacity
  PROVE  /\ IsFiniteSet(contacts)'
         /\ \A s \in Sessions : Cardinality(InvitesOf(s))' < RoomCapacity
<1>1. IsFiniteSet(contacts') BY FS_Subset
<1>2. ASSUME NEW s \in Sessions PROVE Cardinality(InvitesOf(s)') < RoomCapacity
  <2>1. InvitesOf(s)' \subseteq InvitesOf(s) /\ InvitesOf(s) \subseteq contacts
    BY DEF InvitesOf
  <2>2. IsFiniteSet(InvitesOf(s)) BY <2>1, FS_Subset
  <2>3. Cardinality(InvitesOf(s)') <= Cardinality(InvitesOf(s)) BY <2>1, <2>2, FS_Subset
  <2>4. Cardinality(InvitesOf(s)) \in Nat /\ Cardinality(InvitesOf(s)') \in Nat
    BY <2>1, <2>2, FS_Subset, FS_CardinalityType
  <2> QED BY <2>3, <2>4, PresenceAssumption
<1> QED BY <1>1, <1>2

\* Deliver ends what is ended and begins what is begun, at both parties.
LEMMA Delivered ==
  ASSUME TypeOK, NEW begun \in SUBSET Asks, NEW ended, Deliver(begun, ended)
  PROVE  /\ waiting' \in [Sessions -> SUBSET Asks]
         /\ asked' \in [Sessions -> SUBSET Asks]
         /\ \A s \in Sessions :
              /\ waiting'[s] = (waiting[s] \cup {a \in begun : a.from = s})
                                 \ {a \in ended : a.from = s}
              /\ asked'[s] = (asked[s] \cup {a \in begun : a.to = s})
                               \ {a \in ended : a.to = s}
  BY DEF Deliver, TypeOK

\* Asks that are taken away are reported to both parties, and no others.
LEMMA EndedAreReported ==
  ASSUME TypeOK, Apart, knocks' \subseteq knocks, contacts' \subseteq contacts,
         Deliver({}, {Knock(k) : k \in knocks \ knocks'}
                       \cup {Contact(c) : c \in contacts \ contacts'})
  PROVE  /\ waiting' \in [Sessions -> SUBSET Asks]
         /\ asked' \in [Sessions -> SUBSET Asks]
         /\ \A s \in Sessions : Agrees(s) => Agrees(s)'
<1> DEFINE ended == {Knock(k) : k \in knocks \ knocks'}
                      \cup {Contact(c) : c \in contacts \ contacts'}
<1>1. Deliver({}, ended) OBVIOUS
<1> HIDE DEF ended
<1>2. /\ waiting' \in [Sessions -> SUBSET Asks]
      /\ asked' \in [Sessions -> SUBSET Asks]
      /\ \A s \in Sessions :
           /\ waiting'[s] = waiting[s] \ {a \in ended : a.from = s}
           /\ asked'[s] = asked[s] \ {a \in ended : a.to = s}
  <2>1. {} \in SUBSET Asks OBVIOUS
  <2>2. /\ waiting' \in [Sessions -> SUBSET Asks]
        /\ asked' \in [Sessions -> SUBSET Asks]
        /\ \A s \in Sessions :
             /\ waiting'[s] = (waiting[s] \cup {a \in {} : a.from = s})
                                \ {a \in ended : a.from = s}
             /\ asked'[s] = (asked[s] \cup {a \in {} : a.to = s})
                              \ {a \in ended : a.to = s}
    BY <1>1, <2>1, Delivered, Zenon
  <2> QED BY <2>2
<1>3. ASSUME NEW k \in knocks PROVE Knock(k) \in ended <=> k \notin knocks'
  <2>1. \A j \in knocks : Knock(j) = Knock(k) => j = k BY AskFields DEF Apart
  <2>2. \A c : Contact(c) # Knock(k) BY AskFields
  <2> QED BY <2>1, <2>2 DEF ended
<1>4. ASSUME NEW c \in contacts PROVE Contact(c) \in ended <=> c \notin contacts'
  <2>1. \A b \in contacts : Contact(b) = Contact(c) => b = c BY AskFields DEF Apart
  <2>2. \A k : Contact(c) # Knock(k) BY AskFields
  <2> QED BY <2>1, <2>2 DEF ended
<1>5. ASSUME NEW s \in Sessions, Agrees(s) PROVE Agrees(s)'
  <2>1. waiting'[s] = {Knock(k) : k \in {k \in knocks' : k.from = s}}
                        \cup {Contact(c) : c \in {c \in contacts' : c.from = s}}
    <3>1. waiting'[s] = waiting[s] \ {a \in ended : a.from = s} BY <1>2
    <3> QED BY <3>1, <1>3, <1>4, <1>5, AskFields DEF Agrees
  <2>2. asked'[s] = {Knock(k) : k \in {k \in knocks' : k.to = s}}
                      \cup {Contact(c) : c \in {c \in contacts' : c.to = s}}
    <3>1. asked'[s] = asked[s] \ {a \in ended : a.to = s} BY <1>2
    <3> QED BY <3>1, <1>3, <1>4, <1>5, AskFields DEF Agrees
  <2> QED BY <2>1, <2>2 DEF Agrees
<1> QED BY <1>2, <1>5

\* maintainInvitations leaves the asks that stand, and reports the rest.
LEMMA Maintained ==
  ASSUME TypeOK, IsFiniteSet(contacts), OneAskAtATime, maintainInvitations
  PROVE  /\ knocks' \subseteq knocks
         /\ contacts' \subseteq contacts
         /\ IsFiniteSet(contacts)'
         /\ AsksStand'
         /\ OneAskAtATime'
         /\ waiting' \in [Sessions -> SUBSET Asks]
         /\ asked' \in [Sessions -> SUBSET Asks]
         /\ \A s \in Sessions : Agrees(s) => Agrees(s)'
<1>1. /\ knocks' = knocks \ {k \in knocks : KnockStale(k)'}
      /\ contacts' = contacts \ {c \in contacts : ContactStale(c)'}
      /\ Deliver({}, {Knock(k) : k \in {k \in knocks : KnockStale(k)'}}
                       \cup {Contact(c) : c \in {c \in contacts : ContactStale(c)'}})
  BY DEF maintainInvitations
<1>2. knocks' \subseteq knocks /\ contacts' \subseteq contacts BY <1>1
<1>3. AsksStand'
  BY <1>1 DEF AsksStand, KnockStale, ContactStale, KnockStands, ContactStands
<1>4. /\ knocks \ knocks' = {k \in knocks : KnockStale(k)'}
      /\ contacts \ contacts' = {c \in contacts : ContactStale(c)'}
  BY <1>1
<1>5. Deliver({}, {Knock(k) : k \in knocks \ knocks'}
                    \cup {Contact(c) : c \in contacts \ contacts'})
  BY <1>1, <1>4, Zenon
<1>6. Apart BY OneAskParts
<1>7. Apart' BY <1>2, <1>6 DEF Apart
<1>8. /\ IsFiniteSet(contacts)'
      /\ \A s \in Sessions : Cardinality(InvitesOf(s))' < RoomCapacity
  BY <1>2, OneAskParts, FewerInvites
<1>9. OneAskAtATime' BY <1>7, <1>8 DEF OneAskAtATime, Apart, InvitesOf
<1> QED BY <1>2, <1>3, <1>5, <1>6, <1>8, <1>9, EndedAreReported

\* A snapshot is made for every session that has a profile.
LEMMA Updated ==
  ASSUME profiles' \in [Sessions -> Profile \cup {None}], updateSnapshots
  PROVE  /\ SnapshotsCurrent'
         /\ \A s \in Sessions :
              snapshot'[s] = None \/ \E known \in SUBSET Sessions :
                snapshot'[s] \in [known -> {"offline", "online", "inConversation"}]
<1>1. SnapshotsCurrent' BY DEF updateSnapshots, SnapshotsCurrent
<1>2. ASSUME NEW s \in Sessions, snapshot'[s] # None
      PROVE  \E known \in SUBSET Sessions :
               snapshot'[s] \in [known -> {"offline", "online", "inConversation"}]
  <2>1. Present(s)' /\ snapshot'[s] = Seen(s)' BY <1>2 DEF updateSnapshots
  <2>2. profiles'[s].known \in SUBSET Sessions BY <2>1 DEF Present, Profile
  <2>3. Seen(s)' \in [profiles'[s].known -> {"offline", "online", "inConversation"}]
    BY DEF Seen
  <2> QED BY <2>1, <2>2, <2>3
<1> QED BY <1>1, <1>2

-----------------------------------------------------------------------------
(* The steps.                                                              *)

\* A step that keeps the rooms' guests and the profiles keeps the situation.
LEMMA SameSituation ==
  ASSUME UNCHANGED <<guests, profiles>>
  PROVE  /\ \A k : KnockStands(k)' <=> KnockStands(k)
         /\ \A c : ContactStands(c)' <=> ContactStands(c)
         /\ \A s : Present(s)' = Present(s)
         /\ \A s : Seen(s)' = Seen(s)
<1>1. \A s : /\ Present(s)' = Present(s) /\ Busy(s)' = Busy(s)
             /\ InRoom(s)' = InRoom(s) /\ MeshOf(s)' = MeshOf(s)
  BY DEF Present, Busy, InRoom, MeshOf, Rooms!Elsewhere
<1>2. \A a, b : mutual(a, b)' = mutual(a, b) BY DEF mutual, Present
<1>3. \A s : Seen(s)' = Seen(s) BY <1>1, <1>2 DEF Seen
<1> QED BY <1>1, <1>2, <1>3 DEF KnockStands, ContactStands

\* Issuing a ticket and letting tickets lapse move nobody.
LEMMA TicketsMoveNobody ==
  /\ \A s, r, t : Rooms!Issue(s, r, t) => guests' = guests
  /\ Rooms!Lapse => guests' = guests
  BY DEF Rooms!Issue, Rooms!Lapse

\* The invariant after a step that ran maintainInvitations.
LEMMA AfterMaintenance ==
  ASSUME Inv, maintainInvitations, PresentAreOpen',
         open' \subseteq open,
         profiles' \in [Sessions -> Profile \cup {None}],
         cooling' \in [Sessions -> [Sessions -> 0..Pause]],
         updateSnapshots \/ UNCHANGED <<profiles, snapshot>>
  PROVE  Inv'
<1>1. TypeOK /\ IsFiniteSet(contacts) /\ OneAskAtATime /\ ClientsAgree BY DEF Inv
<1>2. /\ knocks' \subseteq knocks
      /\ contacts' \subseteq contacts
      /\ IsFiniteSet(contacts)'
      /\ AsksStand'
      /\ OneAskAtATime'
      /\ waiting' \in [Sessions -> SUBSET Asks]
      /\ asked' \in [Sessions -> SUBSET Asks]
      /\ \A s \in Sessions : Agrees(s) => Agrees(s)'
  BY <1>1, Maintained
<1>3. ClientsAgree' BY <1>1, <1>2 DEF ClientsAgree, Agrees, TypeOK
<1>4. /\ SnapshotsCurrent'
      /\ \A s \in Sessions :
           snapshot'[s] = None \/ \E known \in SUBSET Sessions :
             snapshot'[s] \in [known -> {"offline", "online", "inConversation"}]
  <2>1. CASE updateSnapshots BY <2>1, Updated
  <2>2. CASE UNCHANGED <<profiles, snapshot>>
    <3>1. /\ \A s : Present(s)' = Present(s) /\ MeshOf(s)' = MeshOf(s)
          /\ \A a, b : mutual(a, b)' = mutual(a, b)
      BY <2>2 DEF Present, MeshOf, mutual
    <3>2. \A s : Seen(s)' = Seen(s) BY <2>2, <3>1 DEF Seen
    <3> QED BY <2>2, <3>1, <3>2 DEF Inv, TypeOK, SnapshotsCurrent
  <2> QED BY <2>1, <2>2
<1>5. TypeOK' BY <1>1, <1>2, <1>4 DEF TypeOK
<1> QED BY <1>2, <1>3, <1>4, <1>5 DEF Inv

\* The invariant after a step that touches neither guests nor profiles.
LEMMA AfterAsking ==
  ASSUME Inv, UNCHANGED <<guests, open, profiles, snapshot>>,
         cooling' \in [Sessions -> [Sessions -> 0..Pause]],
         knocks' \subseteq KnockType, contacts' \subseteq ContactType,
         \A k \in knocks' : KnockStands(k), \A c \in contacts' : ContactStands(c),
         IsFiniteSet(contacts'), OneAskAtATime',
         waiting' \in [Sessions -> SUBSET Asks], asked' \in [Sessions -> SUBSET Asks],
         \A s \in Sessions : Agrees(s) => Agrees(s)'
  PROVE  Inv'
<1>1. TypeOK /\ PresentAreOpen /\ ClientsAgree /\ SnapshotsCurrent BY DEF Inv
<1>2. TypeOK' BY <1>1 DEF TypeOK, KnockType, ContactType
<1>3. AsksStand' BY SameSituation DEF AsksStand
<1>4. PresentAreOpen' /\ SnapshotsCurrent'
  BY <1>1, SameSituation DEF PresentAreOpen, SnapshotsCurrent
<1>5. ClientsAgree' BY <1>1 DEF ClientsAgree, Agrees, TypeOK
<1> QED BY <1>2, <1>3, <1>4, <1>5 DEF Inv

\* The invariant holds before anybody connects.
LEMMA InitInv == Init => Inv
<1> SUFFICES ASSUME Init PROVE Inv OBVIOUS
<1>1. TypeOK BY PresenceAssumption DEF Init, TypeOK, NoPause
<1>2. IsFiniteSet(contacts) BY FS_EmptySet DEF Init
<1>3. OneAskAtATime
  <2>1. \A s \in Sessions : InvitesOf(s) = {} BY DEF InvitesOf, Init
  <2>2. \A s \in Sessions : Cardinality(InvitesOf(s)) < RoomCapacity
    BY <2>1, FS_EmptySet, PresenceAssumption
  <2> QED BY <2>2 DEF OneAskAtATime, InvitesOf, Init
<1>4. PresentAreOpen /\ AsksStand /\ ClientsAgree /\ SnapshotsCurrent
  BY DEF Init, PresentAreOpen, AsksStand, ClientsAgree, SnapshotsCurrent, Present
<1> QED BY <1>1, <1>2, <1>3, <1>4 DEF Inv

\* A new client knows of no ask, and there is none with its identity.
LEMMA ConnectStep == \A s \in Sessions : Inv /\ Connect(s) => Inv'
<1> SUFFICES ASSUME NEW s \in Sessions, Inv, Connect(s) PROVE Inv' OBVIOUS
<1>1. ~Present(s) BY DEF Inv, PresentAreOpen, Connect
<1>2. /\ \A k \in knocks : k.from # s /\ k.to # s
      /\ \A c \in contacts : c.from # s /\ c.to # s
  BY <1>1 DEF Inv, AsksStand, KnockStands, ContactStands, mutual
<1>3. /\ waiting' = [waiting EXCEPT ![s] = {}] /\ asked' = [asked EXCEPT ![s] = {}]
      /\ open' = open \cup {s}
      /\ UNCHANGED <<guests, profiles, cooling, snapshot, knocks, contacts>>
  BY DEF Connect, roomVars, presenceVars
<1>4. TypeOK' BY <1>3 DEF Inv, TypeOK
<1>5. ClientsAgree'
  <2>1. ASSUME NEW u \in open' PROVE Agrees(u)'
    <3>1. CASE u = s BY <3>1, <1>2, <1>3 DEF Agrees, Inv, TypeOK
    <3>2. CASE u # s BY <3>2, <1>3 DEF Agrees, ClientsAgree, Inv, TypeOK
    <3> QED BY <3>1, <3>2
  <2> QED BY <2>1 DEF ClientsAgree, Agrees
<1>6. AsksStand' /\ SnapshotsCurrent' /\ PresentAreOpen'
  BY <1>3, SameSituation DEF Inv, AsksStand, SnapshotsCurrent, PresentAreOpen
<1>7. OneAskAtATime' /\ IsFiniteSet(contacts)' BY <1>3 DEF Inv, OneAskAtATime
<1> QED BY <1>4, <1>5, <1>6, <1>7 DEF Inv

\* Publishing and leaving a conversation maintain the asks and the snapshots.
LEMMA PublishStep ==
  \A s \in Sessions, publication \in Publications : Inv /\ Publish(s, publication) => Inv'
<1> SUFFICES ASSUME NEW s \in Sessions, NEW publication \in Publications,
                    Inv, Publish(s, publication)
             PROVE  Inv'
  OBVIOUS
<1>1. publication \in Profile BY PresenceAssumption DEF Profile
<1>2. profiles' \in [Sessions -> Profile \cup {None}] BY <1>1 DEF Publish, Inv, TypeOK
<1>3. PresentAreOpen' BY DEF Publish, Inv, PresentAreOpen, Present, TypeOK
<1> QED BY <1>2, <1>3, AfterMaintenance DEF Publish, Inv, TypeOK

\* Leaving the conversation counts as a publication.
LEMMA MeshLeaveStep == \A s \in Sessions : Inv /\ MeshLeave(s) => Inv'
<1> SUFFICES ASSUME NEW s \in Sessions, Inv, MeshLeave(s) PROVE Inv' OBVIOUS
<1>1. Present(s) BY DEF MeshLeave, MeshOf
<1>2. profiles[s] \in Profile BY <1>1 DEF Inv, TypeOK, Present
<1>3. [profiles[s] EXCEPT !.mesh = None] \in Profile BY <1>2 DEF Profile
<1>4. profiles' \in [Sessions -> Profile \cup {None}] BY <1>3 DEF MeshLeave, Inv, TypeOK
<1>5. PresentAreOpen' BY <1>1 DEF MeshLeave, Inv, PresentAreOpen, Present, TypeOK
<1> QED BY <1>4, <1>5, AfterMaintenance DEF MeshLeave, Inv, TypeOK

\* A socket that closes takes the profile with it.
LEMMA DropStep == \A s \in Sessions : Inv /\ Drop(s) => Inv'
<1> SUFFICES ASSUME NEW s \in Sessions, Inv, Drop(s) PROVE Inv' OBVIOUS
<1>1. profiles' = [profiles EXCEPT ![s] = None] /\ open' = open \ {s} BY DEF Drop
<1>2. profiles' \in [Sessions -> Profile \cup {None}] BY <1>1 DEF Inv, TypeOK
<1>3. cooling' \in [Sessions -> [Sessions -> 0..Pause]]
  BY PresenceAssumption DEF Drop, Inv, TypeOK, NoPause
<1>4. PresentAreOpen' BY <1>1 DEF Inv, PresentAreOpen, Present, TypeOK
<1>5. updateSnapshots \/ UNCHANGED <<profiles, snapshot>>
  <2>1. CASE Present(s) BY <2>1 DEF Drop
  <2>2. CASE ~Present(s)
    <3>1. profiles' = profiles BY <2>2, <1>1 DEF Present, Inv, TypeOK
    <3> QED BY <2>2, <3>1 DEF Drop
  <2> QED BY <2>1, <2>2
<1> QED BY <1>1, <1>2, <1>3, <1>4, <1>5, AfterMaintenance DEF Drop

\* Whoever comes into a room, or leaves it, the asks are looked at again.
LEMMA RoomStep ==
  Inv /\ (maintainConnections \/ \E s \in Sessions : RoomRequest(s)) => Inv'
<1> SUFFICES ASSUME Inv, maintainConnections \/ \E s \in Sessions : RoomRequest(s)
             PROVE  Inv'
  OBVIOUS
<1>1. UNCHANGED <<open, profiles, cooling, snapshot>> /\ maintainInvitations
  BY DEF maintainConnections, RoomRequest
<1>2. PresentAreOpen' BY <1>1 DEF Inv, PresentAreOpen, Present
<1> QED BY <1>1, <1>2, AfterMaintenance DEF Inv, TypeOK

\* Inviting into a room concerns no ask.
LEMMA RoomInviteStep == \A s \in Sessions : Inv /\ RoomInvite(s) => Inv'
<1> SUFFICES ASSUME NEW s \in Sessions, Inv, RoomInvite(s) PROVE Inv' OBVIOUS
<1>1. guests' = guests /\ UNCHANGED <<open, presenceVars, clientVars>>
  BY TicketsMoveNobody DEF RoomInvite
<1> QED
  BY <1>1, AfterAsking DEF presenceVars, clientVars, Inv, TypeOK, KnockType, ContactType,
     AsksStand, OneAskAtATime, Agrees


\* A knock is one more, at a door nobody knocks at, by somebody who knocks
\* nowhere else.
LEMMA KnockRequestStep ==
  \A s, target \in Sessions : Inv /\ KnockRequest(s, target) => Inv'
<1> SUFFICES ASSUME NEW s \in Sessions, NEW target \in Sessions,
                    Inv, KnockRequest(s, target)
             PROVE  Inv'
  OBVIOUS
<1> DEFINE k == [from |-> s, to |-> target, mesh |-> MeshOf(target), left |-> Lifetime]
<1>1. k \in KnockType
  <2>1. MeshOf(target) \in Meshes BY DEF KnockRequest, MeshOf, Present, Inv, TypeOK, Profile
  <2> QED BY <2>1, PresenceAssumption DEF KnockType
<1>2. k.from = s /\ k.to = target /\ KnockStands(k) BY DEF KnockRequest, KnockStands
<1>3. Deliver({Knock(k)}, {}) /\ knocks' = knocks \cup {k} BY DEF KnockRequest
<1>4. UNCHANGED <<guests, open, profiles, snapshot, contacts>>
  BY DEF KnockRequest, roomVars
<1>5. \A j \in knocks : j.from # s /\ j.to # target BY DEF KnockRequest, DoorFree
<1> HIDE DEF k
<1>6. Knock(k) \in Asks /\ Knock(k).from = s /\ Knock(k).to = target
  BY <1>1, <1>2, AskFields
<1>7. /\ waiting' \in [Sessions -> SUBSET Asks]
      /\ asked' \in [Sessions -> SUBSET Asks]
      /\ \A u \in Sessions :
           /\ waiting'[u] = waiting[u] \cup (IF u = s THEN {Knock(k)} ELSE {})
           /\ asked'[u] = asked[u] \cup (IF u = target THEN {Knock(k)} ELSE {})
  <2>1. {Knock(k)} \in SUBSET Asks BY <1>6
  <2>2. /\ waiting' \in [Sessions -> SUBSET Asks]
        /\ asked' \in [Sessions -> SUBSET Asks]
        /\ \A u \in Sessions :
             /\ waiting'[u] = (waiting[u] \cup {a \in {Knock(k)} : a.from = u})
                                \ {a \in {} : a.from = u}
             /\ asked'[u] = (asked[u] \cup {a \in {Knock(k)} : a.to = u})
                              \ {a \in {} : a.to = u}
    BY <1>3, <2>1, Delivered, ZenonT(30) DEF Inv
  <2> QED BY <2>2, <1>6
<1>8. \A u \in Sessions : Agrees(u) => Agrees(u)'
  BY <1>2, <1>3, <1>4, <1>7 DEF Agrees
<1>9. OneAskAtATime' BY <1>2, <1>3, <1>4, <1>5 DEF Inv, OneAskAtATime
<1>10. cooling' \in [Sessions -> [Sessions -> 0..Pause]]
  <2>1. [cooling[s] EXCEPT ![target] = Pause] \in [Sessions -> 0..Pause]
    BY PresenceAssumption DEF Inv, TypeOK
  <2> QED BY <2>1 DEF KnockRequest, Inv, TypeOK
<1>11. /\ knocks' \subseteq KnockType /\ contacts' \subseteq ContactType
       /\ \A j \in knocks' : KnockStands(j)
       /\ \A c \in contacts' : ContactStands(c)
       /\ IsFiniteSet(contacts')
  BY <1>1, <1>2, <1>3, <1>4 DEF Inv, TypeOK, KnockType, ContactType, AsksStand
<1> QED BY <1>4, <1>7, <1>8, <1>9, <1>10, <1>11, AfterAsking

\* An invitation is one more from somebody who has a place left for it, to
\* somebody nobody else invites.
LEMMA ContactInviteStep ==
  \A s, target \in Sessions, r \in RoomIds : Inv /\ ContactInvite(s, target, r) => Inv'
<1> SUFFICES ASSUME NEW s \in Sessions, NEW target \in Sessions, NEW r \in RoomIds,
                    Inv, ContactInvite(s, target, r)
             PROVE  Inv'
  OBVIOUS
<1> DEFINE c == [from |-> s, to |-> target, room |-> r, left |-> Lifetime]
<1>1. c \in ContactType BY PresenceAssumption DEF ContactType
<1>2. c.from = s /\ c.to = target /\ ContactStands(c) BY DEF ContactInvite, ContactStands
<1>3. Deliver({Contact(c)}, {}) /\ contacts' = contacts \cup {c} BY DEF ContactInvite
<1>4. UNCHANGED <<guests, open, profiles, snapshot, knocks>>
  BY DEF ContactInvite, roomVars
<1>5. /\ \A b \in contacts : b.to # target
      /\ Cardinality(InvitesOf(s)) < RoomCapacity - 1
  BY DEF ContactInvite, InvitesOf
<1> HIDE DEF c
<1>6. Contact(c) \in Asks /\ Contact(c).from = s /\ Contact(c).to = target
  BY <1>1, <1>2, AskFields
<1>7. /\ waiting' \in [Sessions -> SUBSET Asks]
      /\ asked' \in [Sessions -> SUBSET Asks]
      /\ \A u \in Sessions :
           /\ waiting'[u] = waiting[u] \cup (IF u = s THEN {Contact(c)} ELSE {})
           /\ asked'[u] = asked[u] \cup (IF u = target THEN {Contact(c)} ELSE {})
  <2>1. {Contact(c)} \in SUBSET Asks BY <1>6
  <2>2. /\ waiting' \in [Sessions -> SUBSET Asks]
        /\ asked' \in [Sessions -> SUBSET Asks]
        /\ \A u \in Sessions :
             /\ waiting'[u] = (waiting[u] \cup {a \in {Contact(c)} : a.from = u})
                                \ {a \in {} : a.from = u}
             /\ asked'[u] = (asked[u] \cup {a \in {Contact(c)} : a.to = u})
                              \ {a \in {} : a.to = u}
    BY <1>3, <2>1, Delivered, ZenonT(30) DEF Inv
  <2> QED BY <2>2, <1>6
<1>8. \A u \in Sessions : Agrees(u) => Agrees(u)'
  BY <1>2, <1>3, <1>4, <1>7 DEF Agrees
<1>9. IsFiniteSet(contacts') /\ IsFiniteSet(InvitesOf(s))
  <2>1. IsFiniteSet(contacts) BY DEF Inv
  <2>2. InvitesOf(s) \subseteq contacts BY DEF InvitesOf
  <2> QED BY <2>1, <2>2, <1>3, FS_AddElement, FS_Subset
<1>10. ASSUME NEW u \in Sessions PROVE Cardinality(InvitesOf(u)') < RoomCapacity
  <2>1. CASE u = s
    <3>1. InvitesOf(s)' = InvitesOf(s) \cup {c} BY <1>2, <1>3 DEF InvitesOf
    <3>2. Cardinality(InvitesOf(s)) \in Nat BY <1>9, FS_CardinalityType
    <3>3. \/ Cardinality(InvitesOf(s) \cup {c}) = Cardinality(InvitesOf(s))
          \/ Cardinality(InvitesOf(s) \cup {c}) = Cardinality(InvitesOf(s)) + 1
      BY <1>9, FS_AddElement
    <3> QED BY <2>1, <3>1, <3>2, <3>3, <1>5, PresenceAssumption
  <2>2. CASE u # s
    <3>1. InvitesOf(u)' = InvitesOf(u) BY <2>2, <1>2, <1>3 DEF InvitesOf
    <3> QED BY <3>1, OneAskParts DEF Inv
  <2> QED BY <2>1, <2>2
<1>11. Apart' BY <1>2, <1>3, <1>4, <1>5, OneAskParts DEF Inv, Apart
<1>12. OneAskAtATime' BY <1>10, <1>11 DEF OneAskAtATime, Apart, InvitesOf
<1>13. cooling' \in [Sessions -> [Sessions -> 0..Pause]]
  <2>1. [cooling[s] EXCEPT ![target] = Pause] \in [Sessions -> 0..Pause]
    BY PresenceAssumption DEF Inv, TypeOK
  <2> QED BY <2>1 DEF ContactInvite, Inv, TypeOK
<1>14. /\ knocks' \subseteq KnockType /\ contacts' \subseteq ContactType
       /\ \A j \in knocks' : KnockStands(j)
       /\ \A b \in contacts' : ContactStands(b)
  BY <1>1, <1>2, <1>3, <1>4 DEF Inv, TypeOK, KnockType, ContactType, AsksStand
<1> QED BY <1>4, <1>7, <1>8, <1>9, <1>12, <1>13, <1>14, AfterAsking

\* An answer takes one ask away, at both parties.
LEMMA AnswerStep ==
  ASSUME Inv, UNCHANGED <<guests, open, profiles, cooling, snapshot>>,
         knocks' \subseteq knocks, contacts' \subseteq contacts,
         Deliver({}, {Knock(k) : k \in knocks \ knocks'}
                       \cup {Contact(c) : c \in contacts \ contacts'})
  PROVE  Inv'
<1>1. TypeOK /\ IsFiniteSet(contacts) /\ OneAskAtATime /\ AsksStand BY DEF Inv
<1>2. Apart /\ \A s \in Sessions : Cardinality(InvitesOf(s)) < RoomCapacity
  BY <1>1, OneAskParts
<1>3. Apart' BY <1>2 DEF Apart
<1>4. /\ IsFiniteSet(contacts)'
      /\ \A s \in Sessions : Cardinality(InvitesOf(s))' < RoomCapacity
  BY <1>1, <1>2, FewerInvites
<1>5. OneAskAtATime' BY <1>3, <1>4 DEF OneAskAtATime, Apart, InvitesOf
<1>6. /\ waiting' \in [Sessions -> SUBSET Asks]
      /\ asked' \in [Sessions -> SUBSET Asks]
      /\ \A s \in Sessions : Agrees(s) => Agrees(s)'
  BY <1>1, <1>2, EndedAreReported
<1>7. /\ knocks' \subseteq KnockType /\ contacts' \subseteq ContactType
      /\ \A j \in knocks' : KnockStands(j)
      /\ \A b \in contacts' : ContactStands(b)
      /\ cooling' \in [Sessions -> [Sessions -> 0..Pause]]
  BY <1>1 DEF TypeOK, KnockType, ContactType, AsksStand
<1> QED BY <1>4, <1>5, <1>6, <1>7, AfterAsking

\* An answered knock is gone, whatever the answer.
LEMMA KnockRespondStep ==
  \A s \in Sessions, k \in knocks : Inv /\ KnockRespond(s, k) => Inv'
<1> SUFFICES ASSUME NEW s \in Sessions, NEW k \in knocks, Inv, KnockRespond(s, k)
             PROVE  Inv'
  OBVIOUS
<1>1. guests' = guests BY TicketsMoveNobody DEF KnockRespond, roomVars
<1>2. knocks \ knocks' = {k} /\ contacts \ contacts' = {} /\ knocks' \subseteq knocks
  BY DEF KnockRespond
<1>3. {Knock(j) : j \in {k}} \cup {Contact(c) : c \in {}} = {Knock(k)} OBVIOUS
<1>4. Deliver({}, {Knock(j) : j \in knocks \ knocks'}
                    \cup {Contact(c) : c \in contacts \ contacts'})
  BY <1>2, <1>3 DEF KnockRespond
<1> QED BY <1>1, <1>2, <1>4, AnswerStep DEF KnockRespond

\* So is an answered invitation.
LEMMA ContactRespondStep ==
  \A s \in Sessions, c \in contacts : Inv /\ ContactRespond(s, c) => Inv'
<1> SUFFICES ASSUME NEW s \in Sessions, NEW c \in contacts, Inv, ContactRespond(s, c)
             PROVE  Inv'
  OBVIOUS
<1>1. guests' = guests BY TicketsMoveNobody DEF ContactRespond, roomVars
<1>2. knocks \ knocks' = {} /\ contacts \ contacts' = {c} /\ contacts' \subseteq contacts
  BY DEF ContactRespond
<1>3. {Knock(k) : k \in {}} \cup {Contact(b) : b \in {c}} = {Contact(c)} OBVIOUS
<1>4. Deliver({}, {Knock(k) : k \in knocks \ knocks'}
                    \cup {Contact(b) : b \in contacts \ contacts'})
  BY <1>2, <1>3 DEF ContactRespond
<1> QED BY <1>1, <1>2, <1>4, AnswerStep DEF ContactRespond


\* The clock changes nothing of an ask but the time it has left.
LEMMA AgedFields ==
  /\ \A k \in KnockType : /\ Aged(k) \in KnockType
                          /\ Aged(k).from = k.from /\ Aged(k).to = k.to
                          /\ Aged(k).mesh = k.mesh /\ Knock(Aged(k)) = Knock(k)
  /\ \A c \in ContactType : /\ Aged(c) \in ContactType
                            /\ Aged(c).from = c.from /\ Aged(c).to = c.to
                            /\ Aged(c).room = c.room /\ Contact(Aged(c)) = Contact(c)
<1>1. \A n \in 0..Lifetime : Down(n) \in 0..Lifetime BY PresenceAssumption DEF Down
<1>2. ASSUME NEW k \in KnockType
      PROVE  /\ Aged(k) \in KnockType
             /\ Aged(k).from = k.from /\ Aged(k).to = k.to
             /\ Aged(k).mesh = k.mesh
  BY <1>1 DEF Aged, KnockType
<1>3. ASSUME NEW c \in ContactType
      PROVE  /\ Aged(c) \in ContactType
             /\ Aged(c).from = c.from /\ Aged(c).to = c.to
             /\ Aged(c).room = c.room
  BY <1>1 DEF Aged, ContactType
<1> QED BY <1>2, <1>3 DEF Knock, Contact

\* The clock ages the asks, and the situation they were made in stays.
LEMMA TickStep == Inv /\ Tick => Inv'
<1> SUFFICES ASSUME Inv, Tick PROVE Inv' OBVIOUS
<1>1. /\ knocks' = {Aged(k) : k \in knocks} /\ contacts' = {Aged(c) : c \in contacts}
      /\ UNCHANGED <<guests, open, profiles, snapshot, waiting, asked>>
  BY DEF Tick, Aged, roomVars, clientVars
<1>2. knocks \subseteq KnockType /\ contacts \subseteq ContactType
  BY DEF Inv, TypeOK, KnockType, ContactType
<1>3. /\ knocks' \subseteq KnockType /\ contacts' \subseteq ContactType
      /\ \A k \in knocks' : KnockStands(k)
      /\ \A c \in contacts' : ContactStands(c)
  BY <1>1, <1>2, AgedFields DEF Inv, AsksStand, KnockStands, ContactStands
<1>4. Apart /\ \A s \in Sessions : Cardinality(InvitesOf(s)) < RoomCapacity
  BY OneAskParts DEF Inv
<1>5. Apart' BY <1>1, <1>2, <1>4, AgedFields DEF Apart
<1>6. ASSUME NEW S \in SUBSET contacts
      PROVE  /\ IsFiniteSet(S) /\ IsFiniteSet({Aged(c) : c \in S})
             /\ Cardinality({Aged(c) : c \in S}) <= Cardinality(S)
  <2> DEFINE f == [c \in S |-> Aged(c)]
  <2>1. f \in Surjection(S, {Aged(c) : c \in S}) BY DEF Surjection
  <2>2. IsFiniteSet(S) BY FS_Subset DEF Inv
  <2> QED BY <2>1, <2>2, FS_Surjection
<1>7. IsFiniteSet(contacts') BY <1>1, <1>6
<1>8. ASSUME NEW s \in Sessions PROVE Cardinality(InvitesOf(s)') < RoomCapacity
  <2>1. InvitesOf(s)' = {Aged(c) : c \in InvitesOf(s)}
    BY <1>1, <1>2, AgedFields DEF InvitesOf
  <2>2. InvitesOf(s) \in SUBSET contacts BY DEF InvitesOf
  <2>3. Cardinality(InvitesOf(s)') <= Cardinality(InvitesOf(s)) BY <2>1, <2>2, <1>6
  <2>4. Cardinality(InvitesOf(s)) \in Nat /\ Cardinality(InvitesOf(s)') \in Nat
    BY <2>1, <2>2, <1>6, FS_CardinalityType
  <2> QED BY <2>3, <2>4, <1>4, PresenceAssumption
<1>9. OneAskAtATime' BY <1>5, <1>8 DEF OneAskAtATime, Apart, InvitesOf
<1>10. \A s \in Sessions : Agrees(s) => Agrees(s)'
  BY <1>1, <1>2, AgedFields DEF Agrees
<1>11. cooling' \in [Sessions -> [Sessions -> 0..Pause]]
  <2>1. \A n \in 0..Pause : Down(n) \in 0..Pause BY PresenceAssumption DEF Down
  <2> QED BY <2>1 DEF Tick, Inv, TypeOK
<1> QED
  BY <1>1, <1>3, <1>7, <1>9, <1>10, <1>11, AfterAsking DEF Inv, TypeOK

-----------------------------------------------------------------------------
(* The theorems.                                                           *)

\* Every step of the registry, its rooms and its clients keeps the invariant.
LEMMA InvStep == Inv /\ [Next]_vars => Inv'
<1> SUFFICES ASSUME Inv, [Next]_vars PROVE Inv' OBVIOUS
<1>1. ASSUME NEW s \in Sessions, Connect(s) PROVE Inv' BY <1>1, ConnectStep
<1>2. ASSUME NEW s \in Sessions, Drop(s) PROVE Inv' BY <1>2, DropStep
<1>3. ASSUME NEW s \in Sessions, MeshLeave(s) PROVE Inv' BY <1>3, MeshLeaveStep
<1>4. ASSUME NEW s \in Sessions, RoomRequest(s) PROVE Inv' BY <1>4, RoomStep
<1>5. ASSUME NEW s \in Sessions, RoomInvite(s) PROVE Inv' BY <1>5, RoomInviteStep
<1>6. ASSUME NEW s \in Sessions, NEW publication \in Publications, Publish(s, publication)
      PROVE  Inv'
  BY <1>6, PublishStep
<1>7. ASSUME NEW s \in Sessions, NEW target \in Sessions, KnockRequest(s, target)
      PROVE  Inv'
  BY <1>7, KnockRequestStep
<1>8. ASSUME NEW s \in Sessions, NEW target \in Sessions, NEW r \in RoomIds,
             ContactInvite(s, target, r)
      PROVE  Inv'
  BY <1>8, ContactInviteStep
<1>9. ASSUME NEW s \in Sessions, NEW k \in knocks, KnockRespond(s, k) PROVE Inv'
  BY <1>9, KnockRespondStep
<1>10. ASSUME NEW s \in Sessions, NEW c \in contacts, ContactRespond(s, c) PROVE Inv'
  BY <1>10, ContactRespondStep
<1>11. CASE maintainConnections BY <1>11, RoomStep
<1>12. CASE Tick BY <1>12, TickStep
<1>13. CASE UNCHANGED vars
  <2>1. UNCHANGED <<guests, open, profiles, cooling, snapshot, knocks, contacts, waiting, asked>>
    BY <1>13 DEF vars, roomVars, presenceVars, clientVars
  <2> QED
    BY <2>1, AfterAsking DEF Inv, TypeOK, KnockType, ContactType, AsksStand, OneAskAtATime,
       Agrees
<1> QED
  BY <1>1, <1>2, <1>3, <1>4, <1>5, <1>6, <1>7, <1>8, <1>9, <1>10, <1>11, <1>12, <1>13
  DEF Next

\* The invariant holds in every run.
LEMMA Invariance == Spec => []Inv
<1>1. Init => Inv BY InitInv
<1>2. Inv /\ [Next]_vars => Inv' BY InvStep
<1> QED BY <1>1, <1>2, PTL DEF Spec

\* AsksAreSound: whatever users publish, ask, answer and close, every ask the
\* server keeps can still be answered (mutual, the mesh and the rooms are
\* looked at again after every change of them), and nobody asks or is asked
\* twice at once, within the limits of requestKnock and inviteContact.
THEOREM AsksAlwaysSound == Spec => []AsksAreSound
<1>1. Inv => AsksAreSound
  BY DEF Inv, AsksAreSound, AsksStandWhilePending, AsksStand, KnockStale, ContactStale,
     KnockStands, ContactStands
<1> QED BY <1>1, Invariance, PTL

\* ClientsAgree: finish and finishKnock report the end of every ask to both
\* parties, so a client with an open socket waits for, and shows, exactly the
\* asks the server keeps.
THEOREM ClientsAlwaysAgree == Spec => []ClientsAgree
<1>1. Inv => ClientsAgree BY DEF Inv
<1> QED BY <1>1, Invariance, PTL

\* SnapshotsCurrent: updateSnapshots runs wherever a view can change.
THEOREM SnapshotsAlwaysCurrent == Spec => []SnapshotsCurrent
<1>1. Inv => SnapshotsCurrent BY DEF Inv
<1> QED BY <1>1, Invariance, PTL


-----------------------------------------------------------------------------
(***************************************************************************)
(* One client beside the server (Asks), for any friends, any number of     *)
(* asks and meshes and any troubles.  The invariant says of each ask and   *)
(* of each prompt what accounts for the other side not knowing of it yet:  *)
(* a request or a message on the way.  That needs the order in which       *)
(* requests and messages may follow each other.                            *)
(***************************************************************************)

RoomReplies  == {"room.created", "room.joined", "room.refused", "room.left", "join.refused"}
RoomRequests == {"room.create", "room.join", "room.leave"}
Replies == {"knock.requested", "knock.refused"}
Ends    == {"contact.result", "contact.refused"}
Leaves  == {"leave", "recover-leave"}
Operations == {"", "recover-create", "joining"} \cup Leaves

\* What a sequence has, for the messages to the client what of it is not of the
\* batch that is being read.
requests(u) == {u[i] : i \in DOMAIN u}
notes(d)    == {d[i].says : i \in DOMAIN d}
later(d)    == {d[i].says : i \in {j \in DOMAIN d : \E l \in 1 .. j : d[l].first}}

Sent(Q, type, id) == \E r \in Q : r.type = type /\ r.id = id
Told(N, type, id) == \E x \in N : x.type = type /\ x.id = id
Over(N, peer)    == \E x \in N : x.type \in Ends /\ x.peer = peer

IsSeq(s) == \E S : s \in Seq(S)

\* The order of what is under way.
MayPrecede(x, y) ==
  /\ ~(x.type \in RoomReplies /\ y.type \in RoomReplies)
  /\ ~(x.type \in Replies /\ y.type \in Replies)
  /\ x.type = "knock.result" /\ y.type = "knock.requested" => x.id # y.id
  /\ x.type \in {"knock.closed", "knock.invitation"} /\ y.type = "knock.invitation" => x.id # y.id
  /\ x.type = "contact.closed" /\ y.type = "contact.invitation" => x.id # y.id
  /\ x.type \in Ends /\ y.type \in Ends => x.peer # y.peer

MayBeAskedBefore(r, s) ==
  /\ ~(r.type \in RoomRequests /\ s.type \in RoomRequests)
  /\ ~(r.type = "knock.request" /\ s.type = "knock.request")
  /\ r.type = "contact.invite" /\ s.type = "contact.invite" => r.peer # s.peer
  /\ ~(r.type = "room.leave" /\ s.type = "contact.invite")

OrderedUp(u) ==
  IsSeq(u) /\ \A i, j \in DOMAIN u : i < j => MayBeAskedBefore(u[i], u[j])

\* Replies about the room begin a step, and what a departure ends is told of in the same step.
OrderedDown(d) ==
  /\ IsSeq(d)
  /\ \A i, j \in DOMAIN d : i < j => MayPrecede(d[i].says, d[j].says)
  /\ \A i \in DOMAIN d : d[i].says.type \in RoomReplies => d[i].first
  /\ \A i, j \in DOMAIN d :
       i < j /\ d[i].says.type = "room.left" /\ d[j].says.type \in Ends =>
         \A l \in i + 1 .. j : ~d[l].first

NoteTyped(x, n) ==
  /\ x.type \in {"knock.requested", "knock.invitation", "knock.accepted", "knock.closed", "knock.failed",
                 "knock.result", "contact.invitation", "contact.accepted", "contact.closed",
                 "contact.failed"} => x.id \in 1 .. n
  /\ x.type \in {"knock.refused", "knock.invitation", "knock.accepted", "contact.invitation",
                 "contact.accepted"} \cup Ends => x.peer \in Friends
  /\ x.type = "knock.invitation" => x.mesh \in Conversations

RequestTyped(r, n) ==
  /\ r.type \in {"knock.respond", "contact.respond"} => r.id \in 1 .. n /\ r.accept \in BOOLEAN
  /\ r.type \in {"knock.request", "contact.invite"} => r.peer \in Friends
  /\ r.type = "publish" => r.profile \in Presences
  /\ r.type = "mesh.leave" => r.mesh \in Conversations

AskTyped(k, n) ==
  /\ k \in [kind : {"knock", "contact"}, id : 1 .. n, mine : BOOLEAN, peer : Friends, mesh : Conversations \cup {NoValue}]

Typed ==
  /\ askIds \in Nat /\ askMade \in Nat
  /\ IsFiniteSet(srvAsks)
  /\ \A k \in srvAsks : AskTyped(k, askIds)
  /\ \A k, l \in srvAsks : k.id = l.id => k = l
  /\ \A x \in notes(askDown) : NoteTyped(x, askIds)
  /\ \A r \in requests(askUp) : RequestTyped(r, askIds)
  /\ askOnline \in BOOLEAN

\* What the server has.
ServerKnows ==
  /\ srvProfile \in Presences \cup {NoValue}
  /\ srvAsks # {} => srvProfile # NoValue
  /\ srvProfile # NoValue => askOnline
  /\ srvRoom \in BOOLEAN
  /\ \A k, l \in srvAsks : k.kind = "knock" /\ l.kind = "knock" /\ k.mine = l.mine => k = l
  /\ \A k, l \in srvAsks : k.kind = "contact" /\ l.kind = "contact" /\ ~k.mine /\ ~l.mine => k = l
  /\ \A k, l \in srvAsks : k.kind = "contact" /\ l.kind = "contact" /\ k.mine /\ l.mine /\ k.peer = l.peer => k = l
  /\ \A k \in srvAsks : k.kind = "knock" /\ ~k.mine => k.mesh = srvProfile.mesh /\ k.mesh # NoValue
  /\ \A k \in srvAsks : k.kind = "contact" /\ k.mine => srvRoom

\* Where the client is.
RoomStands ==
  /\ askMesh = NoMesh \/ askMesh \in [id : Conversations, joined : BOOLEAN]
  /\ askOperation \in Operations
  /\ {askWanted, askRoom, askServerMesh} \subseteq BOOLEAN
  /\ askServerMesh => inMesh
  /\ askRoom => askServerMesh
  /\ askOperation \in {"recover-create", "recover-leave"} => askServerMesh /\ askMesh.joined /\ ~askRoom
  /\ askOperation = "joining" => askServerMesh /\ ~askMesh.joined /\ ~askRoom
  /\ askOperation = "leave" => ~askServerMesh /\ ~inMesh
  /\ askWanted => /\ askOperation \in {"", "recover-create"} /\ ~askRoom /\ askServerMesh
                  /\ askMesh.joined /\ askTarget \in Friends
  /\ askTargets \subseteq Friends
  /\ askTargets # {} => askServerMesh /\ askMesh.joined

PromptsStand ==
  /\ askInKnock = NoValue \/ (askInKnock \in KnockPrompts /\ askInKnock.id \in 1 .. askIds)
  /\ askInvite = NoValue \/ (askInvite \in InvitePrompts /\ askInvite.id \in 1 .. askIds)
  /\ PromptsFit

ClientStands == RoomStands /\ PromptsStand

\* The room, where op is what is under way about it, room what the client has and
\* there what the server has.
RoomFits(op, room, there, N, Q) ==
  /\ op = "" => there = room
  /\ \A r \in Q :
       /\ r.type \in RoomRequests => \A x \in N : x.type \notin RoomReplies
       /\ r.type = "room.create" => op = "recover-create" /\ ~there
       /\ r.type = "room.join" => op = "joining" /\ ~there
       /\ r.type = "room.leave" => op \in Leaves
  /\ \A x \in N :
       /\ x.type = "room.created" => op = "recover-create" /\ there
       /\ x.type = "room.refused" => op = "recover-create" /\ ~there
       /\ x.type = "room.joined" => op = "joining" /\ there
       /\ x.type = "join.refused" => op = "joining" /\ ~there
       /\ x.type = "room.left" => op \in Leaves /\ ~there
  /\ op \in Leaves => (\E r \in Q : r.type = "room.leave") \/ (\E x \in N : x.type = "room.left")

\* The knock of the user.
KnockFits(knock, A, n, N, Q) ==
  /\ knock = NoKnock \/ knock \in [peer : Friends, id : 0 .. n]
  /\ \A r \in Q : r.type = "knock.request" =>
       /\ knock = [peer |-> r.peer, id |-> 0]
       /\ \A x \in N : x.type \notin Replies
       /\ \A k \in A : ~(k.kind = "knock" /\ k.mine)
  /\ \A x \in N : x.type \in Replies => knock # NoKnock /\ knock.id = 0
  /\ \A x \in N : x.type = "knock.refused" => \A k \in A : ~(k.kind = "knock" /\ k.mine)
  /\ \A x \in N : x.type = "knock.requested" =>
       \/ \E k \in A : k.kind = "knock" /\ k.mine /\ k.id = x.id
       \/ Told(N, "knock.result", x.id)
  /\ knock.id # 0 =>
       \/ \E k \in A : k.kind = "knock" /\ k.mine /\ k.id = knock.id
       \/ Told(N, "knock.result", knock.id)
  /\ knock # NoKnock /\ knock.id = 0 =>
       (\E r \in Q : r.type = "knock.request") \/ (\E x \in N : x.type \in Replies)
  /\ \A k \in A : k.kind = "knock" /\ k.mine =>
       /\ knock # NoKnock /\ knock.peer = k.peer
       /\ knock.id = k.id \/ (knock.id = 0 /\ Told(N, "knock.requested", k.id))
       /\ ~Told(N, "knock.result", k.id) /\ ~Told(N, "knock.accepted", k.id)

\* The knock of a friend.
PromptFits(prompt, A, N, Q) ==
  /\ \A k \in A : k.kind = "knock" /\ ~k.mine =>
       /\ \/ \E x \in N : x.type = "knock.invitation" /\ x.id = k.id /\ x.peer = k.peer /\ x.mesh = k.mesh
          \/ prompt # NoValue /\ prompt.id = k.id /\ prompt.from = k.peer /\ prompt.mesh = k.mesh
          \/ Sent(Q, "knock.respond", k.id)
          \/ \E r \in Q : r.type = "mesh.leave" /\ r.mesh = k.mesh
       /\ ~Told(N, "knock.closed", k.id) /\ ~Told(N, "knock.failed", k.id)
  /\ prompt # NoValue =>
       /\ \/ \E k \in A : k.kind = "knock" /\ ~k.mine /\ k.id = prompt.id /\ k.peer = prompt.from
          \/ Told(N, "knock.closed", prompt.id)
       /\ ~prompt.accepting =>
            ~Sent(Q, "knock.respond", prompt.id) /\ ~Told(N, "knock.failed", prompt.id)
  /\ \A x \in N : x.type = "knock.invitation" =>
       /\ \/ \E k \in A : k.kind = "knock" /\ ~k.mine /\ k.id = x.id /\ k.peer = x.peer
          \/ Told(N, "knock.closed", x.id)
       /\ ~Sent(Q, "knock.respond", x.id) /\ ~Told(N, "knock.failed", x.id)
       /\ prompt # NoValue => prompt.id # x.id

\* The invitation by a friend.
InviteFits(invite, A, N, Q) ==
  /\ \A k \in A : k.kind = "contact" /\ ~k.mine =>
       /\ \/ \E x \in N : x.type = "contact.invitation" /\ x.id = k.id /\ x.peer = k.peer
          \/ invite # NoValue /\ invite.id = k.id /\ invite.from = k.peer
          \/ Sent(Q, "contact.respond", k.id)
       /\ ~Told(N, "contact.closed", k.id) /\ ~Told(N, "contact.failed", k.id)
       /\ ~Told(N, "contact.accepted", k.id)
  /\ invite # NoValue =>
       \/ \E k \in A : k.kind = "contact" /\ ~k.mine /\ k.id = invite.id /\ k.peer = invite.from
       \/ Told(N, "contact.closed", invite.id)
  /\ \A x \in N : x.type = "contact.invitation" =>
       \/ \E k \in A : k.kind = "contact" /\ ~k.mine /\ k.id = x.id /\ k.peer = x.peer
       \/ Told(N, "contact.closed", x.id)

\* The invitations by the user, of whom the client takes those in targets to be
\* asked. L has what is told of behind the batch being read.
InvitesFit(op, room, targets, A, N, L, Q) ==
  /\ \A k \in A : k.kind = "contact" /\ k.mine =>
       /\ ~Over(N, k.peer)
       /\ \A r \in Q : ~(r.type = "contact.invite" /\ r.peer = k.peer)
       /\ op \notin Leaves => room /\ k.peer \in targets
  /\ \A r \in Q : r.type = "contact.invite" =>
       /\ ~Over(N, r.peer)
       /\ op \notin Leaves => room /\ r.peer \in targets
       /\ \A x \in N : x.type # "room.left"
  /\ op \notin Leaves => \A x \in L : x.type \in Ends => room /\ x.peer \in targets

\* Whoever the room is made for has been put on the list, or has knocked and
\* waits for an answer that has not been sent.
WantFits(wanted, target, targets, prompt, N, Q) ==
  wanted =>
    /\ \A x \in N : x.type \notin Ends
    /\ \/ target \in targets
       \/ /\ prompt # NoValue /\ prompt.accepting /\ prompt.from = target
          /\ ~Sent(Q, "knock.respond", prompt.id) /\ ~Told(N, "knock.failed", prompt.id)

coming == notes(askDown)
behind == later(askDown)
going  == requests(askUp)

RoomAgrees    == RoomFits(askOperation, askRoom, srvRoom, coming, going)
KnockAgrees   == KnockFits(askKnock, srvAsks, askIds, coming, going)
PromptAgrees  == PromptFits(askInKnock, srvAsks, coming, going)
InviteAgrees  == InviteFits(askInvite, srvAsks, coming, going)
InvitesAgree  == InvitesFit(askOperation, askRoom, askTargets, srvAsks, coming, behind, going)
WantAgrees    == WantFits(askWanted, askTarget, askTargets, askInKnock, coming, going)

Agreement == RoomAgrees /\ KnockAgrees /\ PromptAgrees /\ InviteAgrees /\ InvitesAgree /\ WantAgrees

AsksInv ==
  /\ OrderedUp(askUp) /\ OrderedDown(askDown)
  /\ Typed /\ ServerKnows /\ ClientStands
  /\ Agreement

\* What a sequence put behind another one has where.
LEMMA Joined ==
  ASSUME NEW s, NEW t, IsSeq(s), IsSeq(t)
  PROVE  /\ IsSeq(s \o t) /\ Len(s) \in Nat /\ Len(t) \in Nat /\ Len(s \o t) = Len(s) + Len(t)
         /\ DOMAIN s = 1 .. Len(s) /\ DOMAIN t = 1 .. Len(t) /\ DOMAIN (s \o t) = 1 .. Len(s) + Len(t)
         /\ \A i \in 1 .. Len(s) : (s \o t)[i] = s[i]
         /\ \A i \in 1 .. Len(s) + Len(t) : i > Len(s) => i - Len(s) \in 1 .. Len(t) /\ (s \o t)[i] = t[i - Len(s)]
<1>1. PICK S : s \in Seq(S)
  BY DEF IsSeq
<1>2. PICK T : t \in Seq(T)
  BY DEF IsSeq
<1>3. s \in Seq(S \cup T) /\ t \in Seq(S \cup T)
  BY <1>1, <1>2
<1>4. /\ s \o t \in Seq(S \cup T)
      /\ Len(s \o t) = Len(s) + Len(t)
      /\ \A i \in 1 .. Len(s) + Len(t) : (s \o t)[i] = IF i <= Len(s) THEN s[i] ELSE t[i - Len(s)]
  BY <1>3, ConcatProperties
<1>5. Len(s) \in Nat /\ Len(t) \in Nat /\ DOMAIN s = 1 .. Len(s) /\ DOMAIN t = 1 .. Len(t)
  BY <1>3
<1>6. IsSeq(s \o t) /\ DOMAIN (s \o t) = 1 .. Len(s \o t)
  BY <1>4 DEF IsSeq
<1> QED
  BY <1>4, <1>5, <1>6

\* What the rest of a queue has where once its head is taken.
LEMMA TailOf ==
  ASSUME NEW s, IsSeq(s), s # <<>>
  PROVE  /\ IsSeq(Tail(s)) /\ Len(s) \in Nat \ {0} /\ DOMAIN s = 1 .. Len(s)
         /\ DOMAIN Tail(s) = 1 .. Len(s) - 1
         /\ \A i \in 1 .. Len(s) - 1 : Tail(s)[i] = s[i + 1]
         /\ Head(s) = s[1]
<1>1. PICK S : s \in Seq(S)
  BY DEF IsSeq
<1>2. Len(s) \in Nat \ {0} /\ DOMAIN s = 1 .. Len(s) /\ Head(s) = s[1]
  BY <1>1
<1>3. Tail(s) \in Seq(S) /\ Len(Tail(s)) = Len(s) - 1 /\ \A i \in 1 .. Len(Tail(s)) : Tail(s)[i] = s[i + 1]
  BY <1>1, HeadTailProperties
<1> QED
  BY <1>2, <1>3 DEF IsSeq

\* The sequences that requests are made of: none, one or two of them.
LEMMA Short ==
  /\ IsSeq(<<>>) /\ requests(<<>>) = {}
  /\ \A x : IsSeq(<<x>>) /\ requests(<<x>>) = {x} /\ DOMAIN <<x>> = {1} /\ <<x>>[1] = x
  /\ \A x, y : IsSeq(<<x, y>>) /\ requests(<<x, y>>) = {x, y}
<1>1. IsSeq(<<>>) /\ requests(<<>>) = {}
  BY DEF IsSeq, requests
<1>2. ASSUME NEW x PROVE IsSeq(<<x>>) /\ requests(<<x>>) = {x} /\ DOMAIN <<x>> = {1} /\ <<x>>[1] = x
  <2>1. <<x>> \in Seq({x}) /\ Len(<<x>>) = 1 /\ <<x>>[1] = x
    OBVIOUS
  <2>2. DOMAIN <<x>> = {1}
    BY <2>1
  <2> QED
    BY <2>1, <2>2 DEF IsSeq, requests
<1>3. ASSUME NEW x, NEW y PROVE IsSeq(<<x, y>>) /\ requests(<<x, y>>) = {x, y}
  <2>1. <<x, y>> \in Seq({x, y}) /\ Len(<<x, y>>) = 2 /\ <<x, y>>[1] = x /\ <<x, y>>[2] = y
    OBVIOUS
  <2>2. DOMAIN <<x, y>> = {1, 2}
    BY <2>1
  <2> QED
    BY <2>1, <2>2 DEF IsSeq, requests
<1> QED
  BY <1>1, <1>2, <1>3

\* One more request.
LEMMA Requested ==
  ASSUME NEW u, NEW v, IsSeq(u), IsSeq(v)
  PROVE  requests(u \o v) = requests(u) \cup requests(v)
<1>1. /\ DOMAIN u = 1 .. Len(u) /\ DOMAIN v = 1 .. Len(v) /\ DOMAIN (u \o v) = 1 .. Len(u) + Len(v)
      /\ \A i \in 1 .. Len(u) : (u \o v)[i] = u[i]
      /\ \A i \in 1 .. Len(u) + Len(v) : i > Len(u) => i - Len(u) \in 1 .. Len(v) /\ (u \o v)[i] = v[i - Len(u)]
      /\ Len(u) \in Nat /\ Len(v) \in Nat
  BY Joined
<1>2. ASSUME NEW x \in requests(u) PROVE x \in requests(u \o v)
  BY <1>1 DEF requests
<1>3. ASSUME NEW x \in requests(v) PROVE x \in requests(u \o v)
  <2>1. PICK i \in 1 .. Len(v) : x = v[i]
    BY <1>1 DEF requests
  <2>2. i + Len(u) \in 1 .. Len(u) + Len(v) /\ i + Len(u) > Len(u) /\ (i + Len(u)) - Len(u) = i
    BY <1>1, <2>1
  <2>3. (u \o v)[i + Len(u)] = x
    BY <1>1, <2>1, <2>2
  <2> QED
    BY <1>1, <2>2, <2>3 DEF requests
<1>4. ASSUME NEW x \in requests(u \o v) PROVE x \in requests(u) \cup requests(v)
  <2>1. PICK i \in 1 .. Len(u) + Len(v) : x = (u \o v)[i]
    BY <1>1 DEF requests
  <2>2. CASE i <= Len(u)
    BY <1>1, <2>1, <2>2 DEF requests
  <2>3. CASE i > Len(u)
    BY <1>1, <2>1, <2>3 DEF requests
  <2> QED
    BY <1>1, <2>1, <2>2, <2>3
<1> QED
  BY <1>2, <1>3, <1>4

\* A queue of requests has its head and the rest.
LEMMA Served ==
  ASSUME NEW u, IsSeq(u), u # <<>>
  PROVE  requests(u) = requests(Tail(u)) \cup {Head(u)}
<1>1. /\ Len(u) \in Nat \ {0} /\ DOMAIN u = 1 .. Len(u) /\ DOMAIN Tail(u) = 1 .. Len(u) - 1
      /\ \A i \in 1 .. Len(u) - 1 : Tail(u)[i] = u[i + 1]
      /\ Head(u) = u[1]
  BY TailOf
<1>2. ASSUME NEW i \in DOMAIN u PROVE u[i] \in requests(Tail(u)) \cup {Head(u)}
  <2>1. CASE i = 1
    BY <1>1, <2>1
  <2>2. CASE i # 1
    <3>1. i - 1 \in 1 .. Len(u) - 1 /\ (i - 1) + 1 = i
      BY <1>1, <1>2, <2>2
    <3>2. Tail(u)[i - 1] = u[i]
      BY <1>1, <3>1
    <3> QED
      BY <1>1, <3>1, <3>2 DEF requests
  <2> QED
    BY <2>1, <2>2
<1>3. ASSUME NEW i \in DOMAIN Tail(u) PROVE Tail(u)[i] \in requests(u)
  BY <1>1 DEF requests
<1>4. Head(u) \in requests(u)
  BY <1>1 DEF requests
<1> QED
  BY <1>2, <1>3, <1>4 DEF requests

\* Submits: a request that may be asked behind what is under way keeps the order.
LEMMA UpGrows ==
  ASSUME NEW u, NEW x, OrderedUp(u), \A r \in requests(u) : MayBeAskedBefore(r, x)
  PROVE  OrderedUp(u \o <<x>>) /\ requests(u \o <<x>>) = requests(u) \cup {x}
<1>1. IsSeq(u) /\ IsSeq(<<x>>) /\ requests(<<x>>) = {x} /\ DOMAIN <<x>> = {1} /\ <<x>>[1] = x
  BY Short DEF OrderedUp
<1>2. requests(u \o <<x>>) = requests(u) \cup {x}
  BY <1>1, Requested
<1>3. /\ IsSeq(u \o <<x>>) /\ DOMAIN u = 1 .. Len(u) /\ DOMAIN (u \o <<x>>) = 1 .. Len(u) + Len(<<x>>)
      /\ DOMAIN <<x>> = 1 .. Len(<<x>>)
      /\ \A i \in 1 .. Len(u) : (u \o <<x>>)[i] = u[i]
      /\ \A i \in 1 .. Len(u) + Len(<<x>>) :
           i > Len(u) => i - Len(u) \in 1 .. Len(<<x>>) /\ (u \o <<x>>)[i] = <<x>>[i - Len(u)]
      /\ Len(u) \in Nat
  BY <1>1, Joined
<1>4. ASSUME NEW i \in DOMAIN (u \o <<x>>), NEW j \in DOMAIN (u \o <<x>>), i < j
      PROVE  MayBeAskedBefore((u \o <<x>>)[i], (u \o <<x>>)[j])
  <2>1. Len(<<x>>) = 1
    OBVIOUS
  <2>2. i \in 1 .. Len(u)
    BY <1>3, <1>4, <2>1
  <2>3. CASE j \in 1 .. Len(u)
    BY <1>3, <1>4, <2>2, <2>3 DEF OrderedUp
  <2>4. CASE j = Len(u) + 1
    <3>1. (u \o <<x>>)[j] = x
      BY <1>1, <1>3, <2>1, <2>4
    <3>2. u[i] \in requests(u) /\ (u \o <<x>>)[i] = u[i]
      BY <1>3, <2>2 DEF requests
    <3> QED
      BY <3>1, <3>2
  <2> QED
    BY <1>3, <1>4, <2>1, <2>3, <2>4
<1> QED
  BY <1>2, <1>3, <1>4 DEF OrderedUp

\* The server takes the first request: the rest is in order, and it was asked before all of it.
LEMMA UpShrinks ==
  ASSUME NEW u, OrderedUp(u), u # <<>>
  PROVE  /\ OrderedUp(Tail(u)) /\ requests(u) = requests(Tail(u)) \cup {Head(u)}
         /\ \A r \in requests(Tail(u)) : MayBeAskedBefore(Head(u), r)
<1>1. IsSeq(u) /\ requests(u) = requests(Tail(u)) \cup {Head(u)}
  BY Served DEF OrderedUp
<1>2. /\ IsSeq(Tail(u)) /\ Len(u) \in Nat \ {0} /\ DOMAIN u = 1 .. Len(u)
      /\ DOMAIN Tail(u) = 1 .. Len(u) - 1
      /\ \A i \in 1 .. Len(u) - 1 : Tail(u)[i] = u[i + 1]
      /\ Head(u) = u[1]
  BY <1>1, TailOf
<1>3. \A i, j \in DOMAIN Tail(u) : i < j => MayBeAskedBefore(Tail(u)[i], Tail(u)[j])
  BY <1>2 DEF OrderedUp
<1>4. \A i \in DOMAIN Tail(u) : MayBeAskedBefore(Head(u), Tail(u)[i])
  BY <1>2 DEF OrderedUp
<1> QED
  BY <1>1, <1>2, <1>3, <1>4 DEF OrderedUp, requests

\* The client takes the first message: the rest is in order, and what may not come behind it does not.
LEMMA DownShrinks ==
  ASSUME NEW d, OrderedDown(d), d # <<>>
  PROVE  /\ OrderedDown(Tail(d))
         /\ notes(d) = notes(Tail(d)) \cup {Head(d).says}
         /\ later(Tail(d)) \subseteq later(d) /\ later(d) \subseteq notes(d)
         /\ \A x \in notes(Tail(d)) : MayPrecede(Head(d).says, x)
         /\ Head(d).first => later(d) = notes(d)
         /\ Head(d).says.type \in RoomReplies => Head(d).first
         /\ Head(d).says.type = "room.left" => \A x \in later(Tail(d)) : x.type \notin Ends
<1>1. /\ IsSeq(d) /\ IsSeq(Tail(d)) /\ Len(d) \in Nat \ {0} /\ DOMAIN d = 1 .. Len(d)
      /\ DOMAIN Tail(d) = 1 .. Len(d) - 1
      /\ \A i \in 1 .. Len(d) - 1 : Tail(d)[i] = d[i + 1]
      /\ Head(d) = d[1]
  BY TailOf DEF OrderedDown
<1>2. OrderedDown(Tail(d))
  <2>1. \A i, j \in DOMAIN Tail(d) : i < j => MayPrecede(Tail(d)[i].says, Tail(d)[j].says)
    BY <1>1 DEF OrderedDown
  <2>2. \A i \in DOMAIN Tail(d) : Tail(d)[i].says.type \in RoomReplies => Tail(d)[i].first
    BY <1>1 DEF OrderedDown
  <2>3. ASSUME NEW i \in DOMAIN Tail(d), NEW j \in DOMAIN Tail(d), i < j,
               Tail(d)[i].says.type = "room.left", Tail(d)[j].says.type \in Ends,
               NEW l \in i + 1 .. j
        PROVE  ~Tail(d)[l].first
    <3>1. i + 1 \in DOMAIN d /\ j + 1 \in DOMAIN d /\ i + 1 < j + 1 /\ l + 1 \in (i + 1) + 1 .. j + 1
      BY <1>1, <2>3
    <3>2. Tail(d)[i] = d[i + 1] /\ Tail(d)[j] = d[j + 1] /\ Tail(d)[l] = d[l + 1]
      BY <1>1, <2>3
    <3> QED
      BY <2>3, <3>1, <3>2 DEF OrderedDown
  <2> QED
    BY <1>1, <2>1, <2>2, <2>3 DEF OrderedDown
<1>3. notes(d) = notes(Tail(d)) \cup {Head(d).says}
  <2>1. ASSUME NEW i \in DOMAIN d PROVE d[i].says \in notes(Tail(d)) \cup {Head(d).says}
    <3>1. CASE i = 1
      BY <1>1, <3>1
    <3>2. CASE i # 1
      <4>1. i - 1 \in 1 .. Len(d) - 1 /\ (i - 1) + 1 = i
        BY <1>1, <2>1, <3>2
      <4>2. Tail(d)[i - 1] = d[i]
        BY <1>1, <4>1
      <4> QED
        BY <1>1, <4>1, <4>2 DEF notes
    <3> QED
      BY <3>1, <3>2
  <2>2. ASSUME NEW i \in DOMAIN Tail(d) PROVE Tail(d)[i].says \in notes(d)
    BY <1>1 DEF notes
  <2>3. Head(d).says \in notes(d)
    BY <1>1 DEF notes
  <2> QED
    BY <2>1, <2>2, <2>3 DEF notes
<1>4. later(d) \subseteq notes(d)
  BY DEF later, notes
<1>5. ASSUME NEW i \in DOMAIN Tail(d), NEW l \in 1 .. i, Tail(d)[l].first
      PROVE  Tail(d)[i].says \in later(d)
  <2>1. i + 1 \in DOMAIN d /\ l + 1 \in 1 .. i + 1 /\ Tail(d)[i] = d[i + 1] /\ Tail(d)[l] = d[l + 1]
    BY <1>1, <1>5
  <2> QED
    BY <1>5, <2>1 DEF later
<1>6. later(Tail(d)) \subseteq later(d)
  BY <1>5 DEF later
<1>7. \A x \in notes(Tail(d)) : MayPrecede(Head(d).says, x)
  <2>1. \A i \in DOMAIN Tail(d) : MayPrecede(Head(d).says, Tail(d)[i].says)
    BY <1>1 DEF OrderedDown
  <2> QED
    BY <2>1 DEF notes
<1>8. Head(d).first => later(d) = notes(d)
  <2>1. \A i \in DOMAIN d : 1 \in 1 .. i
    BY <1>1
  <2> QED
    BY <1>1, <1>4, <2>1 DEF later, notes
<1>9. Head(d).says.type \in RoomReplies => Head(d).first
  BY <1>1 DEF OrderedDown
<1>10. ASSUME Head(d).says.type = "room.left", NEW i \in DOMAIN Tail(d), NEW l \in 1 .. i, Tail(d)[l].first
       PROVE  Tail(d)[i].says.type \notin Ends
  <2>1. /\ i + 1 \in DOMAIN d /\ 1 \in DOMAIN d /\ 1 < i + 1 /\ l + 1 \in 1 + 1 .. i + 1
        /\ Tail(d)[i] = d[i + 1] /\ Tail(d)[l] = d[l + 1]
    BY <1>1, <1>10
  <2> QED
    BY <1>1, <1>10, <2>1 DEF OrderedDown
<1>11. Head(d).says.type = "room.left" => \A x \in later(Tail(d)) : x.type \notin Ends
  BY <1>10 DEF later
<1> QED
  BY <1>2, <1>3, <1>4, <1>6, <1>7, <1>8, <1>9, <1>11

\* Say: what the server adds in one step keeps the order, a reply about the room begins the step.
LEMMA DownGrows ==
  ASSUME NEW d, NEW b, OrderedDown(d), IsSeq(b),
         \A x \in notes(d), y \in requests(b) : MayPrecede(x, y),
         \A i, j \in DOMAIN b : i < j => MayPrecede(b[i], b[j]),
         \A j \in DOMAIN b : b[j].type \in RoomReplies => j = 1,
         (\E x \in notes(d) : x.type = "room.left") => \A y \in requests(b) : y.type \notin Ends
  PROVE  /\ OrderedDown(d \o Said(b))
         /\ notes(d \o Said(b)) = notes(d) \cup requests(b)
         /\ later(d \o Said(b)) \subseteq later(d) \cup requests(b)
<1> DEFINE s == Said(b)
           e == d \o s
<1>1. /\ Len(b) \in Nat /\ DOMAIN b = 1 .. Len(b)
  BY DEF IsSeq
<1>2. IsSeq(s) /\ Len(s) = Len(b) /\ \A i \in 1 .. Len(b) : s[i] = [first |-> i = 1, says |-> b[i]]
  <2>1. s \in Seq([first : BOOLEAN, says : requests(b)]) /\ Len(s) = Len(b)
    BY <1>1 DEF Said, requests
  <2> QED
    BY <1>1, <2>1 DEF IsSeq, Said
<1>3. ASSUME NEW i \in 1 .. Len(b) PROVE s[i].says = b[i] /\ (s[i].first <=> i = 1)
  <2>1. s[i] = [first |-> i = 1, says |-> b[i]]
    BY <1>2
  <2>2. CASE i = 1
    <3>1. (i = 1) = TRUE
      BY <2>2
    <3>2. s[i] = [first |-> TRUE, says |-> b[i]]
      BY <2>1, <3>1, Zenon
    <3> QED
      BY <2>2, <3>2
  <2>4. CASE i # 1
    <3>1. (i = 1) = FALSE
      BY <2>4
    <3>2. s[i] = [first |-> FALSE, says |-> b[i]]
      BY <2>1, <3>1, Zenon
    <3> QED
      BY <2>4, <3>2
  <2>3. s[i].says = b[i]
    BY <2>1
  <2> QED
    BY <2>2, <2>3, <2>4
<1> HIDE DEF s
<1>4. /\ IsSeq(e) /\ Len(d) \in Nat /\ DOMAIN d = 1 .. Len(d) /\ DOMAIN e = 1 .. Len(d) + Len(b)
      /\ \A i \in 1 .. Len(d) : e[i] = d[i]
      /\ \A i \in 1 .. Len(d) + Len(b) : i > Len(d) => i - Len(d) \in 1 .. Len(b) /\ e[i] = s[i - Len(d)]
  BY <1>2, Joined DEF OrderedDown
<1> HIDE DEF e
<1>5. \A i \in 1 .. Len(d) + Len(b) :
        i > Len(d) => /\ i - Len(d) \in 1 .. Len(b)
                      /\ e[i].says = b[i - Len(d)] /\ (e[i].first <=> i = Len(d) + 1)
  BY <1>1, <1>3, <1>4
<1>6. \A i \in 1 .. Len(b) : b[i] \in requests(b)
  BY <1>1 DEF requests
<1>7. \A i \in 1 .. Len(d) : d[i].says \in notes(d)
  BY <1>4 DEF notes
<1>8. ASSUME NEW i \in DOMAIN e, NEW j \in DOMAIN e, i < j
      PROVE  MayPrecede(e[i].says, e[j].says)
  <2>1. CASE j <= Len(d)
    BY <1>4, <1>8, <2>1 DEF OrderedDown
  <2>2. CASE i <= Len(d) /\ j > Len(d)
    <3>1. e[i].says \in notes(d)
      BY <1>4, <1>7, <1>8, <2>2
    <3>2. e[j].says \in requests(b)
      BY <1>4, <1>5, <1>6, <1>8, <2>2
    <3> QED
      BY <3>1, <3>2
  <2>3. CASE i > Len(d)
    <3>1. /\ i - Len(d) \in DOMAIN b /\ j - Len(d) \in DOMAIN b /\ i - Len(d) < j - Len(d)
          /\ e[i].says = b[i - Len(d)] /\ e[j].says = b[j - Len(d)]
      BY <1>1, <1>4, <1>5, <1>8, <2>3
    <3> QED
      BY <3>1
  <2> QED
    BY <1>4, <1>8, <2>1, <2>2, <2>3
<1>9. ASSUME NEW i \in DOMAIN e, e[i].says.type \in RoomReplies PROVE e[i].first
  <2>1. CASE i <= Len(d)
    BY <1>4, <1>9, <2>1 DEF OrderedDown
  <2>2. CASE i > Len(d)
    <3>1. i - Len(d) \in DOMAIN b /\ e[i].says = b[i - Len(d)] /\ (e[i].first <=> i = Len(d) + 1)
      BY <1>1, <1>4, <1>5, <1>9, <2>2
    <3>2. i - Len(d) = 1
      BY <1>9, <3>1
    <3> QED
      BY <1>4, <1>9, <3>1, <3>2
  <2> QED
    BY <1>4, <1>9, <2>1, <2>2
<1>10. ASSUME NEW i \in DOMAIN e, NEW j \in DOMAIN e, i < j, e[i].says.type = "room.left", e[j].says.type \in Ends,
              NEW l \in i + 1 .. j
       PROVE  ~e[l].first
  <2>1. CASE j <= Len(d)
    <3>1. i \in DOMAIN d /\ j \in DOMAIN d /\ e[i] = d[i] /\ e[j] = d[j] /\ l \in DOMAIN d /\ e[l] = d[l]
      BY <1>4, <1>10, <2>1
    <3> QED
      BY <1>10, <3>1 DEF OrderedDown
  <2>2. CASE i <= Len(d) /\ j > Len(d)
    <3>1. e[i].says \in notes(d)
      BY <1>4, <1>7, <1>10, <2>2
    <3>2. e[j].says \in requests(b)
      BY <1>4, <1>5, <1>6, <1>10, <2>2
    <3> QED
      BY <1>10, <3>1, <3>2
  <2>3. CASE i > Len(d)
    BY <1>4, <1>5, <1>10, <2>3
  <2> QED
    BY <1>4, <1>10, <2>1, <2>2, <2>3
<1>11. OrderedDown(e)
  BY <1>4, <1>8, <1>9, <1>10 DEF OrderedDown
<1>12. notes(e) = notes(d) \cup requests(b)
  <2>1. ASSUME NEW i \in DOMAIN e PROVE e[i].says \in notes(d) \cup requests(b)
    <3>1. CASE i <= Len(d)
      BY <1>4, <1>7, <2>1, <3>1
    <3>2. CASE i > Len(d)
      BY <1>4, <1>5, <1>6, <2>1, <3>2
    <3> QED
      BY <1>4, <2>1, <3>1, <3>2
  <2>2. ASSUME NEW i \in DOMAIN d PROVE d[i].says \in notes(e)
    BY <1>1, <1>4, <2>2 DEF notes
  <2>3. ASSUME NEW i \in DOMAIN b PROVE b[i] \in notes(e)
    <3>1. i + Len(d) \in DOMAIN e /\ i + Len(d) > Len(d) /\ (i + Len(d)) - Len(d) = i
      BY <1>1, <1>4, <2>3
    <3>2. e[i + Len(d)].says = b[i]
      BY <1>4, <1>5, <3>1
    <3> QED
      BY <3>1, <3>2 DEF notes
  <2> QED
    BY <2>1, <2>2, <2>3 DEF notes, requests
<1>13. ASSUME NEW i \in DOMAIN e, NEW l \in 1 .. i, e[l].first
       PROVE  e[i].says \in later(d) \cup requests(b)
  <2>1. CASE i <= Len(d)
    <3>1. i \in DOMAIN d /\ e[i] = d[i] /\ l \in DOMAIN d /\ e[l] = d[l]
      BY <1>4, <1>13, <2>1
    <3> QED
      BY <1>13, <3>1 DEF later
  <2>2. CASE i > Len(d)
    BY <1>4, <1>5, <1>6, <1>13, <2>2
  <2> QED
    BY <1>4, <1>13, <2>1, <2>2
<1>14. later(e) \subseteq later(d) \cup requests(b)
  BY <1>13 DEF later
<1> QED
  BY <1>11, <1>12, <1>14 DEF e, s

\* Two sets have the same of some types, and the same asks of a kind.
Alike(N, M, T) == \A x \in N \cup M : x.type \in T => x \in N /\ x \in M
Same(A, B, kind, mine) == \A k \in A \cup B : k.kind = kind /\ k.mine = mine => k \in A /\ k \in B

\* The room: only replies and requests about it matter.
LEMMA RoomKept ==
  ASSUME NEW op, NEW room, NEW there, NEW N, NEW M, NEW Q, NEW R,
         RoomFits(op, room, there, N, Q), Alike(N, M, RoomReplies), Alike(Q, R, RoomRequests)
  PROVE  RoomFits(op, room, there, M, R)
<1>1. \A x \in M : x.type \in RoomReplies => x \in N
  BY DEF Alike
<1>2. \A x \in N : x.type \in RoomReplies => x \in M
  BY DEF Alike
<1>3. \A x \in R : x.type \in RoomRequests => x \in Q
  BY DEF Alike
<1>4. \A x \in Q : x.type \in RoomRequests => x \in R
  BY DEF Alike
<1> QED
  BY <1>1, <1>2, <1>3, <1>4 DEF RoomFits, RoomReplies, RoomRequests

KnockNotes == Replies \cup {"knock.result", "knock.accepted"}

\* The knock of the user: only what is told and asked of it, and the asks themselves, matter.
LEMMA KnockKept ==
  ASSUME NEW knock, NEW A, NEW B, NEW n \in Nat, NEW m \in Nat, NEW N, NEW M, NEW Q, NEW R,
         KnockFits(knock, A, n, N, Q), Same(A, B, "knock", TRUE), n <= m,
         Alike(N, M, KnockNotes), Alike(Q, R, {"knock.request"})
  PROVE  KnockFits(knock, B, m, M, R)
<1>1. \A x \in M : x.type \in KnockNotes => x \in N
  BY DEF Alike
<1>2. \A x \in N : x.type \in KnockNotes => x \in M
  BY DEF Alike
<1>3. \A x \in R : x.type = "knock.request" => x \in Q
  BY DEF Alike
<1>4. \A k \in B : k.kind = "knock" /\ k.mine => k \in A
  BY DEF Same
<1>5. \A k \in A : k.kind = "knock" /\ k.mine => k \in B
  BY DEF Same
<1>6. knock = NoKnock \/ knock \in [peer : Friends, id : 0 .. m]
  BY DEF KnockFits
<1>7. \A x \in Q : x.type = "knock.request" => x \in R
  BY DEF Alike
<1>8. knock # NoKnock /\ knock.id = 0 =>
        (\E r \in R : r.type = "knock.request") \/ (\E x \in M : x.type \in Replies)
  BY <1>2, <1>7 DEF KnockFits, KnockNotes
<1> QED
  BY <1>1, <1>2, <1>3, <1>4, <1>5, <1>6, <1>8 DEF KnockFits, KnockNotes, Replies, Told

PromptNotes    == {"knock.invitation", "knock.closed", "knock.failed"}
PromptRequests == {"knock.respond", "mesh.leave"}

\* The knock of a friend: only its messages, its answers and departures, and the asks matter.
LEMMA PromptKept ==
  ASSUME NEW prompt, NEW A, NEW B, NEW N, NEW M, NEW Q, NEW R,
         PromptFits(prompt, A, N, Q), Same(A, B, "knock", FALSE),
         Alike(N, M, PromptNotes), Alike(Q, R, PromptRequests)
  PROVE  PromptFits(prompt, B, M, R)
<1>1. \A x \in M : x.type \in PromptNotes => x \in N
  BY DEF Alike
<1>2. \A x \in N : x.type \in PromptNotes => x \in M
  BY DEF Alike
<1>3. \A x \in R : x.type \in PromptRequests => x \in Q
  BY DEF Alike
<1>4. \A x \in Q : x.type \in PromptRequests => x \in R
  BY DEF Alike
<1>5. \A k \in B : k.kind = "knock" /\ ~k.mine => k \in A
  BY DEF Same
<1>6. \A k \in A : k.kind = "knock" /\ ~k.mine => k \in B
  BY DEF Same
<1> QED
  BY <1>1, <1>2, <1>3, <1>4, <1>5, <1>6 DEF PromptFits, PromptNotes, PromptRequests, Told, Sent

InviteNotes == {"contact.invitation", "contact.closed", "contact.failed", "contact.accepted"}

\* The invitation by a friend: only its messages, its answer and the asks matter.
LEMMA InviteKept ==
  ASSUME NEW invite, NEW A, NEW B, NEW N, NEW M, NEW Q, NEW R,
         InviteFits(invite, A, N, Q), Same(A, B, "contact", FALSE),
         Alike(N, M, InviteNotes), Alike(Q, R, {"contact.respond"})
  PROVE  InviteFits(invite, B, M, R)
<1>1. \A x \in M : x.type \in InviteNotes => x \in N
  BY DEF Alike
<1>2. \A x \in N : x.type \in InviteNotes => x \in M
  BY DEF Alike
<1>4. \A x \in Q : x.type = "contact.respond" => x \in R
  BY DEF Alike
<1>5. \A k \in B : k.kind = "contact" /\ ~k.mine => k \in A
  BY DEF Same
<1>6. \A k \in A : k.kind = "contact" /\ ~k.mine => k \in B
  BY DEF Same
<1> QED
  BY <1>1, <1>2, <1>4, <1>5, <1>6 DEF InviteFits, InviteNotes, Told, Sent

EndNotes == Ends \cup {"room.left"}

\* The invitations by the user: only their ends, their requests and the asks matter.
LEMMA InvitesKept ==
  ASSUME NEW op, NEW room, NEW targets, NEW A, NEW B, NEW N, NEW M, NEW L, NEW K, NEW Q, NEW R,
         InvitesFit(op, room, targets, A, N, L, Q), Same(A, B, "contact", TRUE),
         Alike(N, M, EndNotes), Alike(Q, R, {"contact.invite"}),
         \A x \in K : x.type \in Ends => x \in L
  PROVE  InvitesFit(op, room, targets, B, M, K, R)
<1>1. \A x \in M : x.type \in EndNotes => x \in N
  BY DEF Alike
<1>3. \A x \in R : x.type = "contact.invite" => x \in Q
  BY DEF Alike
<1>5. \A k \in B : k.kind = "contact" /\ k.mine => k \in A
  BY DEF Same
<1> QED
  BY <1>1, <1>3, <1>5 DEF InvitesFit, EndNotes, Over

\* Who waits for the room: only the ends of invitations and the answers to a knock matter.
LEMMA WantKept ==
  ASSUME NEW wanted, NEW target, NEW targets, NEW prompt, NEW N, NEW M, NEW Q, NEW R,
         WantFits(wanted, target, targets, prompt, N, Q),
         \A x \in M : x.type \in Ends \cup {"knock.failed"} => x \in N,
         \A r \in R : r.type = "knock.respond" => r \in Q
  PROVE  WantFits(wanted, target, targets, prompt, M, R)
  BY DEF WantFits, Sent, Told, Ends

\* What does not change is alike.
LEMMA AsksAlike ==
  /\ \A A, kind, mine : Same(A, A, kind, mine)
  /\ \A N, T : Alike(N, N, T)
  BY DEF Same, Alike

\* One more of another type changes nothing of the types in T.
LEMMA AlikeMore ==
  ASSUME NEW N, NEW x, NEW T, x.type \notin T
  PROVE  Alike(N, N \cup {x}, T) /\ Alike(N \cup {x}, N, T)
  BY DEF Alike

\* A part of the invariant is kept by a step that leaves alone what it is about.
LEMMA RoomStill ==
  ASSUME RoomAgrees, UNCHANGED <<askOperation, askRoom, srvRoom>>,
         Alike(coming, coming', RoomReplies), Alike(going, going', RoomRequests)
  PROVE  RoomAgrees'
<1>1. RoomFits(askOperation, askRoom, srvRoom, coming, going)
  BY DEF RoomAgrees
<1>2. RoomFits(askOperation, askRoom, srvRoom, coming', going')
  BY <1>1, RoomKept
<1> QED
  BY <1>2 DEF RoomAgrees

\* A step that leaves the knock of the user and what it depends on alone keeps its agreement.
LEMMA KnockStill ==
  ASSUME KnockAgrees, UNCHANGED askKnock, askIds \in Nat, askIds' \in Nat, askIds <= askIds',
         Same(srvAsks, srvAsks', "knock", TRUE),
         Alike(coming, coming', KnockNotes), Alike(going, going', {"knock.request"})
  PROVE  KnockAgrees'
<1>1. KnockFits(askKnock, srvAsks, askIds, coming, going)
  BY DEF KnockAgrees
<1>2. KnockFits(askKnock, srvAsks', askIds', coming', going')
  BY <1>1, KnockKept
<1> QED
  BY <1>2 DEF KnockAgrees

\* A step that leaves the knock of a friend and what it depends on alone keeps its agreement.
LEMMA PromptStill ==
  ASSUME PromptAgrees, UNCHANGED askInKnock, Same(srvAsks, srvAsks', "knock", FALSE),
         Alike(coming, coming', PromptNotes), Alike(going, going', PromptRequests)
  PROVE  PromptAgrees'
<1>1. PromptFits(askInKnock, srvAsks, coming, going)
  BY DEF PromptAgrees
<1>2. PromptFits(askInKnock, srvAsks', coming', going')
  BY <1>1, PromptKept
<1> QED
  BY <1>2 DEF PromptAgrees

\* A step that leaves the invitation by a friend and what it depends on alone keeps its agreement.
LEMMA InviteStill ==
  ASSUME InviteAgrees, UNCHANGED askInvite, Same(srvAsks, srvAsks', "contact", FALSE),
         Alike(coming, coming', InviteNotes), Alike(going, going', {"contact.respond"})
  PROVE  InviteAgrees'
<1>1. InviteFits(askInvite, srvAsks, coming, going)
  BY DEF InviteAgrees
<1>2. InviteFits(askInvite, srvAsks', coming', going')
  BY <1>1, InviteKept
<1> QED
  BY <1>2 DEF InviteAgrees

\* A step that leaves the invitations by the user and what they depend on alone keeps their agreement.
LEMMA InvitesStill ==
  ASSUME InvitesAgree, UNCHANGED <<askOperation, askRoom, askTargets>>,
         Same(srvAsks, srvAsks', "contact", TRUE),
         Alike(coming, coming', EndNotes), Alike(going, going', {"contact.invite"}),
         \A x \in behind' : x.type \in Ends => x \in behind
  PROVE  InvitesAgree'
<1>1. InvitesFit(askOperation, askRoom, askTargets, srvAsks, coming, behind, going)
  BY DEF InvitesAgree
<1>2. InvitesFit(askOperation, askRoom, askTargets, srvAsks', coming', behind', going')
  BY <1>1, InvitesKept
<1> QED
  BY <1>2 DEF InvitesAgree

\* A step that leaves who waits for the room alone keeps that agreement.
LEMMA WantStill ==
  ASSUME WantAgrees, UNCHANGED <<askWanted, askTarget, askTargets, askInKnock>>,
         \A x \in coming' : x.type \in Ends \cup {"knock.failed"} => x \in coming,
         \A r \in going' : r.type = "knock.respond" => r \in going
  PROVE  WantAgrees'
<1>1. WantFits(askWanted, askTarget, askTargets, askInKnock, coming, going)
  BY DEF WantAgrees
<1>2. WantFits(askWanted, askTarget, askTargets, askInKnock, coming', going')
  BY <1>1, WantKept
<1> QED
  BY <1>2 DEF WantAgrees

\* A message is read.
LEMMA Taken ==
  ASSUME AsksInv, NEW T, Take(T)
  PROVE  /\ Arrival.type \in T /\ askOnline
         /\ UNCHANGED <<askOnline, srvProfile, srvRoom, srvAsks, srvCooling, askIds, askMade>>
         /\ OrderedDown(askDown')
         /\ coming = coming' \cup {Arrival}
         /\ behind' \subseteq behind /\ behind \subseteq coming
         /\ \A x \in coming' : MayPrecede(Arrival, x)
         /\ Arrival.type \in RoomReplies => behind = coming
         /\ Arrival.type = "room.left" => \A x \in behind' : x.type \notin Ends
         /\ NoteTyped(Arrival, askIds) /\ \A x \in coming' : NoteTyped(x, askIds)
         /\ \A S : Arrival.type \notin S => Alike(coming, coming', S)
<1>1. OrderedDown(askDown) /\ askDown # <<>> /\ askDown' = Tail(askDown)
  BY DEF AsksInv, Take
<1>2. /\ OrderedDown(Tail(askDown))
      /\ notes(askDown) = notes(Tail(askDown)) \cup {Head(askDown).says}
      /\ later(Tail(askDown)) \subseteq later(askDown) /\ later(askDown) \subseteq notes(askDown)
      /\ \A x \in notes(Tail(askDown)) : MayPrecede(Head(askDown).says, x)
      /\ Head(askDown).first => later(askDown) = notes(askDown)
      /\ Head(askDown).says.type \in RoomReplies => Head(askDown).first
      /\ Head(askDown).says.type = "room.left" => \A x \in later(Tail(askDown)) : x.type \notin Ends
  BY <1>1, DownShrinks
<1>3. /\ OrderedDown(askDown') /\ coming = coming' \cup {Arrival}
      /\ behind' \subseteq behind /\ behind \subseteq coming
      /\ \A x \in coming' : MayPrecede(Arrival, x)
      /\ Arrival.type \in RoomReplies => behind = coming
      /\ Arrival.type = "room.left" => \A x \in behind' : x.type \notin Ends
  BY <1>1, <1>2 DEF coming, behind, Arrival
<1>4. \A x \in coming : NoteTyped(x, askIds)
  BY DEF AsksInv, Typed, coming
<1>5. \A S : Arrival.type \notin S => Alike(coming, coming', S)
  BY <1>3 DEF Alike
<1>6. /\ Arrival.type \in T /\ askOnline
      /\ UNCHANGED <<askOnline, srvProfile, srvRoom, srvAsks, srvCooling, askIds, askMade>>
  BY DEF Take, srvVars
<1> QED
  BY <1>3, <1>4, <1>5, <1>6

\* The user's step waits for the rest of a batch.
LEMMA UserActs ==
  ASSUME AsksInv, userActs
  PROVE  behind = coming
<1>1. CASE askDown = <<>>
  BY <1>1 DEF coming, behind, notes, later
<1>2. CASE askDown # <<>>
  <2>1. OrderedDown(askDown) /\ Head(askDown).first
    BY <1>2 DEF AsksInv, userActs
  <2>2. later(askDown) = notes(askDown)
    BY <1>2, <2>1, DownShrinks
  <2> QED
    BY <2>2 DEF coming, behind
<1> QED
  BY <1>1, <1>2

\* A request is sent.
LEMMA Asking ==
  ASSUME AsksInv, NEW x, Submits(<<x>>), RequestTyped(x, askIds), \A r \in going : MayBeAskedBefore(r, x)
  PROVE  /\ OrderedUp(askUp') /\ going' = going \cup {x}
         /\ \A r \in going' : RequestTyped(r, askIds)
         /\ \A S : x.type \notin S => Alike(going, going', S)
<1>1. OrderedUp(askUp) /\ \A r \in requests(askUp) : MayBeAskedBefore(r, x)
  BY DEF AsksInv, going
<1>2. OrderedUp(askUp \o <<x>>) /\ requests(askUp \o <<x>>) = requests(askUp) \cup {x}
  BY <1>1, UpGrows
<1>3. OrderedUp(askUp') /\ going' = going \cup {x}
  BY <1>2 DEF Submits, going
<1>4. \A r \in going : RequestTyped(r, askIds)
  BY DEF AsksInv, Typed, going
<1> QED
  BY <1>3, <1>4 DEF Alike

\* The rest of the invariant, where the server does nothing.
LEMMA ServerStill ==
  ASSUME AsksInv, UNCHANGED <<srvProfile, srvRoom, srvAsks, askIds>>, askOnline => askOnline',
         askOnline' \in BOOLEAN, askMade' \in Nat, coming' \subseteq coming,
         \A r \in going' : RequestTyped(r, askIds)
  PROVE  Typed' /\ ServerKnows'
<1>1. ServerKnows'
  BY DEF AsksInv, ServerKnows
<1>2. \A x \in coming' : NoteTyped(x, askIds)
  BY DEF AsksInv, Typed, coming
<1>3. Typed'
  BY <1>2 DEF AsksInv, Typed, coming, going
<1> QED
  BY <1>1, <1>3

\* Where the client is does not change by what is under way.
LEMMA ClientStill ==
  ASSUME ClientStands, askIds \in Nat, askIds' \in Nat, askIds <= askIds',
         UNCHANGED <<askMesh, askInKnock, askInvite, askTarget, askTargets, askWanted, askRoom, askServerMesh,
                     askOperation>>
  PROVE  ClientStands'
<1>1. 1 .. askIds \subseteq 1 .. askIds'
  OBVIOUS
<1>2. /\ askInKnock = NoValue \/ (askInKnock \in KnockPrompts /\ askInKnock.id \in 1 .. askIds')
      /\ askInvite = NoValue \/ (askInvite \in InvitePrompts /\ askInvite.id \in 1 .. askIds')
  BY <1>1 DEF ClientStands, RoomStands, PromptsStand
<1>3. PromptsFit' /\ (inMesh' <=> inMesh)
  BY DEF ClientStands, RoomStands, PromptsStand, PromptsFit, inMesh
<1> QED
  BY <1>2, <1>3, Zenon DEF ClientStands, RoomStands, PromptsStand

\* Nobody, no mesh and nothing shown are told from the values they stand beside.
LEMMA NoMeshIsNone ==
  /\ NoMesh.id = NoValue /\ NoMesh.joined = FALSE /\ NoKnock.peer = NoValue /\ NoKnock.id = 0
  /\ NoValue \notin Conversations
  BY AsksAssumption DEF NoMesh, NoKnock

\* An empty connection.
LEMMA NothingUnderWay ==
  ASSUME AsksInv, signalingLost, ClientStands', askIds' = askIds, askMade' \in Nat
  PROVE  AsksInv'
<1>1. /\ coming' = {} /\ behind' = {} /\ going' = {}
      /\ OrderedUp(askUp') /\ OrderedDown(askDown')
  <2>1. askUp' = <<>> /\ askDown' = <<>>
    BY DEF signalingLost
  <2>2. DOMAIN <<>> = {} /\ IsSeq(<<>>)
    BY Short
  <2>3. notes(<<>>) = {} /\ later(<<>>) = {} /\ requests(<<>>) = {} /\ OrderedUp(<<>>) /\ OrderedDown(<<>>)
    BY <2>2 DEF notes, later, requests, OrderedUp, OrderedDown
  <2> QED
    BY <2>1, <2>3 DEF coming, behind, going
<1>2. /\ askOnline' = FALSE /\ askKnock' = NoKnock /\ askInKnock' = NoValue /\ askInvite' = NoValue
      /\ askTarget' = NoValue /\ askTargets' = {}
      /\ askRoom' = FALSE /\ askWanted' = FALSE /\ askOperation' = ""
      /\ srvProfile' = NoValue /\ srvRoom' = FALSE /\ srvAsks' = {}
  BY DEF signalingLost, resetPresence
<1>3. Typed'
  BY <1>1, <1>2, FS_EmptySet DEF AsksInv, Typed, coming, going
<1>4. ServerKnows'
  BY <1>2 DEF ServerKnows
<1>5. RoomAgrees'
  BY <1>1, <1>2 DEF RoomAgrees, RoomFits, Leaves
<1>6. KnockAgrees'
  BY <1>1, <1>2 DEF KnockAgrees, KnockFits, NoKnock
<1>7. PromptAgrees' /\ InviteAgrees' /\ InvitesAgree'
  BY <1>1, <1>2 DEF PromptAgrees, PromptFits, InviteAgrees, InviteFits, InvitesAgree, InvitesFit
<1>8. WantAgrees'
  BY <1>2 DEF WantAgrees, WantFits
<1> QED
  BY <1>1, <1>3, <1>4, <1>5, <1>6, <1>7, <1>8 DEF AsksInv, Agreement

\* signalingLost: the server forgets the user and nothing is on screen or under way.
LEMMA ConnectionFailsKeeps ==
  ASSUME AsksInv, SignalingFails
  PROVE  AsksInv'
<1>1. /\ signalingLost /\ askIds' = askIds /\ askMade' = askMade
      /\ \/ askServerMesh /\ ~askMesh.joined /\ askServerMesh' = FALSE /\ askMesh' = NoMesh
         \/ ~(askServerMesh /\ ~askMesh.joined) /\ UNCHANGED <<askServerMesh, askMesh>>
  BY DEF SignalingFails
<1>2. /\ askInKnock' = NoValue /\ askInvite' = NoValue /\ askTargets' = {}
      /\ askRoom' = FALSE /\ askWanted' = FALSE /\ askOperation' = ""
  BY <1>1 DEF signalingLost, resetPresence
<1>3. ClientStands'
  <2>1. askMesh' = NoMesh \/ askMesh' \in [id : Conversations, joined : BOOLEAN]
    BY <1>1 DEF AsksInv, ClientStands, RoomStands, PromptsStand
  <2>2. askServerMesh' \in BOOLEAN /\ (askServerMesh' => inMesh')
    <3>1. askServerMesh \in BOOLEAN /\ (askServerMesh => askMesh # NoMesh)
      BY DEF AsksInv, ClientStands, RoomStands, PromptsStand, inMesh
    <3>2. CASE askServerMesh' = FALSE
      BY <3>2
    <3>3. CASE UNCHANGED <<askServerMesh, askMesh>>
      BY <3>1, <3>3, Zenon DEF inMesh
    <3> QED
      BY <1>1, <3>2, <3>3
  <2> QED
    BY <1>2, <2>1, <2>2 DEF ClientStands, RoomStands, PromptsStand, Operations, PromptsFit
<1> QED
  BY <1>1, <1>3, NothingUnderWay DEF AsksInv, Typed

\* What does not concern the room, the server or an ask leaves the agreement as it is.
LEMMA AgreementStill ==
  ASSUME Agreement, UNCHANGED <<askOperation, askRoom, srvRoom, askKnock, askInKnock, askInvite, srvAsks, askIds,
                                askTargets, askTarget, askWanted>>, askIds \in Nat,
         coming' = coming, behind' = behind,
         \A r \in going \cup going' :
           r.type \in {"knock.request", "contact.invite"} \cup RoomRequests \cup PromptRequests \cup {"contact.respond"} =>
             r \in going /\ r \in going'
  PROVE  Agreement'
<1>1. /\ Alike(going, going', RoomRequests) /\ Alike(going, going', {"knock.request"})
      /\ Alike(going, going', PromptRequests) /\ Alike(going, going', {"contact.respond"})
      /\ Alike(going, going', {"contact.invite"})
  BY DEF Alike
<1>2. /\ \A T : Alike(coming, coming', T)
      /\ \A kind, mine : Same(srvAsks, srvAsks', kind, mine)
  BY AsksAlike
<1>3. \A r \in going' : r.type = "knock.respond" => r \in going
  BY DEF PromptRequests
<1>4. RoomAgrees' /\ KnockAgrees'
  <2>1. RoomAgrees'
    BY <1>1, <1>2, RoomStill DEF Agreement
  <2>2. askIds <= askIds' /\ askIds' \in Nat
    OBVIOUS
  <2>3. KnockAgrees'
    BY <1>1, <1>2, <2>2, KnockStill DEF Agreement
  <2> QED
    BY <2>1, <2>3
<1>5. PromptAgrees' /\ InviteAgrees'
  BY <1>1, <1>2, PromptStill, InviteStill DEF Agreement
<1>6. InvitesAgree'
  BY <1>1, <1>2, InvitesStill DEF Agreement
<1>7. WantAgrees'
  BY <1>3, WantStill DEF Agreement
<1> QED
  BY <1>4, <1>5, <1>6, <1>7 DEF Agreement

\* What presence computes can be published.
LEMMA PresenceTyped ==
  ASSUME ClientStands
  PROVE  presence \in Presences
<1>1. inMesh \in BOOLEAN
  BY DEF inMesh
<1>2. (IF askMesh.joined THEN askMesh.id ELSE NoValue) \in Conversations \cup {NoValue}
  BY NoMeshIsNone DEF ClientStands, RoomStands, PromptsStand
<1> QED
  BY <1>1, <1>2, Zenon DEF presence, Presences

\* A publication goes out behind all that is under way.
LEMMA Publishes ==
  ASSUME AsksInv, Submits(<<[type |-> "publish", profile |-> presence]>>), askOnline' \in BOOLEAN, askOnline => askOnline',
         UNCHANGED <<askMesh, promptVars, askRoomVars, askDown, srvVars, boundVars>>
  PROVE  AsksInv'
<1> DEFINE x == [type |-> "publish", profile |-> presence]
<1>0. x.type = "publish" /\ x.profile \in Presences
  BY PresenceTyped DEF AsksInv
<1> HIDE DEF x
<1>1. RequestTyped(x, askIds) /\ \A r \in going : MayBeAskedBefore(r, x)
  BY <1>0 DEF RequestTyped, MayBeAskedBefore, RoomRequests
<1>2. Submits(<<x>>)
  BY DEF x
<1>3. OrderedUp(askUp') /\ going' = going \cup {x} /\ \A r \in going' : RequestTyped(r, askIds)
  BY <1>1, <1>2, Asking
<1>4. coming' = coming /\ behind' = behind
  BY DEF coming, behind
<1>5. askIds \in Nat /\ askMade' \in Nat /\ askIds' = askIds
  BY DEF AsksInv, Typed, boundVars
<1>6. Agreement'
  BY <1>0, <1>3, <1>4, <1>5, AgreementStill
     DEF AsksInv, promptVars, askRoomVars, srvVars, boundVars, RoomRequests, PromptRequests
<1>7. Typed' /\ ServerKnows'
  BY <1>3, <1>4, <1>5, ServerStill DEF srvVars
<1>8. ClientStands'
  BY <1>5, ClientStill DEF AsksInv, promptVars, askRoomVars
<1> QED
  BY <1>3, <1>6, <1>7, <1>8 DEF AsksInv

\* readyChanged and publishPresence keep the agreement.
LEMMA PublishKeeps ==
  ASSUME AsksInv, Ready \/ publishPresence
  PROVE  AsksInv'
  BY Publishes DEF Ready, publishPresence, AsksInv, Typed

\* createMesh and the first link of a mesh being entered keep the agreement.
LEMMA MeshKeeps ==
  ASSUME AsksInv, createMesh \/ MeshJoined
  PROVE  AsksInv'
<1>1. /\ UNCHANGED <<askOnline, promptVars, askRoomVars, askUp, askDown, srvVars, askIds>>
      /\ askMade' \in Nat
  BY DEF createMesh, MeshJoined, boundVars, AsksInv, Typed
<1>2. ClientStands'
  <2>1. CASE createMesh
    <3>1. /\ askMesh = NoMesh /\ askOperation = "" /\ ~askWanted /\ askMade \in Nat
          /\ askMesh' = [id |-> askMade + 1, joined |-> TRUE]
      BY <2>1 DEF createMesh, inMesh, signalingBusy, AsksInv, Typed
    <3>2. /\ ~askServerMesh /\ ~askRoom /\ askTargets = {} /\ askInKnock = NoValue
      <4>1. ~askServerMesh /\ ~askRoom
        BY <3>1 DEF AsksInv, ClientStands, RoomStands, PromptsStand, inMesh
      <4>2. askTargets = {}
        BY <4>1 DEF AsksInv, ClientStands, RoomStands, PromptsStand
      <4>3. askInKnock # NoValue => askMesh.joined = TRUE
        <5>1. PromptsFit
          BY DEF AsksInv, ClientStands, RoomStands, PromptsStand
        <5> QED
          BY <5>1 DEF PromptsFit
      <4> QED
        BY <3>1, <4>1, <4>2, <4>3, NoMeshIsNone
    <3>3. askMesh' \in [id : Conversations, joined : BOOLEAN]
      <4>1. askMade + 1 \in Conversations
        <5>1. askMade + 1 \in Nat
          BY DEF AsksInv, Typed
        <5> QED
          BY <5>1, Zenon DEF Conversations
      <4> QED
        BY <3>1, <4>1
    <3> QED
      BY <1>1, <3>1, <3>2, <3>3 DEF AsksInv, ClientStands, RoomStands, PromptsStand, PromptsFit, inMesh, askRoomVars, promptVars
  <2>2. CASE MeshJoined
    <3>1. /\ askMesh # NoMesh /\ ~askMesh.joined /\ askRoom
          /\ askMesh' = [askMesh EXCEPT !.joined = TRUE]
      BY <2>2 DEF MeshJoined, inMesh
    <3>2. askMesh \in [id : Conversations, joined : BOOLEAN]
      BY <3>1 DEF AsksInv, ClientStands, RoomStands, PromptsStand
    <3>3. askMesh' \in [id : Conversations, joined : BOOLEAN] /\ askMesh'.joined /\ askMesh' # NoMesh
      BY <3>1, <3>2 DEF NoMesh
    <3>4. askInKnock = NoValue /\ askTargets = {}
      BY <3>1 DEF AsksInv, ClientStands, RoomStands, PromptsStand, PromptsFit
    <3> QED
      BY <1>1, <3>1, <3>3, <3>4 DEF AsksInv, ClientStands, RoomStands, PromptsStand, PromptsFit, inMesh, askRoomVars, promptVars
  <2> QED
    BY <2>1, <2>2
<1>3. coming' = coming /\ behind' = behind /\ going' = going
  BY <1>1 DEF coming, behind, going
<1>4. askIds \in Nat
  BY DEF AsksInv, Typed
<1>5. Agreement'
  BY <1>1, <1>3, <1>4, AgreementStill DEF AsksInv, promptVars, askRoomVars, srvVars
<1>6. Typed' /\ ServerKnows'
  BY <1>1, <1>3, ServerStill DEF AsksInv, Typed, srvVars, going
<1> QED
  BY <1>1, <1>2, <1>5, <1>6 DEF AsksInv

\* What the invariant says of where the client is.
LEMMA Standing ==
  ASSUME AsksInv
  PROVE  /\ askServerMesh \in BOOLEAN /\ askRoom \in BOOLEAN /\ askWanted \in BOOLEAN /\ askOnline \in BOOLEAN
         /\ askIds \in Nat /\ askMade \in Nat
         /\ askMesh = NoMesh \/ askMesh \in [id : Conversations, joined : BOOLEAN]
         /\ askOperation \in Operations
         /\ askServerMesh => askMesh # NoMesh
         /\ askRoom => askServerMesh
         /\ askOperation \in {"recover-create", "recover-leave"} => askServerMesh /\ askMesh.joined /\ ~askRoom
         /\ askOperation = "joining" => askServerMesh /\ ~askMesh.joined /\ ~askRoom
         /\ askOperation = "leave" => ~askServerMesh /\ askMesh = NoMesh
         /\ askWanted => askOperation \in {"", "recover-create"} /\ ~askRoom /\ askServerMesh
                           /\ askMesh.joined /\ askTarget \in Friends
         /\ askTargets \subseteq Friends
         /\ askTargets # {} => askServerMesh /\ askMesh.joined
         /\ askMesh = NoMesh => ~askMesh.joined
<1>1. ClientStands /\ askOnline \in BOOLEAN /\ askIds \in Nat /\ askMade \in Nat
  BY DEF AsksInv, Typed
<1> QED
  BY <1>1, NoMeshIsNone DEF ClientStands, RoomStands, PromptsStand, inMesh

\* What the invariant says of the prompts on screen.
LEMMA Shown ==
  ASSUME AsksInv
  PROVE  /\ askInKnock # NoValue => /\ askMesh # NoMesh /\ askMesh.joined /\ askMesh.id = askInKnock.mesh /\ askInvite = NoValue
                                 /\ askInKnock \in KnockPrompts /\ askInKnock.id \in 1 .. askIds
         /\ askInvite # NoValue => askInvite \in InvitePrompts /\ askInvite.id \in 1 .. askIds
<1>1. ClientStands
  BY DEF AsksInv
<1>2. PromptsFit
  BY <1>1 DEF ClientStands, RoomStands, PromptsStand
<1>3. /\ askInKnock = NoValue \/ (askInKnock \in KnockPrompts /\ askInKnock.id \in 1 .. askIds)
      /\ askInvite = NoValue \/ (askInvite \in InvitePrompts /\ askInvite.id \in 1 .. askIds)
  BY <1>1 DEF ClientStands, RoomStands, PromptsStand
<1>4. ASSUME askInKnock # NoValue PROVE askMesh.joined = TRUE /\ askMesh.id = askInKnock.mesh /\ askInvite = NoValue
  BY <1>2, <1>4 DEF PromptsFit
<1>5. askInKnock # NoValue => askMesh # NoMesh
  BY <1>4, NoMeshIsNone
<1> QED
  BY <1>3, <1>4, <1>5

\* Requests put behind others one after the other or at once.
LEMMA Appended ==
  ASSUME NEW u, IsSeq(u)
  PROVE  /\ u \o <<>> = u
         /\ \A v, w : IsSeq(v) /\ IsSeq(w) => u \o (v \o w) = (u \o v) \o w
<1>1. PICK S : u \in Seq(S)
  BY DEF IsSeq
<1>2. u \o <<>> = u
  BY <1>1, ConcatEmptySeq
<1>3. ASSUME NEW v, NEW w, IsSeq(v), IsSeq(w) PROVE u \o (v \o w) = (u \o v) \o w
  <2>1. PICK T : v \in Seq(T)
    BY <1>3 DEF IsSeq
  <2>2. PICK V : w \in Seq(V)
    BY <1>3 DEF IsSeq
  <2>4. PICK W : W = S \cup T \cup V
    OBVIOUS
  <2>3. u \in Seq(W) /\ v \in Seq(W) /\ w \in Seq(W)
    BY <1>1, <2>1, <2>2, <2>4
  <2>5. (u \o v) \o w = u \o (v \o w)
    BY <2>3, ConcatAssociative
  <2> QED
    BY <2>5
<1> QED
  BY <1>2, <1>3

farewell == IF askOnline /\ askMesh.joined THEN <<[type |-> "mesh.leave", mesh |-> askMesh.id]>> ELSE <<>>

\* leaveMesh: the farewell to a joined mesh may be said behind all that is under way.
LEMMA Parting ==
  ASSUME AsksInv, askMesh # NoMesh
  PROVE  /\ IsSeq(farewell) /\ OrderedUp(askUp \o farewell)
         /\ requests(askUp \o farewell) = going \cup requests(farewell)
         /\ \A r \in requests(farewell) : r.type = "mesh.leave" /\ RequestTyped(r, askIds)
         /\ askOnline /\ askMesh.joined => \E r \in requests(farewell) : r.type = "mesh.leave" /\ r.mesh = askMesh.id
<1> DEFINE x == [type |-> "mesh.leave", mesh |-> askMesh.id]
<1>1. OrderedUp(askUp) /\ IsSeq(askUp) /\ askMesh.id \in Conversations
  BY Standing DEF AsksInv, OrderedUp
<1>2. x.type = "mesh.leave" /\ x.mesh = askMesh.id
  OBVIOUS
<1>3. CASE askOnline /\ askMesh.joined
  <2>1. farewell = <<x>>
    BY <1>3 DEF farewell
  <2> HIDE DEF x
  <2>2. RequestTyped(x, askIds) /\ \A r \in requests(askUp) : MayBeAskedBefore(r, x)
    BY <1>1, <1>2 DEF RequestTyped, MayBeAskedBefore, RoomRequests
  <2>3. OrderedUp(askUp \o <<x>>) /\ requests(askUp \o <<x>>) = requests(askUp) \cup {x}
    BY <1>1, <2>2, UpGrows
  <2>4. IsSeq(<<x>>) /\ requests(<<x>>) = {x}
    BY Short
  <2> QED
    BY <1>2, <2>1, <2>2, <2>3, <2>4 DEF going
<1>4. CASE ~(askOnline /\ askMesh.joined)
  <2>1. farewell = <<>>
    BY <1>4 DEF farewell
  <2>2. IsSeq(<<>>) /\ requests(<<>>) = {} /\ askUp \o <<>> = askUp
    BY <1>1, Short, Appended
  <2> QED
    BY <1>1, <1>4, <2>1, <2>2 DEF going
<1> QED
  BY <1>3, <1>4

\* The prompt of a knock goes away with the mesh it was for.
LEMMA PromptLeft ==
  ASSUME NEW prompt, NEW A, NEW N, NEW Q, NEW R, NEW p, p = NoValue,
         PromptFits(prompt, A, N, Q), Q \subseteq R,
         \A r \in R : r.type = "knock.respond" => r \in Q,
         prompt # NoValue /\ (\E k \in A : k.kind = "knock" /\ ~k.mine) =>
           \E r \in R : r.type = "mesh.leave" /\ r.mesh = prompt.mesh
  PROVE  PromptFits(p, A, N, R)
<1>1. ASSUME NEW k \in A, k.kind = "knock", ~k.mine
      PROVE  /\ \/ \E x \in N : x.type = "knock.invitation" /\ x.id = k.id /\ x.peer = k.peer /\ x.mesh = k.mesh
                \/ Sent(R, "knock.respond", k.id)
                \/ \E r \in R : r.type = "mesh.leave" /\ r.mesh = k.mesh
             /\ ~Told(N, "knock.closed", k.id) /\ ~Told(N, "knock.failed", k.id)
  BY <1>1 DEF PromptFits, Sent
<1>2. \A x \in N : x.type = "knock.invitation" =>
       /\ \/ \E k \in A : k.kind = "knock" /\ ~k.mine /\ k.id = x.id /\ k.peer = x.peer
          \/ Told(N, "knock.closed", x.id)
       /\ ~Sent(R, "knock.respond", x.id) /\ ~Told(N, "knock.failed", x.id)
  BY DEF PromptFits, Sent
<1> QED
  BY <1>1, <1>2 DEF PromptFits

\* leaveMesh, on each of its three paths, keeps the agreement.
LEMMA LeaveKeeps ==
  ASSUME AsksInv, quitMesh
  PROVE  AsksInv'
<1>1. /\ askMesh # NoMesh /\ askMesh' = NoMesh /\ UNCHANGED boundVars
      /\ \/ /\ ~askServerMesh /\ askOperation = ""
            /\ leaveServerRoom
            /\ Submits(farewell)
            /\ UNCHANGED <<askOnline, askRegistered, askPublished, askKnock, askInvite, askWanted, askRoom,
                           askServerMesh, askOperation, askDown, srvVars>>
         \/ /\ askServerMesh \/ askOperation # ""
            /\ askOnline /\ askRoom /\ askOperation = ""
            /\ leaveServerRoom
            /\ Submits(farewell \o <<[type |-> "room.leave"]>>)
            /\ askServerMesh' = FALSE /\ askRoom' = FALSE /\ askWanted' = FALSE
            /\ askOperation' = "leave"
            /\ UNCHANGED <<askOnline, askRegistered, askPublished, askKnock, askInvite, askDown, srvVars>>
         \/ /\ signalingLost
            /\ askServerMesh' = FALSE
  BY DEF quitMesh, farewell, inMesh
<1>2. /\ IsSeq(farewell) /\ OrderedUp(askUp \o farewell)
      /\ requests(askUp \o farewell) = going \cup requests(farewell)
      /\ \A r \in requests(farewell) : r.type = "mesh.leave" /\ RequestTyped(r, askIds)
      /\ askOnline /\ askMesh.joined => \E r \in requests(farewell) : r.type = "mesh.leave" /\ r.mesh = askMesh.id
  BY <1>1, Parting
<1>3. askInvite = NoValue \/ (askInvite \in InvitePrompts /\ askInvite.id \in 1 .. askIds)
  BY Shown
<1>4. askIds' = askIds /\ askMade' = askMade /\ askIds \in Nat /\ askMade \in Nat
  BY <1>1, Standing DEF boundVars
<1>10. askIds \in Nat /\ askIds' \in Nat /\ askIds <= askIds'
  BY <1>4
<1>5. \A r \in going : RequestTyped(r, askIds)
  BY DEF AsksInv, Typed, going
<1>6. ASSUME signalingLost, askServerMesh' = FALSE PROVE AsksInv'
  <2>1. /\ askInKnock' = NoValue /\ askInvite' = NoValue /\ askTargets' = {}
        /\ askRoom' = FALSE /\ askWanted' = FALSE /\ askOperation' = ""
    BY <1>6 DEF signalingLost, resetPresence
  <2>2. ClientStands'
    BY <1>1, <1>6, <2>1 DEF ClientStands, RoomStands, PromptsStand, Operations, PromptsFit
  <2> QED
    BY <1>4, <1>6, <2>2, NothingUnderWay
<1>7. ASSUME askDown' = askDown, srvAsks' = srvAsks, askInKnock' = NoValue, going \cup requests(farewell) \subseteq going',
             \A r \in going' : r.type = "knock.respond" => r \in going
      PROVE  PromptAgrees'
  <2>1. PromptFits(askInKnock, srvAsks, coming, going)
    BY DEF AsksInv, Agreement, PromptAgrees
  <2>2. askInKnock # NoValue /\ (\E k \in srvAsks : k.kind = "knock" /\ ~k.mine) =>
           \E r \in going' : r.type = "mesh.leave" /\ r.mesh = askInKnock.mesh
    <3>1. srvAsks # {} => askOnline
      BY DEF AsksInv, ServerKnows
    <3> QED
      BY <1>2, <1>7, <3>1, Shown
  <2>4. PromptFits(NoValue, srvAsks, coming, going')
    BY <1>7, <2>1, <2>2, PromptLeft
  <2> QED
    BY <1>7, <2>4 DEF PromptAgrees, coming
<1>8. ASSUME ~askServerMesh, askOperation = "", leaveServerRoom, Submits(farewell),
             UNCHANGED <<askOnline, askRegistered, askPublished, askKnock, askInvite, askWanted, askRoom,
                           askServerMesh, askOperation, askDown, srvVars>>
      PROVE  AsksInv'
  <2>1. askInKnock' = NoValue /\ askTargets' = {} /\ askTarget' = NoValue
    BY <1>8 DEF leaveServerRoom
  <2>2. askTargets = {} /\ ~askWanted /\ ~askRoom
    BY <1>8, Standing
  <2>3. OrderedUp(askUp') /\ going' = going \cup requests(farewell)
    BY <1>2, <1>8 DEF Submits, going
  <2>4. coming' = coming /\ behind' = behind
    BY <1>8 DEF coming, behind
  <2>5. ClientStands'
    BY <1>1, <1>3, <1>4, <1>8, <2>1, <2>2, Standing DEF ClientStands, RoomStands, PromptsStand, Operations, PromptsFit
  <2>6. Typed' /\ ServerKnows'
    BY <1>2, <1>4, <1>5, <1>8, <2>3, <2>4, ServerStill, Standing DEF srvVars
  <2>7. \A T : Alike(coming, coming', T)
    BY <2>4, AsksAlike
  <2>8. \A T : "mesh.leave" \notin T => Alike(going, going', T)
    BY <1>2, <2>3 DEF Alike
  <2>9. \A kind, mine : Same(srvAsks, srvAsks', kind, mine)
    BY <1>8, AsksAlike DEF srvVars
  <2>10. RoomAgrees'
    BY <1>8, <2>7, <2>8, RoomStill DEF AsksInv, Agreement, RoomRequests, srvVars
  <2>11. KnockAgrees'
    BY <1>10, <1>8, <2>7, <2>8, <2>9, KnockStill DEF AsksInv, Agreement
  <2>12. InviteAgrees'
    BY <1>8, <2>7, <2>8, <2>9, InviteStill DEF AsksInv, Agreement
  <2>13. InvitesAgree'
    BY <1>8, <2>1, <2>2, <2>4, <2>7, <2>8, <2>9, InvitesStill DEF AsksInv, Agreement
  <2>14. WantAgrees'
    BY <1>8, <2>2 DEF WantAgrees, WantFits
  <2>15. PromptAgrees'
    BY <1>2, <1>7, <1>8, <2>1, <2>3 DEF srvVars
  <2> QED
    BY <1>8, <2>3, <2>5, <2>6, <2>10, <2>11, <2>12, <2>13, <2>14, <2>15 DEF AsksInv, Agreement
<1>9. ASSUME askOnline, askRoom, askOperation = "", leaveServerRoom,
             Submits(farewell \o <<[type |-> "room.leave"]>>),
             askServerMesh' = FALSE, askRoom' = FALSE, askWanted' = FALSE,
             askOperation' = "leave",
             UNCHANGED <<askOnline, askRegistered, askPublished, askKnock, askInvite, askDown, srvVars>>
      PROVE  AsksInv'
  <2> DEFINE x == [type |-> "room.leave"]
  <2>1. askInKnock' = NoValue /\ askTargets' = {} /\ askTarget' = NoValue
    BY <1>9 DEF leaveServerRoom
  <2>2. x.type = "room.leave" /\ Submits(farewell \o <<x>>)
    BY <1>9
  <2> HIDE DEF x
  <2>3. \A r \in going : r.type \notin RoomRequests
    BY <1>9 DEF AsksInv, Agreement, RoomAgrees, RoomFits, RoomRequests, Leaves
  <2>4. \A y \in coming : y.type \notin RoomReplies
    BY <1>9 DEF AsksInv, Agreement, RoomAgrees, RoomFits, RoomReplies, Leaves
  <2>5. OrderedUp((askUp \o farewell) \o <<x>>)
        /\ requests((askUp \o farewell) \o <<x>>) = requests(askUp \o farewell) \cup {x}
    <3>1. \A r \in requests(askUp \o farewell) : MayBeAskedBefore(r, x)
      BY <1>2, <2>2, <2>3 DEF MayBeAskedBefore, RoomRequests
    <3> QED
      BY <1>2, <3>1, UpGrows
  <2>6. askUp' = (askUp \o farewell) \o <<x>>
    <3>1. IsSeq(askUp) /\ IsSeq(<<x>>)
      BY Short DEF AsksInv, OrderedUp
    <3>2. askUp' = askUp \o (farewell \o <<x>>)
      BY <2>2 DEF Submits
    <3> QED
      BY <1>2, <3>1, <3>2, Appended
  <2>7. OrderedUp(askUp') /\ going' = going \cup requests(farewell) \cup {x}
    BY <1>2, <2>5, <2>6 DEF going
  <2>8. coming' = coming /\ behind' = behind
    BY <1>9 DEF coming, behind
  <2>9. ClientStands'
    BY <1>1, <1>3, <1>4, <1>9, <2>1 DEF ClientStands, RoomStands, PromptsStand, Operations, Leaves, PromptsFit, inMesh
  <2>10. Typed' /\ ServerKnows'
    <3>1. RequestTyped(x, askIds)
      BY <2>2 DEF RequestTyped
    <3> QED
      BY <1>2, <1>4, <1>5, <1>9, <2>7, <2>8, <3>1, ServerStill, Standing DEF srvVars
  <2>11. \A T : Alike(coming, coming', T)
    BY <2>8, AsksAlike
  <2>12. \A T : "mesh.leave" \notin T /\ "room.leave" \notin T => Alike(going, going', T)
    BY <1>2, <2>2, <2>7 DEF Alike
  <2>13. \A kind, mine : Same(srvAsks, srvAsks', kind, mine)
    BY <1>9, AsksAlike DEF srvVars
  <2>14. RoomAgrees'
    BY <1>2, <1>9, <2>2, <2>3, <2>4, <2>7, <2>8 DEF RoomAgrees, RoomFits, Leaves, RoomReplies, RoomRequests
  <2>15. KnockAgrees'
    BY <1>10, <1>9, <2>11, <2>12, <2>13, KnockStill DEF AsksInv, Agreement
  <2>16. InviteAgrees'
    BY <1>9, <2>11, <2>12, <2>13, InviteStill DEF AsksInv, Agreement
  <2>17. InvitesAgree'
    <3>1. InvitesFit(askOperation, askRoom, askTargets, srvAsks, coming, behind, going)
      BY DEF AsksInv, Agreement, InvitesAgree
    <3>2. \A r \in going' : r.type = "contact.invite" => r \in going
      BY <1>2, <2>2, <2>7
    <3>3. "leave" \in Leaves
      BY DEF Leaves
    <3>4. \A y \in coming : y.type # "room.left"
      BY <2>4 DEF RoomReplies
    <3>5. srvAsks' = srvAsks
      BY <1>9 DEF srvVars
    <3> QED
      BY <1>9, <2>8, <3>1, <3>2, <3>3, <3>4, <3>5 DEF InvitesAgree, InvitesFit
  <2>18. WantAgrees'
    BY <1>9 DEF WantAgrees, WantFits
  <2>19. PromptAgrees'
    <3>1. \A r \in going' : r.type = "knock.respond" => r \in going
      BY <1>2, <2>2, <2>7
    <3> QED
      BY <1>7, <1>9, <2>1, <2>7, <3>1 DEF srvVars
  <2> QED
    BY <2>7, <1>9, <2>9, <2>10, <2>14, <2>15, <2>16, <2>17, <2>18, <2>19 DEF AsksInv, Agreement
<1> QED
  BY <1>1, <1>6, <1>8, <1>9

\* The answer to a prompt is sent; p is the prompt afterwards.
LEMMA PromptAnswered ==
  ASSUME NEW prompt, NEW A, NEW N, NEW Q, NEW R, NEW p, NEW x,
         PromptFits(prompt, A, N, Q), prompt # NoValue, R = Q \cup {x},
         x.type = "knock.respond", x.id = prompt.id,
         p = NoValue \/ (p.accepting /\ p.id = prompt.id /\ p.from = prompt.from /\ p.mesh = prompt.mesh)
  PROVE  PromptFits(p, A, N, R)
<1>1. Sent(R, "knock.respond", prompt.id)
  BY DEF Sent
<1>2. \A n : Sent(R, "knock.respond", n) => Sent(Q, "knock.respond", n) \/ n = prompt.id
  BY DEF Sent
<1>3. \A n : Sent(Q, "knock.respond", n) => Sent(R, "knock.respond", n)
  BY DEF Sent
<1>4. ASSUME NEW k \in A, k.kind = "knock", ~k.mine
      PROVE  /\ \/ \E y \in N : y.type = "knock.invitation" /\ y.id = k.id /\ y.peer = k.peer /\ y.mesh = k.mesh
                \/ Sent(R, "knock.respond", k.id)
                \/ \E r \in R : r.type = "mesh.leave" /\ r.mesh = k.mesh
             /\ ~Told(N, "knock.closed", k.id) /\ ~Told(N, "knock.failed", k.id)
  <2>1. k.id = prompt.id => Sent(R, "knock.respond", k.id)
    BY <1>1
  <2>2. /\ \/ \E y \in N : y.type = "knock.invitation" /\ y.id = k.id /\ y.peer = k.peer /\ y.mesh = k.mesh
           \/ k.id = prompt.id
           \/ Sent(Q, "knock.respond", k.id)
           \/ \E r \in Q : r.type = "mesh.leave" /\ r.mesh = k.mesh
        /\ ~Told(N, "knock.closed", k.id) /\ ~Told(N, "knock.failed", k.id)
    BY <1>4 DEF PromptFits
  <2> QED
    BY <1>3, <2>1, <2>2
<1>5. p # NoValue =>
       /\ \/ \E k \in A : k.kind = "knock" /\ ~k.mine /\ k.id = p.id /\ k.peer = p.from
          \/ Told(N, "knock.closed", p.id)
       /\ p.accepting
  BY DEF PromptFits
<1>6. \A y \in N : y.type = "knock.invitation" =>
       /\ \/ \E k \in A : k.kind = "knock" /\ ~k.mine /\ k.id = y.id /\ k.peer = y.peer
          \/ Told(N, "knock.closed", y.id)
       /\ ~Sent(R, "knock.respond", y.id) /\ ~Told(N, "knock.failed", y.id)
       /\ p # NoValue => p.id # y.id
  <2> SUFFICES ASSUME NEW y \in N, y.type = "knock.invitation"
               PROVE  /\ \/ \E k \in A : k.kind = "knock" /\ ~k.mine /\ k.id = y.id /\ k.peer = y.peer
                         \/ Told(N, "knock.closed", y.id)
                      /\ ~Sent(R, "knock.respond", y.id) /\ ~Told(N, "knock.failed", y.id)
                      /\ p # NoValue => p.id # y.id
    OBVIOUS
  <2>1. /\ \/ \E k \in A : k.kind = "knock" /\ ~k.mine /\ k.id = y.id /\ k.peer = y.peer
           \/ Told(N, "knock.closed", y.id)
        /\ ~Sent(Q, "knock.respond", y.id) /\ ~Told(N, "knock.failed", y.id)
        /\ prompt.id # y.id
    BY DEF PromptFits
  <2>2. p # NoValue => p.id # y.id
    BY <2>1
  <2> QED
    BY <1>2, <2>1, <2>2
<1> QED
  BY <1>4, <1>5, <1>6 DEF PromptFits

\* The prompt is being accepted, and the answer is still to come.
LEMMA PromptTaken ==
  ASSUME NEW prompt, NEW A, NEW N, NEW Q, NEW p,
         PromptFits(prompt, A, N, Q), prompt # NoValue,
         p.accepting, p.id = prompt.id, p.from = prompt.from, p.mesh = prompt.mesh, p # NoValue
  PROVE  PromptFits(p, A, N, Q)
  BY DEF PromptFits

\* An invitation is sent.
LEMMA InviteSent ==
  ASSUME NEW op, NEW room, NEW targets, NEW A, NEW N, NEW L, NEW Q, NEW R, NEW T, NEW x,
         InvitesFit(op, room, targets, A, N, L, Q), op \notin Leaves, R = Q \cup {x}, targets \subseteq T,
         x.type = "contact.invite", x.peer \in T, room, ~Over(N, x.peer),
         \A k \in A : ~(k.kind = "contact" /\ k.mine /\ k.peer = x.peer),
         \A y \in N : y.type # "room.left"
  PROVE  InvitesFit(op, room, T, A, N, L, R)
  BY DEF InvitesFit

\* More friends are asked, or have the room made for them, and op is another operation.
LEMMA InvitesMore ==
  ASSUME NEW op, NEW room, NEW targets, NEW A, NEW N, NEW L, NEW Q, NEW T, NEW o,
         InvitesFit(op, room, targets, A, N, L, Q), op \notin Leaves, targets \subseteq T
  PROVE  InvitesFit(o, room, T, A, N, L, Q)
  BY DEF InvitesFit

\* With no operation under way the client and the server agree about the room.
LEMMA NothingAbout ==
  ASSUME AsksInv, askOperation = ""
  PROVE  /\ srvRoom = askRoom
         /\ \A r \in going : r.type \notin RoomRequests
         /\ \A x \in coming : x.type \notin RoomReplies
  BY DEF AsksInv, Agreement, RoomAgrees, RoomFits, RoomRequests, RoomReplies, Leaves

\* recoverServerRoom, making a room or leaving one, keeps the agreement.
LEMMA RecoverKeeps ==
  ASSUME AsksInv, recoverServerRoom
  PROVE  AsksInv'
<1>1. /\ askServerMesh /\ askMesh.joined /\ askOnline /\ askOperation = ""
      /\ UNCHANGED <<askOnline, askRegistered, askPublished, askMesh, promptVars, askTarget, askTargets,
                 askWanted, askServerMesh, askDown, srvVars, askIds, askMade>>
  BY DEF recoverServerRoom
<1>2. PICK x : /\ Submits(<<x>>)
               /\ \/ ~askRoom /\ askOperation' = "recover-create" /\ x.type = "room.create" /\ askRoom' = askRoom
                  \/ askRoom /\ askRoom' = FALSE /\ askOperation' = "recover-leave" /\ x.type = "room.leave"
  <2>1. [type |-> "room.create"].type = "room.create" /\ [type |-> "room.leave"].type = "room.leave"
    OBVIOUS
  <2> QED
    BY <2>1 DEF recoverServerRoom
<1>3. /\ srvRoom = askRoom
      /\ \A r \in going : r.type \notin RoomRequests
      /\ \A y \in coming : y.type \notin RoomReplies
  BY <1>1, NothingAbout
<1>4. /\ OrderedUp(askUp') /\ going' = going \cup {x}
      /\ \A r \in going' : RequestTyped(r, askIds)
      /\ \A S : x.type \notin S => Alike(going, going', S)
  <2>1. RequestTyped(x, askIds) /\ \A r \in going : MayBeAskedBefore(r, x)
    BY <1>2, <1>3 DEF RequestTyped, MayBeAskedBefore
  <2> QED
    BY <1>2, <2>1, Asking
<1>5. coming' = coming /\ behind' = behind
  BY <1>1 DEF coming, behind
<1>6. Typed' /\ ServerKnows'
  BY <1>1, <1>4, <1>5, ServerStill, Standing DEF srvVars
<1>7. ClientStands'
  <2>1. PromptsStand'
    BY <1>1 DEF AsksInv, ClientStands, PromptsStand, PromptsFit, promptVars
  <2>2. RoomStands'
    <3>1. RoomStands
      BY DEF AsksInv, ClientStands
    <3>2. CASE askRoom' = askRoom /\ askOperation' = "recover-create" /\ ~askRoom
      BY <1>1, <3>1, <3>2 DEF RoomStands, Operations, Leaves, inMesh
    <3>3. CASE askRoom /\ askRoom' = FALSE /\ askOperation' = "recover-leave"
      BY <1>1, <3>1, <3>3 DEF RoomStands, Operations, Leaves, inMesh
    <3> QED
      BY <1>2, <3>2, <3>3
  <2> QED
    BY <2>1, <2>2 DEF ClientStands
<1>8. \A T : Alike(coming, coming', T)
  BY <1>5, AsksAlike
<1>9. \A kind, mine : Same(srvAsks, srvAsks', kind, mine)
  BY <1>1, AsksAlike DEF srvVars
<1>10. askIds \in Nat /\ askIds' \in Nat /\ askIds <= askIds'
  <2>1. askIds' = askIds /\ askIds \in Nat
    BY <1>1, Standing
  <2> QED
    BY <2>1
<1>11. RoomAgrees'
  BY <1>1, <1>2, <1>3, <1>4, <1>5, Standing DEF RoomAgrees, RoomFits, Leaves, RoomReplies, RoomRequests, srvVars
<1>12. KnockAgrees'
  BY <1>1, <1>2, <1>4, <1>8, <1>9, <1>10, KnockStill DEF AsksInv, Agreement, promptVars
<1>13. PromptAgrees'
  BY <1>1, <1>2, <1>4, <1>8, <1>9, PromptStill DEF AsksInv, Agreement, promptVars, PromptRequests
<1>14. InviteAgrees'
  BY <1>1, <1>2, <1>4, <1>8, <1>9, InviteStill DEF AsksInv, Agreement, promptVars
<1>15. InvitesAgree'
  <2>1. InvitesFit(askOperation, askRoom, askTargets, srvAsks, coming, behind, going)
    BY DEF AsksInv, Agreement, InvitesAgree
  <2>2. askOperation \notin Leaves
    BY <1>1 DEF Leaves
  <2>3. InvitesFit(askOperation', askRoom, askTargets, srvAsks, coming, behind, going)
    BY <2>1, <2>2, InvitesMore
  <2>4. \A r \in going' : r.type = "contact.invite" => r \in going
    BY <1>2, <1>4
  <2>5. \A y \in coming : y.type # "room.left"
    BY <1>3 DEF RoomReplies
  <2>6. askRoom' = askRoom \/ askOperation' \in Leaves
    BY <1>2 DEF Leaves
  <2>7. InvitesFit(askOperation', askRoom', askTargets, srvAsks, coming, behind, going')
    BY <2>3, <2>4, <2>5, <2>6 DEF InvitesFit
  <2> QED
    BY <1>1, <1>5, <2>7 DEF InvitesAgree, srvVars
<1>16. WantAgrees'
  BY <1>1, <1>2, <1>4, <1>5, WantStill DEF AsksInv, Agreement, promptVars
<1> QED
  BY <1>1, <1>4, <1>5, <1>6, <1>7, <1>11, <1>12, <1>13, <1>14, <1>15, <1>16 DEF AsksInv, Agreement

\* submitOnlineInvitation sends one request: the acceptance of the knock that waited, or an invitation.
LEMMA SubmissionIs ==
  ASSUME NEW peer
  PROVE  \E x : /\ Submission(peer) = <<x>>
                /\ \/ Accepts(peer)' /\ x.type = "knock.respond" /\ x.id = askInKnock'.id /\ x.accept = TRUE
                   \/ ~Accepts(peer)' /\ x.type = "contact.invite" /\ x.peer = peer
<1>1. CASE Accepts(peer)'
  <2> DEFINE x == Respond(askInKnock'.id, "knock", TRUE)
  <2>1. Submission(peer) = <<x>>
    BY <1>1 DEF Submission
  <2>2. x.type = "knock.respond" /\ x.id = askInKnock'.id /\ x.accept = TRUE
    BY DEF Respond, Responds, By
  <2> QED
    BY <1>1, <2>1, <2>2
<1>2. CASE ~Accepts(peer)'
  <2> DEFINE x == [type |-> "contact.invite", peer |-> peer]
  <2>1. Submission(peer) = <<x>>
    BY <1>2 DEF Submission
  <2>2. x.type = "contact.invite" /\ x.peer = peer
    OBVIOUS
  <2> QED
    BY <1>2, <2>1, <2>2
<1> QED
  BY <1>1, <1>2

\* Where no room is under way and the user acts, what is told of invitations is about invited friends.
LEMMA NothingOver ==
  ASSUME AsksInv, askOperation = "", behind = coming
  PROVE  \A x \in coming : x.type \in Ends => askRoom /\ x.peer \in askTargets
<1>1. askOperation \notin Leaves
  BY DEF Leaves
<1> QED
  BY <1>1 DEF AsksInv, Agreement, InvitesAgree, InvitesFit

\* inviteAcquaintance, with a room or waiting for one, keeps the agreement.
LEMMA InviteAcquaintanceKeeps ==
  ASSUME AsksInv, NEW peer \in Friends, inviteAcquaintance(peer)
  PROVE  AsksInv'
<1>1. /\ userActs /\ askOnline /\ askMesh.joined /\ askOperation = "" /\ ~askWanted
      /\ peer \notin askTargets /\ askTargets' = askTargets \cup {peer}
      /\ askServerMesh' = TRUE
      /\ UNCHANGED <<askOnline, askMesh, askKnock, askInKnock, askInvite, askRoom, askOperation, askDown,
                     srvProfile, srvRoom, srvAsks, askIds, askMade>>
  BY DEF inviteAcquaintance, AskWhenReady, signalingBusy, promptVars, srvVars, boundVars
<1>2. behind = coming
  BY <1>1, UserActs
<1>3. /\ srvRoom = askRoom
      /\ \A r \in going : r.type \notin RoomRequests
      /\ \A y \in coming : y.type \notin RoomReplies
      /\ \A y \in coming : y.type \in Ends => askRoom /\ y.peer \in askTargets
  BY <1>1, <1>2, NothingAbout, NothingOver
<1>4. coming' = coming /\ behind' = behind
  BY <1>1 DEF coming, behind
<1>5. \A T : Alike(coming, coming', T)
  BY <1>4, AsksAlike
<1>6. \A kind, mine : Same(srvAsks, srvAsks', kind, mine)
  BY <1>1, AsksAlike
<1>7. askIds \in Nat /\ askIds' \in Nat /\ askIds <= askIds' /\ askMade \in Nat /\ askOnline \in BOOLEAN
  <2>1. askIds' = askIds /\ askIds \in Nat /\ askMade \in Nat /\ askOnline \in BOOLEAN
    BY <1>1, Standing
  <2> QED
    BY <2>1
<1>8. ASSUME RoomStands'
      PROVE ClientStands'
  <2>1. PromptsStand'
    BY <1>1 DEF AsksInv, ClientStands, PromptsStand, PromptsFit
  <2> QED
    BY <1>8, <2>1 DEF ClientStands
<1>9. askOperation \notin Leaves
  BY <1>1 DEF Leaves
<1>10. RoomStands
  BY DEF AsksInv, ClientStands
<1>11. InvitesFit(askOperation, askRoom, askTargets, srvAsks, coming, behind, going)
  BY DEF AsksInv, Agreement, InvitesAgree
<1>12. ASSUME ~askRoom, askTarget' = peer, askWanted' = TRUE, askUp' = askUp
       PROVE  AsksInv'
  <2>1. going' = going
    BY <1>12 DEF going
  <2>2. \A T : Alike(going, going', T)
    BY <2>1, AsksAlike
  <2>3. Typed' /\ ServerKnows'
    <3>1. \A r \in going' : RequestTyped(r, askIds)
      BY <2>1 DEF AsksInv, Typed, going
    <3> QED
      BY <1>1, <1>4, <1>7, <3>1, ServerStill
  <2>4. RoomStands'
    <3>1. askMesh # NoMesh /\ askMesh' # NoMesh
      BY <1>1, NoMeshIsNone
    <3>2. askRoom \in BOOLEAN /\ {askWanted', askRoom', askServerMesh'} \subseteq BOOLEAN
      BY <1>1, <1>10, <1>12 DEF RoomStands
    <3>3. /\ askMesh' = NoMesh \/ askMesh' \in [id : Conversations, joined : BOOLEAN]
          /\ askOperation' \in Operations
          /\ askTargets' \subseteq Friends
      BY <1>1, <1>10 DEF RoomStands
    <3> QED
      BY <1>1, <1>12, <3>1, <3>2, <3>3 DEF RoomStands, inMesh, Leaves
  <2>5. RoomAgrees'
    BY <1>1, <1>5, <2>2, RoomStill DEF AsksInv, Agreement
  <2>6. KnockAgrees'
    BY <1>1, <1>5, <1>6, <1>7, <2>2, KnockStill DEF AsksInv, Agreement
  <2>7. PromptAgrees'
    BY <1>1, <1>5, <1>6, <2>2, PromptStill DEF AsksInv, Agreement
  <2>8. InviteAgrees'
    BY <1>1, <1>5, <1>6, <2>2, InviteStill DEF AsksInv, Agreement
  <2>9. InvitesAgree'
    <3>1. InvitesFit(askOperation', askRoom, askTargets', srvAsks, coming, behind, going)
      BY <1>1, <1>9, <1>11, InvitesMore
    <3> QED
      BY <1>1, <1>4, <2>1, <3>1 DEF InvitesAgree
  <2>10. WantAgrees'
    BY <1>1, <1>3, <1>4, <1>12 DEF WantAgrees, WantFits
  <2>11. OrderedUp(askUp') /\ OrderedDown(askDown')
    BY <1>1, <1>12 DEF AsksInv
  <2> QED
    BY <1>8, <2>3, <2>4, <2>5, <2>6, <2>7, <2>8, <2>9, <2>10, <2>11 DEF AsksInv, Agreement
<1>13. ASSUME askRoom, Submits(Submission(peer)), UNCHANGED <<askTarget, askWanted>>
       PROVE  AsksInv'
  <2>1. PICK x : /\ Submits(<<x>>)
                 /\ \/ Accepts(peer)' /\ x.type = "knock.respond" /\ x.id = askInKnock'.id /\ x.accept = TRUE
                    \/ ~Accepts(peer)' /\ x.type = "contact.invite" /\ x.peer = peer
    BY <1>13, SubmissionIs
  <2>2. /\ \A r \in going : r.type = "contact.invite" => r.peer \in askTargets
        /\ \A k \in srvAsks : k.kind = "contact" /\ k.mine => k.peer \in askTargets
    BY <1>9, <1>11 DEF InvitesFit
  <2>3. x.type = "knock.respond" => x.id \in 1 .. askIds /\ askInKnock # NoValue /\ askInKnock.accepting /\ askInKnock.id = x.id
    BY <1>1, <2>1, Shown DEF Accepts
  <2>4. /\ OrderedUp(askUp') /\ going' = going \cup {x}
        /\ \A r \in going' : RequestTyped(r, askIds)
        /\ \A S : x.type \notin S => Alike(going, going', S)
    <3>1. RequestTyped(x, askIds)
      BY <2>1, <2>3 DEF RequestTyped
    <3>2. \A r \in going : MayBeAskedBefore(r, x)
      BY <1>1, <1>3, <2>1, <2>2 DEF MayBeAskedBefore, RoomRequests
    <3> QED
      BY <2>1, <3>1, <3>2, Asking
  <2>5. Typed' /\ ServerKnows'
    BY <1>1, <1>4, <1>7, <2>4, ServerStill
  <2>6. RoomStands'
    BY <1>1, <1>10, <1>13 DEF RoomStands, inMesh, NoMesh
  <2>7. RoomAgrees'
    BY <1>1, <1>5, <2>1, <2>4, RoomStill DEF AsksInv, Agreement, RoomRequests
  <2>8. KnockAgrees'
    BY <1>1, <1>5, <1>6, <1>7, <2>1, <2>4, KnockStill DEF AsksInv, Agreement
  <2>9. InviteAgrees'
    BY <1>1, <1>5, <1>6, <2>1, <2>4, InviteStill DEF AsksInv, Agreement
  <2>10. PromptAgrees'
    <3>1. CASE x.type = "contact.invite"
      BY <1>1, <1>5, <1>6, <2>4, <3>1, PromptStill DEF AsksInv, Agreement, PromptRequests
    <3>2. CASE x.type = "knock.respond"
      <4>1. PromptFits(askInKnock, srvAsks, coming, going)
        BY DEF AsksInv, Agreement, PromptAgrees
      <4>2. PromptFits(askInKnock, srvAsks, coming, going')
        BY <2>3, <2>4, <3>2, <4>1, PromptAnswered
      <4> QED
        BY <1>1, <1>4, <4>2 DEF PromptAgrees
    <3> QED
      BY <2>1, <3>1, <3>2
  <2>11. InvitesAgree'
    <3>1. CASE x.type = "knock.respond"
      <4>1. InvitesFit(askOperation, askRoom, askTargets', srvAsks, coming, behind, going)
        BY <1>1, <1>9, <1>11, InvitesMore
      <4>2. Alike(going, going', {"contact.invite"})
        BY <2>4, <3>1
      <4>3. InvitesFit(askOperation, askRoom, askTargets', srvAsks', coming', behind', going')
        BY <1>4, <1>5, <1>6, <4>1, <4>2, InvitesKept
      <4> QED
        BY <1>1, <4>3 DEF InvitesAgree
    <3>2. CASE x.type = "contact.invite"
      <4>1. x.peer = peer /\ ~Over(coming, x.peer) /\ x.peer \in askTargets' /\ askTargets \subseteq askTargets'
        BY <1>1, <1>3, <2>1, <3>2 DEF Over
      <4>2. \A y \in coming : y.type # "room.left"
        BY <1>3 DEF RoomReplies
      <4>3. \A k \in srvAsks : ~(k.kind = "contact" /\ k.mine /\ k.peer = x.peer)
        BY <1>1, <2>2, <4>1
      <4>4. InvitesFit(askOperation, askRoom, askTargets', srvAsks, coming, behind, going')
        BY <1>9, <1>11, <1>13, <2>4, <3>2, <4>1, <4>2, <4>3, InviteSent
      <4> QED
        BY <1>1, <1>4, <4>4 DEF InvitesAgree
    <3> QED
      BY <2>1, <3>1, <3>2
  <2>12. WantAgrees'
    BY <1>1, <1>13 DEF WantAgrees, WantFits
  <2>13. OrderedDown(askDown')
    BY <1>1 DEF AsksInv
  <2> QED
    BY <1>8, <2>4, <2>5, <2>6, <2>7, <2>8, <2>9, <2>10, <2>11, <2>12, <2>13 DEF AsksInv, Agreement
<1> QED
  BY <1>12, <1>13 DEF inviteAcquaintance, AskWhenReady

\* What a step of the client alone leaves as it is.
LEMMA ServerAway ==
  ASSUME AsksInv, UNCHANGED <<srvAsks, askIds>>
  PROVE  /\ \A kind, mine : Same(srvAsks, srvAsks', kind, mine)
         /\ askIds \in Nat /\ askIds' \in Nat /\ askIds <= askIds'
<1>1. askIds' = askIds /\ askIds \in Nat
  BY Standing
<1> QED
  BY <1>1, AsksAlike

\* A step that neither reads nor adds a message leaves what is coming as it is.
LEMMA NothingRead ==
  ASSUME AsksInv, askDown' = askDown
  PROVE  /\ coming' = coming /\ behind' = behind /\ OrderedDown(askDown')
         /\ \A T : Alike(coming, coming', T)
  BY AsksAlike DEF coming, behind, AsksInv

\* The answer to the prompt of a knock.
LEMMA RespondToKnockKeeps ==
  ASSUME AsksInv, NEW accept, respondToEntryRequest(accept)
  PROVE  AsksInv'
<1>1. /\ userActs /\ askInKnock # NoValue /\ ~askInKnock.accepting /\ askOnline
      /\ UNCHANGED <<askOnline, askRegistered, askPublished, askMesh, askKnock, askInvite, askDown,
                     srvProfile, srvRoom, srvAsks, askIds, askMade>>
  BY DEF respondToEntryRequest, srvVars, boundVars
<1>2. /\ coming' = coming /\ behind' = behind /\ OrderedDown(askDown')
      /\ \A T : Alike(coming, coming', T)
  BY <1>1, NothingRead
<1>3. /\ \A kind, mine : Same(srvAsks, srvAsks', kind, mine)
      /\ askIds \in Nat /\ askIds' \in Nat /\ askIds <= askIds'
  BY <1>1, ServerAway
<1>4. /\ askInKnock \in KnockPrompts /\ askInKnock.id \in 1 .. askIds
      /\ askMesh.joined /\ askMesh.id = askInKnock.mesh /\ askMesh # NoMesh /\ askInvite = NoValue
  BY <1>1, Shown
<1>5. PromptFits(askInKnock, srvAsks, coming, going)
  BY DEF AsksInv, Agreement, PromptAgrees
<1>6. RoomStands /\ PromptsFit
  BY DEF AsksInv, ClientStands, PromptsStand
<1>7. WantFits(askWanted, askTarget, askTargets, askInKnock, coming, going)
  BY DEF AsksInv, Agreement, WantAgrees
<1>8. askMade \in Nat /\ askOnline \in BOOLEAN
  BY Standing
<1>9. ASSUME Submits(<<Respond(askInKnock.id, "knock", FALSE)>>), askInKnock' = NoValue, UNCHANGED askRoomVars
      PROVE  AsksInv'
  <2> DEFINE x == Respond(askInKnock.id, "knock", FALSE)
  <2>1. x.type = "knock.respond" /\ x.id = askInKnock.id /\ x.accept = FALSE
    BY DEF Respond, Responds, By
  <2>2. Submits(<<x>>)
    BY <1>9
  <2> HIDE DEF x
  <2>3. /\ OrderedUp(askUp') /\ going' = going \cup {x}
        /\ \A r \in going' : RequestTyped(r, askIds)
        /\ \A S : x.type \notin S => Alike(going, going', S)
    <3>1. RequestTyped(x, askIds) /\ \A r \in going : MayBeAskedBefore(r, x)
      BY <1>4, <2>1 DEF RequestTyped, MayBeAskedBefore, RoomRequests
    <3> QED
      BY <2>2, <3>1, Asking
  <2>4. Typed' /\ ServerKnows'
    BY <1>1, <1>2, <1>8, <2>3, ServerStill
  <2>5. ClientStands'
    <3>1. RoomStands'
      BY <1>1, <1>6, <1>9 DEF RoomStands, askRoomVars, inMesh
    <3>2. PromptsStand'
      BY <1>1, <1>4, <1>9 DEF PromptsStand, PromptsFit
    <3> QED
      BY <3>1, <3>2 DEF ClientStands
  <2>6. RoomAgrees'
    BY <1>1, <1>2, <1>9, <2>1, <2>3, RoomStill DEF AsksInv, Agreement, RoomRequests, askRoomVars
  <2>7. KnockAgrees'
    BY <1>1, <1>2, <1>3, <2>1, <2>3, KnockStill DEF AsksInv, Agreement
  <2>8. PromptAgrees'
    <3>1. PromptFits(NoValue, srvAsks, coming, going')
      BY <1>1, <1>5, <2>1, <2>3, PromptAnswered
    <3> QED
      BY <1>1, <1>2, <1>9, <3>1 DEF PromptAgrees
  <2>9. InviteAgrees'
    BY <1>1, <1>2, <1>3, <2>1, <2>3, InviteStill DEF AsksInv, Agreement
  <2>10. InvitesAgree'
    BY <1>1, <1>2, <1>3, <1>9, <2>1, <2>3, InvitesStill DEF AsksInv, Agreement, askRoomVars
  <2>11. WantAgrees'
    BY <1>1, <1>2, <1>7, <1>9 DEF WantAgrees, WantFits, askRoomVars
  <2> QED
    BY <1>2, <2>3, <2>4, <2>5, <2>6, <2>7, <2>8, <2>9, <2>10, <2>11 DEF AsksInv, Agreement
<1>10. ASSUME ~signalingBusy, askInKnock' = [askInKnock EXCEPT !.accepting = TRUE], AskWhenReady(askInKnock.from),
              UNCHANGED <<askTargets, askRoom, askOperation>>
       PROVE  AsksInv'
  <2>1. /\ askInKnock' # NoValue /\ askInKnock' \in KnockPrompts /\ askInKnock'.accepting
        /\ askInKnock'.id = askInKnock.id /\ askInKnock'.from = askInKnock.from /\ askInKnock'.mesh = askInKnock.mesh
    BY <1>4, <1>10, AsksAssumption DEF KnockPrompts
  <2>2. askOperation = "" /\ ~askWanted /\ askServerMesh' = TRUE /\ askOperation \notin Leaves
    BY <1>10 DEF AskWhenReady, signalingBusy, Leaves
  <2>3. /\ srvRoom = askRoom
        /\ \A r \in going : r.type \notin RoomRequests
        /\ \A y \in coming : y.type \notin RoomReplies
        /\ \A y \in coming : y.type \in Ends => askRoom /\ y.peer \in askTargets
    BY <1>1, <2>2, UserActs, NothingAbout, NothingOver
  <2>4. PromptsStand'
    <3>1. askInKnock'.id \in 1 .. askIds'
      BY <1>1, <1>4, <2>1
    <3>2. PromptsFit'
      BY <1>1, <1>4, <1>6, <2>1 DEF PromptsFit
    <3> QED
      BY <1>1, <1>4, <2>1, <3>1, <3>2 DEF PromptsStand
  <2>5. PromptFits(askInKnock', srvAsks, coming, going)
    BY <1>1, <1>5, <2>1, PromptTaken
  <2>6. ASSUME ~askRoom, askTarget' = askInKnock.from, askWanted' = TRUE, askUp' = askUp
        PROVE  AsksInv'
    <3>1. going' = going
      BY <2>6 DEF going
    <3>2. \A T : Alike(going, going', T)
      BY <3>1, AsksAlike
    <3>3. Typed' /\ ServerKnows'
      <4>1. \A r \in going' : RequestTyped(r, askIds)
        BY <3>1 DEF AsksInv, Typed, going
      <4> QED
        BY <1>1, <1>2, <1>8, <4>1, ServerStill
    <3>4. RoomStands'
      <4>1. askRoom \in BOOLEAN /\ {askWanted', askRoom', askServerMesh'} \subseteq BOOLEAN
        BY <1>6, <1>10, <2>2, <2>6 DEF RoomStands
      <4>2. /\ askMesh' = NoMesh \/ askMesh' \in [id : Conversations, joined : BOOLEAN]
            /\ askOperation' \in Operations
            /\ askTargets' \subseteq Friends
        BY <1>1, <1>6, <1>10 DEF RoomStands
      <4>3. askTarget' \in Friends
        BY <1>4, <2>6 DEF KnockPrompts
      <4> QED
        BY <1>1, <1>4, <1>10, <2>2, <2>6, <4>1, <4>2, <4>3 DEF RoomStands, inMesh, Leaves
    <3>5. RoomAgrees'
      BY <1>1, <1>2, <1>10, <3>2, RoomStill DEF AsksInv, Agreement
    <3>6. KnockAgrees'
      BY <1>1, <1>2, <1>3, <3>2, KnockStill DEF AsksInv, Agreement
    <3>7. PromptAgrees'
      BY <1>1, <1>2, <2>5, <3>1 DEF PromptAgrees
    <3>8. InviteAgrees'
      BY <1>1, <1>2, <1>3, <3>2, InviteStill DEF AsksInv, Agreement
    <3>9. InvitesAgree'
      BY <1>1, <1>2, <1>3, <1>10, <3>2, InvitesStill DEF AsksInv, Agreement
    <3>10. WantAgrees'
      <4>1. ~Sent(going, "knock.respond", askInKnock.id) /\ ~Told(coming, "knock.failed", askInKnock.id)
        BY <1>1, <1>5 DEF PromptFits
      <4> QED
        BY <1>2, <2>1, <2>3, <2>6, <3>1, <4>1 DEF WantAgrees, WantFits
    <3>11. OrderedUp(askUp')
      BY <2>6 DEF AsksInv
    <3> QED
      BY <1>2, <2>4, <3>3, <3>4, <3>5, <3>6, <3>7, <3>8, <3>9, <3>10, <3>11 DEF AsksInv, Agreement, ClientStands
  <2>7. ASSUME askRoom, Submits(Submission(askInKnock.from)), UNCHANGED <<askTarget, askWanted>>
        PROVE  AsksInv'
    <3>1. Accepts(askInKnock.from)'
      BY <2>1 DEF Accepts
    <3>2. PICK x : Submits(<<x>>) /\ x.type = "knock.respond" /\ x.id = askInKnock'.id /\ x.accept = TRUE
      <4>1. Submission(askInKnock.from) = <<Respond(askInKnock'.id, "knock", TRUE)>>
        BY <3>1 DEF Submission
      <4> DEFINE x == Respond(askInKnock'.id, "knock", TRUE)
      <4>2. x.type = "knock.respond" /\ x.id = askInKnock'.id /\ x.accept = TRUE
        BY DEF Respond, Responds, By
      <4>3. Submits(<<x>>)
        BY <2>7, <4>1
      <4> HIDE DEF x
      <4> QED
        BY <4>2, <4>3
    <3>3. /\ OrderedUp(askUp') /\ going' = going \cup {x}
          /\ \A r \in going' : RequestTyped(r, askIds)
          /\ \A S : x.type \notin S => Alike(going, going', S)
      <4>1. RequestTyped(x, askIds) /\ \A r \in going : MayBeAskedBefore(r, x)
        BY <1>4, <2>1, <3>2 DEF RequestTyped, MayBeAskedBefore, RoomRequests
      <4> QED
        BY <3>2, <4>1, Asking
    <3>4. Typed' /\ ServerKnows'
      BY <1>1, <1>2, <1>8, <3>3, ServerStill
    <3>5. RoomStands'
      <4>1. askRoom \in BOOLEAN /\ {askWanted', askRoom', askServerMesh'} \subseteq BOOLEAN
        BY <1>6, <1>10, <2>2, <2>7 DEF RoomStands
      <4>2. /\ askMesh' = NoMesh \/ askMesh' \in [id : Conversations, joined : BOOLEAN]
            /\ askOperation' \in Operations
            /\ askTargets' \subseteq Friends
        BY <1>1, <1>6, <1>10 DEF RoomStands
      <4> QED
        BY <1>1, <1>4, <1>10, <2>2, <2>7, <4>1, <4>2 DEF RoomStands, inMesh, Leaves
    <3>6. RoomAgrees'
      BY <1>1, <1>2, <1>10, <3>2, <3>3, RoomStill DEF AsksInv, Agreement, RoomRequests
    <3>7. KnockAgrees'
      BY <1>1, <1>2, <1>3, <3>2, <3>3, KnockStill DEF AsksInv, Agreement
    <3>8. PromptAgrees'
      <4>1. PromptFits(askInKnock', srvAsks, coming, going')
        BY <2>1, <2>5, <3>2, <3>3, PromptAnswered
      <4> QED
        BY <1>1, <1>2, <4>1 DEF PromptAgrees
    <3>9. InviteAgrees'
      BY <1>1, <1>2, <1>3, <3>2, <3>3, InviteStill DEF AsksInv, Agreement
    <3>10. InvitesAgree'
      BY <1>1, <1>2, <1>3, <1>10, <3>2, <3>3, InvitesStill DEF AsksInv, Agreement
    <3>11. WantAgrees'
      BY <2>2, <2>7 DEF WantAgrees, WantFits
    <3> QED
      BY <1>2, <2>4, <3>3, <3>4, <3>5, <3>6, <3>7, <3>8, <3>9, <3>10, <3>11 DEF AsksInv, Agreement, ClientStands
  <2> QED
    BY <1>10, <2>6, <2>7 DEF AskWhenReady
<1> QED
  BY <1>9, <1>10 DEF respondToEntryRequest

\* requestConversationEntry: the only knock of the user is on its way.
LEMMA RequestEntryKeeps ==
  ASSUME AsksInv, NEW peer \in Friends, requestConversationEntry(peer)
  PROVE  AsksInv'
<1> DEFINE x == [type |-> "knock.request", peer |-> peer]
<1>1. /\ askKnock = NoKnock /\ askKnock' = [peer |-> peer, id |-> 0] /\ Submits(<<x>>)
      /\ UNCHANGED <<askOnline, askRegistered, askPublished, askMesh, askInKnock, askInvite, askRoomVars,
                     askDown, srvProfile, srvRoom, srvAsks, askIds, askMade>>
  BY DEF requestConversationEntry, srvVars, boundVars
<1>2. x.type = "knock.request" /\ x.peer = peer
  OBVIOUS
<1> HIDE DEF x
<1>3. /\ coming' = coming /\ behind' = behind /\ OrderedDown(askDown')
      /\ \A T : Alike(coming, coming', T)
  BY <1>1, NothingRead
<1>4. /\ \A kind, mine : Same(srvAsks, srvAsks', kind, mine)
      /\ askIds \in Nat /\ askIds' \in Nat /\ askIds <= askIds'
  BY <1>1, ServerAway
<1>5. KnockFits(NoKnock, srvAsks, askIds, coming, going)
  BY <1>1 DEF AsksInv, Agreement, KnockAgrees
<1>6. /\ \A r \in going : r.type # "knock.request"
      /\ \A y \in coming : y.type \notin Replies
      /\ \A k \in srvAsks : ~(k.kind = "knock" /\ k.mine)
  <2>1. ASSUME NEW r \in going, r.type = "knock.request" PROVE FALSE
    <3>1. NoKnock.peer = r.peer
      BY <1>5, <2>1 DEF KnockFits
    <3>2. r.peer \in Friends
      BY <2>1 DEF AsksInv, Typed, going, RequestTyped
    <3> QED
      BY <3>1, <3>2, NoMeshIsNone DEF Conversations
  <2> QED
    BY <1>5, <2>1 DEF KnockFits
<1>7. /\ OrderedUp(askUp') /\ going' = going \cup {x}
      /\ \A r \in going' : RequestTyped(r, askIds)
      /\ \A S : x.type \notin S => Alike(going, going', S)
  <2>1. RequestTyped(x, askIds) /\ \A r \in going : MayBeAskedBefore(r, x)
    BY <1>2, <1>6 DEF RequestTyped, MayBeAskedBefore, RoomRequests
  <2> QED
    BY <1>1, <2>1, Asking
<1>8. Typed' /\ ServerKnows'
  BY <1>1, <1>3, <1>7, ServerStill, Standing
<1>9. ClientStands'
  BY <1>1, <1>4, ClientStill DEF AsksInv, askRoomVars
<1>10. RoomAgrees'
  BY <1>1, <1>2, <1>3, <1>7, RoomStill DEF AsksInv, Agreement, RoomRequests, askRoomVars
<1>11. KnockAgrees'
  <2>1. /\ askKnock'.id = 0 /\ askKnock' \in [peer : Friends, id : 0 .. askIds]
        /\ \A r \in going' : r.type = "knock.request" => askKnock' = [peer |-> r.peer, id |-> 0]
    BY <1>1, <1>2, <1>4, <1>6, <1>7
  <2>3. \E r \in going' : r.type = "knock.request"
    BY <1>2, <1>7
  <2>2. KnockFits(askKnock', srvAsks, askIds, coming, going')
    BY <1>6, <2>1, <2>3 DEF KnockFits, Replies
  <2> QED
    BY <1>1, <1>3, <2>2 DEF KnockAgrees
<1>12. PromptAgrees'
  BY <1>1, <1>2, <1>3, <1>4, <1>7, PromptStill DEF AsksInv, Agreement, PromptRequests
<1>13. InviteAgrees'
  BY <1>1, <1>2, <1>3, <1>4, <1>7, InviteStill DEF AsksInv, Agreement
<1>14. InvitesAgree'
  BY <1>1, <1>2, <1>3, <1>4, <1>7, InvitesStill DEF AsksInv, Agreement, askRoomVars
<1>15. WantAgrees'
  BY <1>1, <1>2, <1>3, <1>7, WantStill DEF AsksInv, Agreement, askRoomVars
<1> QED
  BY <1>3, <1>7, <1>8, <1>9, <1>10, <1>11, <1>12, <1>13, <1>14, <1>15 DEF AsksInv, Agreement

\* respondToOnlineInvitation keeps the agreement, whatever the user answers.
LEMMA RespondToInviteKeeps ==
  ASSUME AsksInv, NEW accept \in BOOLEAN, respondToOnlineInvitation(accept)
  PROVE  AsksInv'
<1> DEFINE accepted == accept /\ ~inMesh /\ ~signalingBusy
           x == Respond(askInvite.id, "contact", accepted)
<1>1. /\ askInvite # NoValue /\ Submits(<<x>>)
      /\ askInvite' = (IF accepted THEN [askInvite EXCEPT !.accepting = TRUE] ELSE NoValue)
      /\ UNCHANGED <<askOnline, askRegistered, askPublished, askMesh, askKnock, askInKnock, askRoomVars,
                     askDown, srvProfile, srvRoom, srvAsks, askIds, askMade>>
  BY DEF respondToOnlineInvitation, srvVars, boundVars
<1>2. x.type = "contact.respond" /\ x.id = askInvite.id /\ x.accept \in BOOLEAN
  <2>1. x.accept = accepted
    BY DEF Respond
  <2>2. accepted \in BOOLEAN
    OBVIOUS
  <2>3. x.type = "contact.respond" /\ x.id = askInvite.id
    BY DEF Respond, Responds, By
  <2> HIDE DEF x, accepted
  <2> QED
    BY <2>1, <2>2, <2>3
<1> HIDE DEF x, accepted
<1>3. /\ coming' = coming /\ behind' = behind /\ OrderedDown(askDown')
      /\ \A T : Alike(coming, coming', T)
  BY <1>1, NothingRead
<1>4. /\ \A kind, mine : Same(srvAsks, srvAsks', kind, mine)
      /\ askIds \in Nat /\ askIds' \in Nat /\ askIds <= askIds'
  BY <1>1, ServerAway
<1>5. askInvite \in InvitePrompts /\ askInvite.id \in 1 .. askIds /\ askInKnock = NoValue
  BY <1>1, Shown
<1>6. \/ askInvite' = NoValue
      \/ askInvite' # NoValue /\ askInvite' \in InvitePrompts /\ askInvite'.id = askInvite.id /\ askInvite'.from = askInvite.from
  BY <1>1, <1>5, AsksAssumption DEF InvitePrompts
<1>7. /\ OrderedUp(askUp') /\ going' = going \cup {x}
      /\ \A r \in going' : RequestTyped(r, askIds)
      /\ \A S : x.type \notin S => Alike(going, going', S)
  <2>1. RequestTyped(x, askIds) /\ \A r \in going : MayBeAskedBefore(r, x)
    BY <1>2, <1>5 DEF RequestTyped, MayBeAskedBefore, RoomRequests
  <2> QED
    BY <1>1, <2>1, Asking
<1>8. Typed' /\ ServerKnows'
  BY <1>1, <1>3, <1>7, ServerStill, Standing
<1>9. ClientStands'
  <2>1. RoomStands'
    BY <1>1 DEF AsksInv, ClientStands, RoomStands, askRoomVars, inMesh
  <2>2. PromptsStand'
    BY <1>1, <1>5, <1>6 DEF PromptsStand, PromptsFit
  <2> QED
    BY <2>1, <2>2 DEF ClientStands
<1>10. RoomAgrees'
  BY <1>1, <1>2, <1>3, <1>7, RoomStill DEF AsksInv, Agreement, RoomRequests, askRoomVars
<1>11. KnockAgrees'
  BY <1>1, <1>2, <1>3, <1>4, <1>7, KnockStill DEF AsksInv, Agreement
<1>12. PromptAgrees'
  BY <1>1, <1>2, <1>3, <1>4, <1>7, PromptStill DEF AsksInv, Agreement, PromptRequests
<1>13. InviteAgrees'
  <2>1. InviteFits(askInvite, srvAsks, coming, going)
    BY DEF AsksInv, Agreement, InviteAgrees
  <2>2. Sent(going', "contact.respond", askInvite.id)
    BY <1>2, <1>7 DEF Sent
  <2>3. \A n : Sent(going, "contact.respond", n) => Sent(going', "contact.respond", n)
    BY <1>7 DEF Sent
  <2>4. InviteFits(askInvite', srvAsks, coming, going')
    <3>1. ASSUME NEW k \in srvAsks, k.kind = "contact", ~k.mine
          PROVE  /\ \/ \E y \in coming : y.type = "contact.invitation" /\ y.id = k.id /\ y.peer = k.peer
                    \/ Sent(going', "contact.respond", k.id)
                 /\ ~Told(coming, "contact.closed", k.id) /\ ~Told(coming, "contact.failed", k.id)
                 /\ ~Told(coming, "contact.accepted", k.id)
      <4>1. k.id = askInvite.id => Sent(going', "contact.respond", k.id)
        BY <2>2
      <4>2. /\ \/ \E y \in coming : y.type = "contact.invitation" /\ y.id = k.id /\ y.peer = k.peer
               \/ k.id = askInvite.id
               \/ Sent(going, "contact.respond", k.id)
            /\ ~Told(coming, "contact.closed", k.id) /\ ~Told(coming, "contact.failed", k.id)
            /\ ~Told(coming, "contact.accepted", k.id)
        BY <2>1, <3>1 DEF InviteFits
      <4> QED
        BY <2>3, <4>1, <4>2
    <3>2. \/ \E k \in srvAsks : k.kind = "contact" /\ ~k.mine /\ k.id = askInvite.id /\ k.peer = askInvite.from
          \/ Told(coming, "contact.closed", askInvite.id)
      BY <1>1, <2>1 DEF InviteFits
    <3>3. \A y \in coming : y.type = "contact.invitation" =>
           \/ \E k \in srvAsks : k.kind = "contact" /\ ~k.mine /\ k.id = y.id /\ k.peer = y.peer
           \/ Told(coming, "contact.closed", y.id)
      BY <2>1 DEF InviteFits
    <3> QED
      BY <1>6, <3>1, <3>2, <3>3 DEF InviteFits
  <2> QED
    BY <1>1, <1>3, <2>4 DEF InviteAgrees
<1>14. InvitesAgree'
  BY <1>1, <1>2, <1>3, <1>4, <1>7, InvitesStill DEF AsksInv, Agreement, askRoomVars
<1>15. WantAgrees'
  BY <1>1, <1>2, <1>3, <1>7, WantStill DEF AsksInv, Agreement, askRoomVars
<1> QED
  BY <1>3, <1>7, <1>8, <1>9, <1>10, <1>11, <1>12, <1>13, <1>14, <1>15 DEF AsksInv, Agreement

\* What a part of the agreement makes of a message that is read: N has it and M does not.
LEMMA KnockNumbered ==
  ASSUME NEW knock, NEW A, NEW n \in Nat, NEW M, NEW m, NEW Q, NEW new,
         KnockFits(knock, A, n, M \cup {m}, Q), m.type = "knock.requested", m.id \in 1 .. n,
         \A x \in M : x.type \notin Replies, new = [knock EXCEPT !.id = m.id],
         \A k \in A : k.id \in 1 .. n
  PROVE  KnockFits(new, A, n, M, Q)
<1> DEFINE N == M \cup {m}
<1>1. m \in N /\ m.type \in Replies /\ \A x \in N : x \in M \/ x = m
  BY DEF Replies
<1> HIDE DEF N
<1>0. KnockFits(knock, A, n, N, Q)
  BY DEF N
<1>2. knock # NoKnock /\ knock.id = 0 /\ knock \in [peer : Friends, id : 0 .. n]
  BY <1>0, <1>1 DEF KnockFits
<1>3. new.id = m.id /\ new.peer = knock.peer /\ new \in [peer : Friends, id : 0 .. n] /\ new # NoKnock
  BY <1>2 DEF NoKnock
<1>4. \A r \in Q : r.type # "knock.request"
  BY <1>0, <1>1 DEF KnockFits
<1>5. \A i : Told(N, "knock.result", i) => Told(M, "knock.result", i)
  BY <1>1 DEF Told
<1>6. \/ \E k \in A : k.kind = "knock" /\ k.mine /\ k.id = m.id
      \/ Told(M, "knock.result", m.id)
  BY <1>0, <1>1, <1>5 DEF KnockFits
<1>7. ASSUME NEW k \in A, k.kind = "knock", k.mine
      PROVE  new.peer = k.peer /\ new.id = k.id /\ ~Told(M, "knock.result", k.id) /\ ~Told(M, "knock.accepted", k.id)
  <2>1. /\ knock.peer = k.peer
        /\ knock.id = k.id \/ Told(N, "knock.requested", k.id)
        /\ ~Told(N, "knock.result", k.id) /\ ~Told(N, "knock.accepted", k.id)
    BY <1>0, <1>7 DEF KnockFits
  <2>2. \A x \in M : x \in N
    BY DEF N
  <2>3. knock.id # k.id
    BY <1>2, <1>7
  <2>4. m.id = k.id
    BY <1>1, <2>1, <2>3 DEF Told, Replies
  <2> QED
    BY <1>3, <2>1, <2>2, <2>4 DEF Told
<1> QED
  BY <1>3, <1>4, <1>6, <1>7 DEF KnockFits, Replies

\* A knock the server refuses is over.
LEMMA KnockRefused ==
  ASSUME NEW knock, NEW A, NEW n \in Nat, NEW M, NEW m, NEW Q,
         KnockFits(knock, A, n, M \cup {m}, Q), m.type = "knock.refused",
         \A x \in M : x.type \notin Replies
  PROVE  KnockFits(NoKnock, A, n, M, Q)
<1>1. m \in M \cup {m} /\ m.type \in Replies
  BY DEF Replies
<1>2. /\ \A r \in Q : r.type # "knock.request"
      /\ \A k \in A : ~(k.kind = "knock" /\ k.mine)
  BY <1>1 DEF KnockFits
<1> QED
  BY <1>2, NoMeshIsNone DEF KnockFits, Replies

\* A knock that is over: by its acceptance or by its end.
LEMMA KnockOver ==
  ASSUME NEW knock, NEW A, NEW n \in Nat, NEW M, NEW m, NEW Q,
         KnockFits(knock, A, n, M \cup {m}, Q), m.type \in {"knock.accepted", "knock.result"},
         m.id \in 1 .. n, knock.id = m.id
  PROVE  KnockFits(NoKnock, A, n, M, Q)
<1>1. knock.id # 0
  OBVIOUS
<1>2. \A r \in Q : r.type = "knock.request" => knock = [peer |-> r.peer, id |-> 0]
  BY DEF KnockFits
<1>3. \A r \in Q : r.type # "knock.request"
  BY <1>1, <1>2
<1>4. \A x \in M : x.type \notin Replies
  BY <1>1 DEF KnockFits
<1>5. Told(M \cup {m}, "knock.result", m.id) \/ Told(M \cup {m}, "knock.accepted", m.id)
  BY DEF Told
<1>6. \A k \in A : ~(k.kind = "knock" /\ k.mine)
  BY <1>1, <1>5 DEF KnockFits
<1> QED
  BY <1>3, <1>4, <1>6, NoMeshIsNone DEF KnockFits, Replies

\* Word of another knock than the one that is under way.
LEMMA KnockPassed ==
  ASSUME NEW knock, NEW A, NEW n \in Nat, NEW M, NEW m, NEW Q,
         KnockFits(knock, A, n, M \cup {m}, Q),
         \/ m.type = "knock.accepted"
         \/ /\ m.type = "knock.result" /\ knock.id # m.id
            /\ \A x \in M : x.type = "knock.requested" => x.id # m.id
  PROVE  KnockFits(knock, A, n, M, Q)
<1> DEFINE N == M \cup {m}
<1>1. m.type \notin Replies /\ (\A x \in M : x \in N) /\ (\A x \in N : x \in M \/ x = m)
  BY DEF Replies
<1> HIDE DEF N
<1>0. KnockFits(knock, A, n, N, Q)
  BY DEF N
<1>2. \A i : Told(N, "knock.result", i) =>
                Told(M, "knock.result", i) \/ (m.type = "knock.result" /\ i = m.id)
  BY <1>1 DEF Told
<1>3. \A i : Told(N, "knock.requested", i) => Told(M, "knock.requested", i)
  BY <1>1 DEF Told, Replies
<1>4. \A i, t : Told(M, t, i) => Told(N, t, i)
  BY <1>1 DEF Told
<1>5. knock = NoKnock \/ knock \in [peer : Friends, id : 0 .. n]
  BY <1>0 DEF KnockFits
<1>6. \A r \in Q : r.type = "knock.request" =>
       /\ knock = [peer |-> r.peer, id |-> 0]
       /\ \A x \in M : x.type \notin Replies
       /\ \A k \in A : ~(k.kind = "knock" /\ k.mine)
  BY <1>0, <1>1 DEF KnockFits
<1>7. /\ \A x \in M : x.type \in Replies => knock # NoKnock /\ knock.id = 0
      /\ \A x \in M : x.type = "knock.refused" => \A k \in A : ~(k.kind = "knock" /\ k.mine)
  BY <1>0, <1>1 DEF KnockFits
<1>8. \A x \in M : x.type = "knock.requested" =>
       \/ \E k \in A : k.kind = "knock" /\ k.mine /\ k.id = x.id
       \/ Told(M, "knock.result", x.id)
  BY <1>0, <1>1, <1>2 DEF KnockFits
<1>9. knock.id # 0 =>
       \/ \E k \in A : k.kind = "knock" /\ k.mine /\ k.id = knock.id
       \/ Told(M, "knock.result", knock.id)
  BY <1>0, <1>2 DEF KnockFits
<1>10. \A k \in A : k.kind = "knock" /\ k.mine =>
       /\ knock # NoKnock /\ knock.peer = k.peer
       /\ knock.id = k.id \/ (knock.id = 0 /\ Told(M, "knock.requested", k.id))
       /\ ~Told(M, "knock.result", k.id) /\ ~Told(M, "knock.accepted", k.id)
  BY <1>0, <1>3, <1>4 DEF KnockFits
<1>11. knock # NoKnock /\ knock.id = 0 =>
         (\E r \in Q : r.type = "knock.request") \/ (\E x \in M : x.type \in Replies)
  BY <1>0, <1>1 DEF KnockFits
<1> QED
  BY <1>5, <1>6, <1>7, <1>8, <1>9, <1>10, <1>11 DEF KnockFits

\* A knock comes in and is shown, or is declined.
LEMMA KnockShown ==
  ASSUME NEW prompt, NEW A, NEW M, NEW m, NEW Q, NEW new,
         PromptFits(prompt, A, M \cup {m}, Q), m.type = "knock.invitation", prompt = NoValue,
         new # NoValue, new.id = m.id, new.from = m.peer, new.mesh = m.mesh, ~new.accepting,
         \A x \in M : x.type = "knock.invitation" => x.id # m.id
  PROVE  PromptFits(new, A, M, Q)
<1> DEFINE N == M \cup {m}
<1>1. m \in N /\ (\A x \in M : x \in N) /\ (\A x \in N : x \in M \/ x = m)
  OBVIOUS
<1> HIDE DEF N
<1>0. PromptFits(prompt, A, N, Q)
  BY DEF N
<1>2. \A i, t : t # "knock.invitation" /\ Told(N, t, i) => Told(M, t, i)
  BY <1>1 DEF Told
<1>3. \A i, t : Told(M, t, i) => Told(N, t, i)
  BY <1>1 DEF Told
<1>4. \A k \in A : k.kind = "knock" /\ ~k.mine =>
       /\ \/ \E x \in N : x.type = "knock.invitation" /\ x.id = k.id /\ x.peer = k.peer /\ x.mesh = k.mesh
          \/ Sent(Q, "knock.respond", k.id)
          \/ \E r \in Q : r.type = "mesh.leave" /\ r.mesh = k.mesh
       /\ ~Told(N, "knock.closed", k.id) /\ ~Told(N, "knock.failed", k.id)
  BY <1>0 DEF PromptFits
<1>5. \A k \in A : k.kind = "knock" /\ ~k.mine =>
       /\ \/ \E x \in M : x.type = "knock.invitation" /\ x.id = k.id /\ x.peer = k.peer /\ x.mesh = k.mesh
          \/ new.id = k.id /\ new.from = k.peer /\ new.mesh = k.mesh
          \/ Sent(Q, "knock.respond", k.id)
          \/ \E r \in Q : r.type = "mesh.leave" /\ r.mesh = k.mesh
       /\ ~Told(M, "knock.closed", k.id) /\ ~Told(M, "knock.failed", k.id)
  BY <1>1, <1>3, <1>4
<1>6. \A x \in N : x.type = "knock.invitation" =>
       /\ \/ \E k \in A : k.kind = "knock" /\ ~k.mine /\ k.id = x.id /\ k.peer = x.peer
          \/ Told(M, "knock.closed", x.id)
       /\ ~Sent(Q, "knock.respond", x.id) /\ ~Told(M, "knock.failed", x.id)
  BY <1>0, <1>2, <1>3 DEF PromptFits
<1>7. /\ \/ \E k \in A : k.kind = "knock" /\ ~k.mine /\ k.id = new.id /\ k.peer = new.from
         \/ Told(M, "knock.closed", new.id)
      /\ ~Sent(Q, "knock.respond", new.id) /\ ~Told(M, "knock.failed", new.id)
  BY <1>1, <1>6
<1> QED
  BY <1>1, <1>5, <1>6, <1>7 DEF PromptFits

\* A knock that comes to a busy user is answered at once.
LEMMA KnockDeclined ==
  ASSUME NEW prompt, NEW A, NEW M, NEW m, NEW Q, NEW R, NEW r,
         PromptFits(prompt, A, M \cup {m}, Q), m.type = "knock.invitation",
         R = Q \cup {r}, r.type = "knock.respond", r.id = m.id,
         \A x \in M : x.type = "knock.invitation" => x.id # m.id
  PROVE  PromptFits(prompt, A, M, R) /\ (prompt # NoValue => prompt.id # m.id)
<1> DEFINE N == M \cup {m}
<1>1. m \in N /\ (\A x \in M : x \in N) /\ (\A x \in N : x \in M \/ x = m)
  OBVIOUS
<1> HIDE DEF N
<1>0. PromptFits(prompt, A, N, Q)
  BY DEF N
<1>2. \A i, t : t # "knock.invitation" /\ Told(N, t, i) => Told(M, t, i)
  BY <1>1 DEF Told
<1>3. \A i, t : Told(M, t, i) => Told(N, t, i)
  BY <1>1 DEF Told
<1>4. \A i : Sent(R, "knock.respond", i) <=> (Sent(Q, "knock.respond", i) \/ i = m.id)
  BY DEF Sent
<1>5. prompt # NoValue => prompt.id # m.id
  BY <1>0, <1>1 DEF PromptFits
<1>6. ASSUME NEW k \in A, k.kind = "knock", ~k.mine
      PROVE
       /\ \/ \E x \in M : x.type = "knock.invitation" /\ x.id = k.id /\ x.peer = k.peer /\ x.mesh = k.mesh
          \/ prompt # NoValue /\ prompt.id = k.id /\ prompt.from = k.peer /\ prompt.mesh = k.mesh
          \/ Sent(R, "knock.respond", k.id)
          \/ \E q \in R : q.type = "mesh.leave" /\ q.mesh = k.mesh
       /\ ~Told(M, "knock.closed", k.id) /\ ~Told(M, "knock.failed", k.id)
  <2>1. /\ \/ \E x \in N : x.type = "knock.invitation" /\ x.id = k.id /\ x.peer = k.peer /\ x.mesh = k.mesh
           \/ prompt # NoValue /\ prompt.id = k.id /\ prompt.from = k.peer /\ prompt.mesh = k.mesh
           \/ Sent(Q, "knock.respond", k.id)
           \/ \E q \in Q : q.type = "mesh.leave" /\ q.mesh = k.mesh
        /\ ~Told(N, "knock.closed", k.id) /\ ~Told(N, "knock.failed", k.id)
    BY <1>0, <1>6 DEF PromptFits
  <2> QED
    BY <1>1, <1>3, <1>4, <2>1
<1>7. prompt # NoValue =>
       /\ \/ \E k \in A : k.kind = "knock" /\ ~k.mine /\ k.id = prompt.id /\ k.peer = prompt.from
          \/ Told(M, "knock.closed", prompt.id)
       /\ ~prompt.accepting =>
            ~Sent(R, "knock.respond", prompt.id) /\ ~Told(M, "knock.failed", prompt.id)
  BY <1>0, <1>2, <1>3, <1>4, <1>5 DEF PromptFits
<1>8. \A x \in M : x.type = "knock.invitation" =>
       /\ \/ \E k \in A : k.kind = "knock" /\ ~k.mine /\ k.id = x.id /\ k.peer = x.peer
          \/ Told(M, "knock.closed", x.id)
       /\ ~Sent(R, "knock.respond", x.id) /\ ~Told(M, "knock.failed", x.id)
       /\ prompt # NoValue => prompt.id # x.id
  BY <1>0, <1>1, <1>2, <1>3, <1>4 DEF PromptFits
<1> QED
  BY <1>5, <1>6, <1>7, <1>8 DEF PromptFits

\* Word that a knock is over.
LEMMA KnockClosed ==
  ASSUME NEW prompt, NEW A, NEW M, NEW m, NEW Q, NEW new,
         PromptFits(prompt, A, M \cup {m}, Q), m.type \in {"knock.closed", "knock.failed"},
         \/ new = NoValue /\ prompt # NoValue /\ prompt.id = m.id
         \/ new = prompt /\ (prompt = NoValue \/ prompt.id # m.id),
         m.type = "knock.closed" => \A x \in M : x.type = "knock.invitation" => x.id # m.id
  PROVE  PromptFits(new, A, M, Q)
<1> DEFINE N == M \cup {m}
<1>1. m \in N /\ m.type # "knock.invitation" /\ (\A x \in M : x \in N) /\ (\A x \in N : x \in M \/ x = m)
  OBVIOUS
<1> HIDE DEF N
<1>0. PromptFits(prompt, A, N, Q)
  BY DEF N
<1>2. \A i : Told(N, "knock.closed", i) => Told(M, "knock.closed", i) \/ (m.type = "knock.closed" /\ i = m.id)
  BY <1>1 DEF Told
<1>3. \A i, t : Told(M, t, i) => Told(N, t, i)
  BY <1>1 DEF Told
<1>4. Told(N, m.type, m.id)
  BY <1>1 DEF Told
<1>5. ASSUME NEW k \in A, k.kind = "knock", ~k.mine
      PROVE
       /\ \/ \E x \in M : x.type = "knock.invitation" /\ x.id = k.id /\ x.peer = k.peer /\ x.mesh = k.mesh
          \/ new # NoValue /\ new.id = k.id /\ new.from = k.peer /\ new.mesh = k.mesh
          \/ Sent(Q, "knock.respond", k.id)
          \/ \E q \in Q : q.type = "mesh.leave" /\ q.mesh = k.mesh
       /\ ~Told(M, "knock.closed", k.id) /\ ~Told(M, "knock.failed", k.id)
  <2>1. /\ \/ \E x \in N : x.type = "knock.invitation" /\ x.id = k.id /\ x.peer = k.peer /\ x.mesh = k.mesh
           \/ prompt # NoValue /\ prompt.id = k.id /\ prompt.from = k.peer /\ prompt.mesh = k.mesh
           \/ Sent(Q, "knock.respond", k.id)
           \/ \E q \in Q : q.type = "mesh.leave" /\ q.mesh = k.mesh
        /\ ~Told(N, "knock.closed", k.id) /\ ~Told(N, "knock.failed", k.id)
    BY <1>0, <1>5 DEF PromptFits
  <2>2. k.id # m.id
    BY <1>4, <2>1
  <2> QED
    BY <1>1, <1>3, <2>1, <2>2
<1>6. new # NoValue =>
       /\ \/ \E k \in A : k.kind = "knock" /\ ~k.mine /\ k.id = new.id /\ k.peer = new.from
          \/ Told(M, "knock.closed", new.id)
       /\ ~new.accepting =>
            ~Sent(Q, "knock.respond", new.id) /\ ~Told(M, "knock.failed", new.id)
  BY <1>0, <1>2, <1>3 DEF PromptFits
<1>7. \A x \in M : x.type = "knock.invitation" =>
       /\ \/ \E k \in A : k.kind = "knock" /\ ~k.mine /\ k.id = x.id /\ k.peer = x.peer
          \/ Told(M, "knock.closed", x.id)
       /\ ~Sent(Q, "knock.respond", x.id) /\ ~Told(M, "knock.failed", x.id)
       /\ new # NoValue => new.id # x.id
  BY <1>0, <1>1, <1>2, <1>3 DEF PromptFits
<1> QED
  BY <1>5, <1>6, <1>7 DEF PromptFits

\* An invitation comes in and is shown, or is declined.
LEMMA InviteShown ==
  ASSUME NEW invite, NEW A, NEW M, NEW m, NEW Q, NEW R, NEW new,
         InviteFits(invite, A, M \cup {m}, Q), m.type = "contact.invitation", Q \subseteq R,
         \/ invite = NoValue /\ new # NoValue /\ new.id = m.id /\ new.from = m.peer
         \/ new = invite /\ Sent(R, "contact.respond", m.id)
  PROVE  InviteFits(new, A, M, R)
<1> DEFINE N == M \cup {m}
<1>1. m \in N /\ (\A x \in M : x \in N) /\ (\A x \in N : x \in M \/ x = m)
  OBVIOUS
<1> HIDE DEF N
<1>0. InviteFits(invite, A, N, Q)
  BY DEF N
<1>2. \A i, t : t # "contact.invitation" /\ Told(N, t, i) => Told(M, t, i)
  BY <1>1 DEF Told
<1>3. \A i, t : Told(M, t, i) => Told(N, t, i)
  BY <1>1 DEF Told
<1>4. \A i : Sent(Q, "contact.respond", i) => Sent(R, "contact.respond", i)
  BY DEF Sent
<1>5. ASSUME NEW k \in A, k.kind = "contact", ~k.mine
      PROVE
       /\ \/ \E x \in M : x.type = "contact.invitation" /\ x.id = k.id /\ x.peer = k.peer
          \/ new # NoValue /\ new.id = k.id /\ new.from = k.peer
          \/ Sent(R, "contact.respond", k.id)
       /\ ~Told(M, "contact.closed", k.id) /\ ~Told(M, "contact.failed", k.id)
       /\ ~Told(M, "contact.accepted", k.id)
  <2>1. /\ \/ \E x \in N : x.type = "contact.invitation" /\ x.id = k.id /\ x.peer = k.peer
           \/ invite # NoValue /\ invite.id = k.id /\ invite.from = k.peer
           \/ Sent(Q, "contact.respond", k.id)
        /\ ~Told(N, "contact.closed", k.id) /\ ~Told(N, "contact.failed", k.id)
        /\ ~Told(N, "contact.accepted", k.id)
    BY <1>0, <1>5 DEF InviteFits
  <2> QED
    BY <1>1, <1>3, <1>4, <2>1
<1>6. \A x \in N : x.type = "contact.invitation" =>
       \/ \E k \in A : k.kind = "contact" /\ ~k.mine /\ k.id = x.id /\ k.peer = x.peer
       \/ Told(M, "contact.closed", x.id)
  BY <1>0, <1>2 DEF InviteFits
<1>7. new # NoValue =>
       \/ \E k \in A : k.kind = "contact" /\ ~k.mine /\ k.id = new.id /\ k.peer = new.from
       \/ Told(M, "contact.closed", new.id)
  BY <1>0, <1>1, <1>2, <1>6 DEF InviteFits
<1> QED
  BY <1>1, <1>5, <1>6, <1>7 DEF InviteFits

\* Word that an invitation is over, or has been accepted.
LEMMA InviteOver ==
  ASSUME NEW invite, NEW A, NEW M, NEW m, NEW Q, NEW new,
         InviteFits(invite, A, M \cup {m}, Q), m.type \in {"contact.closed", "contact.failed", "contact.accepted"},
         \/ new = NoValue /\ invite # NoValue /\ invite.id = m.id
         \/ new = invite /\ (invite = NoValue \/ invite.id # m.id \/ m.type = "contact.accepted"),
         m.type = "contact.closed" => \A x \in M : x.type = "contact.invitation" => x.id # m.id
  PROVE  InviteFits(new, A, M, Q)
<1> DEFINE N == M \cup {m}
<1>1. m \in N /\ m.type # "contact.invitation" /\ (\A x \in M : x \in N) /\ (\A x \in N : x \in M \/ x = m)
  OBVIOUS
<1> HIDE DEF N
<1>0. InviteFits(invite, A, N, Q)
  BY DEF N
<1>2. \A i : Told(N, "contact.closed", i) => Told(M, "contact.closed", i) \/ (m.type = "contact.closed" /\ i = m.id)
  BY <1>1 DEF Told
<1>3. \A i, t : Told(M, t, i) => Told(N, t, i)
  BY <1>1 DEF Told
<1>4. Told(N, m.type, m.id)
  BY <1>1 DEF Told
<1>5. ASSUME NEW k \in A, k.kind = "contact", ~k.mine
      PROVE
       /\ \/ \E x \in M : x.type = "contact.invitation" /\ x.id = k.id /\ x.peer = k.peer
          \/ new # NoValue /\ new.id = k.id /\ new.from = k.peer
          \/ Sent(Q, "contact.respond", k.id)
       /\ ~Told(M, "contact.closed", k.id) /\ ~Told(M, "contact.failed", k.id)
       /\ ~Told(M, "contact.accepted", k.id)
  <2>1. /\ \/ \E x \in N : x.type = "contact.invitation" /\ x.id = k.id /\ x.peer = k.peer
           \/ invite # NoValue /\ invite.id = k.id /\ invite.from = k.peer
           \/ Sent(Q, "contact.respond", k.id)
        /\ ~Told(N, "contact.closed", k.id) /\ ~Told(N, "contact.failed", k.id)
        /\ ~Told(N, "contact.accepted", k.id)
    BY <1>0, <1>5 DEF InviteFits
  <2>2. k.id # m.id
    BY <1>4, <2>1
  <2> QED
    BY <1>1, <1>3, <2>1, <2>2
<1>6. new # NoValue =>
       \/ \E k \in A : k.kind = "contact" /\ ~k.mine /\ k.id = new.id /\ k.peer = new.from
       \/ Told(M, "contact.closed", new.id)
  BY <1>0, <1>2 DEF InviteFits
<1>7. \A x \in M : x.type = "contact.invitation" =>
       \/ \E k \in A : k.kind = "contact" /\ ~k.mine /\ k.id = x.id /\ k.peer = x.peer
       \/ Told(M, "contact.closed", x.id)
  BY <1>0, <1>1, <1>2 DEF InviteFits
<1> QED
  BY <1>5, <1>6, <1>7 DEF InviteFits

\* Word that an invitation of the user is over.
LEMMA TargetOver ==
  ASSUME NEW op, NEW room, NEW targets, NEW A, NEW M, NEW m, NEW L, NEW K, NEW Q,
         InvitesFit(op, room, targets, A, M \cup {m}, L, Q), m.type \in Ends, K \subseteq L,
         \A x \in K : x.type \in Ends => x.peer # m.peer
  PROVE  InvitesFit(op, room, targets \ {m.peer}, A, M, K, Q)
<1> DEFINE N == M \cup {m}
<1>1. m \in N /\ (\A x \in M : x \in N) /\ (\A x \in N : x \in M \/ x = m)
  OBVIOUS
<1> HIDE DEF N
<1>0. InvitesFit(op, room, targets, A, N, L, Q)
  BY DEF N
<1>2. Over(N, m.peer) /\ \A p : Over(M, p) => Over(N, p)
  BY <1>1 DEF Over
<1> QED
  BY <1>0, <1>1, <1>2 DEF InvitesFit

\* Reading a message disturbs the parts that it is about, and no other.
LEMMA Reading ==
  ASSUME AsksInv, NEW T, Take(T)
  PROVE  /\ UNCHANGED <<askOperation, askRoom>> /\ Arrival.type \notin RoomReplies /\ Alike(going, going', RoomRequests) =>
              RoomAgrees'
         /\ UNCHANGED askKnock /\ Arrival.type \notin KnockNotes /\ Alike(going, going', {"knock.request"}) => KnockAgrees'
         /\ UNCHANGED askInKnock /\ Arrival.type \notin PromptNotes /\ Alike(going, going', PromptRequests) => PromptAgrees'
         /\ UNCHANGED askInvite /\ Arrival.type \notin InviteNotes /\ Alike(going, going', {"contact.respond"}) =>
              InviteAgrees'
         /\ UNCHANGED <<askOperation, askRoom, askTargets>> /\ Arrival.type \notin EndNotes
              /\ Alike(going, going', {"contact.invite"}) => InvitesAgree'
         /\ UNCHANGED <<askWanted, askTarget, askTargets, askInKnock>>
              /\ (\A r \in going' : r.type = "knock.respond" => r \in going) => WantAgrees'
<1>1. /\ UNCHANGED <<srvRoom, srvAsks, askIds>> /\ behind' \subseteq behind /\ coming' \subseteq coming
      /\ \A S : Arrival.type \notin S => Alike(coming, coming', S)
  BY Taken
<1>2. /\ \A kind, mine : Same(srvAsks, srvAsks', kind, mine)
      /\ askIds \in Nat /\ askIds' \in Nat /\ askIds <= askIds'
  BY <1>1, ServerAway
<1>3. UNCHANGED <<askOperation, askRoom>> /\ Arrival.type \notin RoomReplies /\ Alike(going, going', RoomRequests) =>
        RoomAgrees'
  BY <1>1, RoomStill DEF AsksInv, Agreement
<1>4. UNCHANGED askKnock /\ Arrival.type \notin KnockNotes /\ Alike(going, going', {"knock.request"}) => KnockAgrees'
  BY <1>1, <1>2, KnockStill DEF AsksInv, Agreement
<1>5. UNCHANGED askInKnock /\ Arrival.type \notin PromptNotes /\ Alike(going, going', PromptRequests) => PromptAgrees'
  BY <1>1, <1>2, PromptStill DEF AsksInv, Agreement
<1>6. UNCHANGED askInvite /\ Arrival.type \notin InviteNotes /\ Alike(going, going', {"contact.respond"}) => InviteAgrees'
  BY <1>1, <1>2, InviteStill DEF AsksInv, Agreement
<1>7. UNCHANGED <<askOperation, askRoom, askTargets>> /\ Arrival.type \notin EndNotes
        /\ Alike(going, going', {"contact.invite"}) => InvitesAgree'
  BY <1>1, <1>2, InvitesStill DEF AsksInv, Agreement
<1>8. UNCHANGED <<askWanted, askTarget, askTargets, askInKnock>>
        /\ (\A r \in going' : r.type = "knock.respond" => r \in going) => WantAgrees'
  BY <1>1, WantStill DEF AsksInv, Agreement
<1> QED
  BY <1>3, <1>4, <1>5, <1>6, <1>7, <1>8

\* A step that sends no request leaves what is going as it is.
LEMMA NothingAsked ==
  ASSUME AsksInv, askUp' = askUp
  PROVE  /\ going' = going /\ OrderedUp(askUp')
         /\ \A r \in going' : RequestTyped(r, askIds)
         /\ \A T : Alike(going, going', T)
  BY AsksAlike DEF going, AsksInv, Typed

\* The rest of the invariant when a message is read.
LEMMA ReadTyped ==
  ASSUME AsksInv, NEW T, Take(T), \A r \in going' : RequestTyped(r, askIds)
  PROVE  Typed' /\ ServerKnows' /\ OrderedDown(askDown')
<1>1. /\ UNCHANGED <<askOnline, srvProfile, srvRoom, srvAsks, askIds, askMade>> /\ OrderedDown(askDown')
      /\ coming' \subseteq coming
  BY Taken
<1>2. askMade' \in Nat /\ askOnline \in BOOLEAN
  BY <1>1, Standing
<1> QED
  BY <1>1, <1>2, ServerStill

\* The response to a publication keeps the agreement.
LEMMA PublishedKeeps ==
  ASSUME AsksInv, HandlePublished
  PROVE  AsksInv'
<1>1. Take({"published"}) /\ UNCHANGED <<askMesh, askKnock, askInKnock, askInvite, askRoomVars, askUp>>
  BY DEF HandlePublished, promptVars
<1>2. Arrival.type = "published" /\ askIds' = askIds
  BY <1>1, Taken
<1>3. /\ going' = going /\ OrderedUp(askUp')
      /\ \A r \in going' : RequestTyped(r, askIds)
      /\ \A T : Alike(going, going', T)
  BY <1>1, NothingAsked
<1>4. Typed' /\ ServerKnows' /\ OrderedDown(askDown')
  BY <1>1, <1>3, ReadTyped
<1>5. ClientStands'
  <2>1. askIds \in Nat /\ askIds' \in Nat /\ askIds <= askIds'
    BY <1>1, <1>2, Taken, ServerAway
  <2> QED
    BY <1>1, <2>1, ClientStill DEF AsksInv, askRoomVars
<1>6. Agreement'
  BY <1>1, <1>2, <1>3, Reading
     DEF Agreement, askRoomVars, RoomReplies, KnockNotes, Replies, PromptNotes, InviteNotes, EndNotes, Ends
<1> QED
  BY <1>3, <1>4, <1>5, <1>6 DEF AsksInv

\* A message about the knock of the user, or its answer.
LEMMA KnockNoteKeeps ==
  ASSUME AsksInv, HandleKnockAnswer \/ HandleKnockResult
  PROVE  AsksInv'
<1>1. PICK T : /\ Take(T)
               /\ \/ T = {"knock.requested"} /\ askKnock' = [askKnock EXCEPT !.id = Arrival.id]
                  \/ T = {"knock.refused"} /\ askKnock' = NoKnock
                  \/ T = {"knock.result"} /\ askKnock' = IF askKnock.id = Arrival.id THEN NoKnock ELSE askKnock
  BY DEF HandleKnockAnswer, HandleKnockResult
<1>2. UNCHANGED <<askMesh, askInKnock, askInvite, askRoomVars, askUp>>
  BY DEF HandleKnockAnswer, HandleKnockResult
<1>3. /\ Arrival.type \in T /\ UNCHANGED <<srvAsks, askIds>> /\ coming = coming' \cup {Arrival}
      /\ \A x \in coming' : MayPrecede(Arrival, x)
      /\ NoteTyped(Arrival, askIds)
  BY <1>1, Taken
<1>4. /\ going' = going /\ OrderedUp(askUp')
      /\ \A r \in going' : RequestTyped(r, askIds)
      /\ \A S : Alike(going, going', S)
  BY <1>2, NothingAsked
<1>5. Typed' /\ ServerKnows' /\ OrderedDown(askDown')
  BY <1>1, <1>4, ReadTyped
<1>6. ClientStands' /\ askIds \in Nat
  <2>1. askIds \in Nat /\ askIds' \in Nat /\ askIds <= askIds'
    BY <1>3, ServerAway
  <2> QED
    BY <1>2, <2>1, ClientStill DEF AsksInv, askRoomVars
<1>7. KnockFits(askKnock, srvAsks, askIds, coming' \cup {Arrival}, going)
  BY <1>3 DEF AsksInv, Agreement, KnockAgrees
<1>8. KnockFits(askKnock', srvAsks, askIds, coming', going)
  <2>1. CASE T = {"knock.requested"} /\ askKnock' = [askKnock EXCEPT !.id = Arrival.id]
    <3>1. /\ Arrival.type = "knock.requested" /\ Arrival.id \in 1 .. askIds
          /\ \A x \in coming' : x.type \notin Replies
      BY <1>3, <2>1 DEF NoteTyped, MayPrecede, Replies
    <3>2. \A k \in srvAsks : k.id \in 1 .. askIds
      BY DEF AsksInv, Typed, AskTyped
    <3> QED
      BY <1>6, <1>7, <2>1, <3>1, <3>2, KnockNumbered
  <2>2. CASE T = {"knock.refused"} /\ askKnock' = NoKnock
    <3>1. /\ Arrival.type = "knock.refused"
          /\ \A x \in coming' : x.type \notin Replies
      BY <1>3, <2>2 DEF MayPrecede, Replies
    <3> QED
      BY <1>6, <1>7, <2>2, <3>1, KnockRefused
  <2>3. CASE T = {"knock.result"} /\ askKnock' = IF askKnock.id = Arrival.id THEN NoKnock ELSE askKnock
    <3>1. /\ Arrival.type = "knock.result" /\ Arrival.id \in 1 .. askIds
          /\ \A x \in coming' : x.type = "knock.requested" => x.id # Arrival.id
      BY <1>3, <2>3 DEF NoteTyped, MayPrecede
    <3>2. CASE askKnock.id = Arrival.id
      <4>1. KnockFits(NoKnock, srvAsks, askIds, coming', going)
        BY <1>6, <1>7, <3>1, <3>2, KnockOver
      <4> QED
        BY <2>3, <3>2, <4>1
    <3>3. CASE askKnock.id # Arrival.id
      <4>1. KnockFits(askKnock, srvAsks, askIds, coming', going)
        BY <1>6, <1>7, <3>1, <3>3, KnockPassed
      <4> QED
        BY <2>3, <3>3, <4>1
    <3> QED
      BY <3>2, <3>3
  <2> QED
    BY <1>1, <2>1, <2>2, <2>3
<1>9. KnockAgrees'
  BY <1>3, <1>4, <1>8 DEF KnockAgrees
<1>10. Arrival.type \in {"knock.requested", "knock.refused", "knock.result"}
  BY <1>1, <1>3
<1>11. RoomAgrees' /\ PromptAgrees' /\ InviteAgrees' /\ InvitesAgree' /\ WantAgrees'
  BY <1>1, <1>2, <1>4, <1>10, Reading
     DEF askRoomVars, RoomReplies, PromptNotes, InviteNotes, EndNotes, Ends
<1> QED
  BY <1>4, <1>5, <1>6, <1>9, <1>11 DEF AsksInv, Agreement

\* The knock of a friend, shown or declined at once, keeps the agreement.
LEMMA KnockInvitationKeeps ==
  ASSUME AsksInv, HandleKnockInvitation
  PROVE  AsksInv'
<1>1. /\ Take({"knock.invitation"}) /\ UNCHANGED <<askMesh, askKnock, askInvite, askRoomVars>>
      /\ \/ /\ Submits(Declines(Arrival.id, "knock")) /\ UNCHANGED askInKnock
         \/ /\ askInKnock = NoValue /\ askInvite = NoValue /\ askMesh.joined /\ askMesh.id = Arrival.mesh /\ ~signalingBusy
            /\ askInKnock' = [id |-> Arrival.id, from |-> Arrival.peer, mesh |-> Arrival.mesh,
                            accepting |-> FALSE]
            /\ UNCHANGED askUp
  BY DEF HandleKnockInvitation
<1>2. /\ Arrival.type = "knock.invitation" /\ UNCHANGED <<srvAsks, askIds>> /\ coming = coming' \cup {Arrival}
      /\ \A x \in coming' : MayPrecede(Arrival, x)
      /\ NoteTyped(Arrival, askIds)
  BY <1>1, Taken
<1>3. /\ Arrival.id \in 1 .. askIds /\ Arrival.peer \in Friends /\ Arrival.mesh \in Conversations
      /\ \A x \in coming' : x.type = "knock.invitation" => x.id # Arrival.id
  BY <1>2 DEF NoteTyped, MayPrecede
<1>4. PromptFits(askInKnock, srvAsks, coming' \cup {Arrival}, going)
  BY <1>2 DEF AsksInv, Agreement, PromptAgrees
<1>5. RoomStands'
  BY <1>1, <1>2 DEF AsksInv, ClientStands, RoomStands, askRoomVars, inMesh
<1>6. ASSUME Submits(Declines(Arrival.id, "knock")), UNCHANGED askInKnock
      PROVE  AsksInv'
  <2>1. PICK x : Submits(<<x>>) /\ x.type = "knock.respond" /\ x.id = Arrival.id /\ x.accept = FALSE
    <3> DEFINE x == Respond(Arrival.id, "knock", FALSE)
    <3>1. x.type = "knock.respond" /\ x.id = Arrival.id /\ x.accept = FALSE
      BY DEF Respond, Responds, By
    <3>2. Submits(<<x>>)
      BY <1>6 DEF Declines
    <3> HIDE DEF x
    <3> QED
      BY <3>1, <3>2
  <2>2. /\ OrderedUp(askUp') /\ going' = going \cup {x}
        /\ \A r \in going' : RequestTyped(r, askIds)
        /\ \A S : x.type \notin S => Alike(going, going', S)
    <3>1. RequestTyped(x, askIds) /\ \A r \in going : MayBeAskedBefore(r, x)
      BY <1>3, <2>1 DEF RequestTyped, MayBeAskedBefore, RoomRequests
    <3> QED
      BY <2>1, <3>1, Asking
  <2>3. Typed' /\ ServerKnows' /\ OrderedDown(askDown')
    BY <1>1, <2>2, ReadTyped
  <2>4. PromptFits(askInKnock, srvAsks, coming', going') /\ (askInKnock # NoValue => askInKnock.id # Arrival.id)
    BY <1>2, <1>3, <1>4, <2>1, <2>2, KnockDeclined
  <2>5. PromptAgrees'
    BY <1>2, <1>6, <2>4 DEF PromptAgrees
  <2>6. WantAgrees'
    <3>1. WantFits(askWanted, askTarget, askTargets, askInKnock, coming, going)
      BY DEF AsksInv, Agreement, WantAgrees
    <3>2. askInKnock # NoValue => (Sent(going', "knock.respond", askInKnock.id) => Sent(going, "knock.respond", askInKnock.id))
      BY <2>1, <2>2, <2>4 DEF Sent
    <3>3. /\ \A i, t : Told(coming', t, i) => Told(coming, t, i)
          /\ coming' \subseteq coming
      BY <1>2 DEF Told
    <3> QED
      BY <1>1, <1>6, <3>1, <3>2, <3>3 DEF WantAgrees, WantFits, askRoomVars
  <2>7. PromptsStand'
    BY <1>1, <1>2, <1>6 DEF AsksInv, ClientStands, PromptsStand, PromptsFit
  <2>8. RoomAgrees' /\ KnockAgrees' /\ InviteAgrees' /\ InvitesAgree'
    BY <1>1, <1>2, <2>1, <2>2, Reading
       DEF askRoomVars, RoomReplies, RoomRequests, KnockNotes, Replies, InviteNotes, EndNotes, Ends
  <2> QED
    BY <1>5, <2>2, <2>3, <2>5, <2>6, <2>7, <2>8 DEF AsksInv, Agreement, ClientStands
<1>7. ASSUME askInKnock = NoValue, askInvite = NoValue, askMesh.joined, askMesh.id = Arrival.mesh, ~signalingBusy,
             askInKnock' = [id |-> Arrival.id, from |-> Arrival.peer, mesh |-> Arrival.mesh,
                            accepting |-> FALSE],
             UNCHANGED askUp
      PROVE  AsksInv'
  <2>1. /\ going' = going /\ OrderedUp(askUp')
        /\ \A r \in going' : RequestTyped(r, askIds)
        /\ \A S : Alike(going, going', S)
    BY <1>7, NothingAsked
  <2>2. Typed' /\ ServerKnows' /\ OrderedDown(askDown')
    BY <1>1, <2>1, ReadTyped
  <2>3. askInKnock' \in KnockPrompts /\ askInKnock' # NoValue
    <3>1. askInKnock' \in KnockPrompts
      <4>1. Arrival.id \in Nat
        BY <1>3
      <4> QED
        BY <1>3, <1>7, <4>1 DEF KnockPrompts
    <3> QED
      BY <3>1, AsksAssumption
  <2>4. /\ askInKnock'.id = Arrival.id /\ askInKnock'.from = Arrival.peer /\ askInKnock'.mesh = Arrival.mesh
        /\ ~askInKnock'.accepting
    BY <1>7
  <2>5. PromptAgrees'
    <3>1. PromptFits(askInKnock', srvAsks, coming', going)
      BY <1>2, <1>3, <1>4, <1>7, <2>3, <2>4, KnockShown
    <3> QED
      BY <1>2, <2>1, <3>1 DEF PromptAgrees
  <2>6. WantAgrees'
    BY <1>1, <1>7 DEF WantAgrees, WantFits, signalingBusy, askRoomVars
  <2>7. PromptsStand'
    <3>1. askMesh \in [id : Conversations, joined : BOOLEAN]
      BY <1>7, Standing
    <3>2. askMesh = [id |-> Arrival.mesh, joined |-> TRUE]
      BY <1>7, <3>1
    <3>3. PromptsFit'
      BY <1>1, <1>7, <2>4, <3>2 DEF PromptsFit
    <3> QED
      BY <1>1, <1>2, <1>3, <1>7, <2>3, <2>4, <3>3 DEF PromptsStand
  <2>8. RoomAgrees' /\ KnockAgrees' /\ InviteAgrees' /\ InvitesAgree'
    BY <1>1, <1>2, <2>1, Reading
       DEF askRoomVars, RoomReplies, KnockNotes, Replies, InviteNotes, EndNotes, Ends
  <2> QED
    BY <1>5, <2>1, <2>2, <2>5, <2>6, <2>7, <2>8 DEF AsksInv, Agreement, ClientStands
<1> QED
  BY <1>1, <1>6, <1>7

\* The invitation by a friend, shown or declined at once, keeps the agreement.
LEMMA ContactInvitationKeeps ==
  ASSUME AsksInv, HandleContactInvitation
  PROVE  AsksInv'
<1>1. /\ Take({"contact.invitation"}) /\ UNCHANGED <<askMesh, askKnock, askInKnock, askRoomVars>>
      /\ \/ /\ Submits(Declines(Arrival.id, "contact")) /\ UNCHANGED askInvite
         \/ /\ askInvite = NoValue /\ askMesh = NoMesh
            /\ askInvite' = [id |-> Arrival.id, from |-> Arrival.peer, accepting |-> FALSE]
            /\ UNCHANGED askUp
  BY DEF HandleContactInvitation, inMesh
<1>2. /\ Arrival.type = "contact.invitation" /\ UNCHANGED <<srvAsks, askIds>> /\ coming = coming' \cup {Arrival}
      /\ \A x \in coming' : MayPrecede(Arrival, x)
      /\ NoteTyped(Arrival, askIds)
  BY <1>1, Taken
<1>3. Arrival.id \in 1 .. askIds /\ Arrival.peer \in Friends
  BY <1>2 DEF NoteTyped
<1>4. InviteFits(askInvite, srvAsks, coming' \cup {Arrival}, going)
  BY <1>2 DEF AsksInv, Agreement, InviteAgrees
<1>5. RoomStands'
  BY <1>1, <1>2 DEF AsksInv, ClientStands, RoomStands, askRoomVars, inMesh
<1>6. ASSUME Submits(Declines(Arrival.id, "contact")), UNCHANGED askInvite
      PROVE  AsksInv'
  <2>1. PICK x : Submits(<<x>>) /\ x.type = "contact.respond" /\ x.id = Arrival.id /\ x.accept = FALSE
    <3> DEFINE x == Respond(Arrival.id, "contact", FALSE)
    <3>1. x.type = "contact.respond" /\ x.id = Arrival.id /\ x.accept = FALSE
      BY DEF Respond, Responds, By
    <3>2. Submits(<<x>>)
      BY <1>6 DEF Declines
    <3> HIDE DEF x
    <3> QED
      BY <3>1, <3>2
  <2>2. /\ OrderedUp(askUp') /\ going' = going \cup {x}
        /\ \A r \in going' : RequestTyped(r, askIds)
        /\ \A S : x.type \notin S => Alike(going, going', S)
    <3>1. RequestTyped(x, askIds) /\ \A r \in going : MayBeAskedBefore(r, x)
      BY <1>3, <2>1 DEF RequestTyped, MayBeAskedBefore, RoomRequests
    <3> QED
      BY <2>1, <3>1, Asking
  <2>3. Typed' /\ ServerKnows' /\ OrderedDown(askDown')
    BY <1>1, <2>2, ReadTyped
  <2>4. InviteAgrees'
    <3>1. Sent(going', "contact.respond", Arrival.id) /\ going \subseteq going'
      BY <2>1, <2>2 DEF Sent
    <3>2. InviteFits(askInvite, srvAsks, coming', going')
      BY <1>2, <1>4, <3>1, InviteShown
    <3> QED
      BY <1>2, <1>6, <3>2 DEF InviteAgrees
  <2>5. PromptsStand'
    BY <1>1, <1>2, <1>6 DEF AsksInv, ClientStands, PromptsStand, PromptsFit
  <2>6. RoomAgrees' /\ KnockAgrees' /\ PromptAgrees' /\ InvitesAgree'
    BY <1>1, <1>2, <2>1, <2>2, Reading
       DEF askRoomVars, RoomReplies, RoomRequests, KnockNotes, Replies, PromptNotes, PromptRequests, EndNotes, Ends
  <2>7. WantAgrees'
    BY <1>1, <2>1, <2>2, Reading DEF askRoomVars
  <2> QED
    BY <1>5, <2>2, <2>3, <2>4, <2>5, <2>6, <2>7 DEF AsksInv, Agreement, ClientStands
<1>7. ASSUME askInvite = NoValue, askMesh = NoMesh,
             askInvite' = [id |-> Arrival.id, from |-> Arrival.peer, accepting |-> FALSE],
             UNCHANGED askUp
      PROVE  AsksInv'
  <2>1. /\ going' = going /\ OrderedUp(askUp')
        /\ \A r \in going' : RequestTyped(r, askIds)
        /\ \A S : Alike(going, going', S)
    BY <1>7, NothingAsked
  <2>2. Typed' /\ ServerKnows' /\ OrderedDown(askDown')
    BY <1>1, <2>1, ReadTyped
  <2>3. askInvite' \in InvitePrompts /\ askInvite' # NoValue /\ askInvite'.id = Arrival.id /\ askInvite'.from = Arrival.peer
    <3>1. Arrival.id \in Nat
      BY <1>3
    <3>2. askInvite' \in InvitePrompts
      BY <1>3, <1>7, <3>1 DEF InvitePrompts
    <3> QED
      BY <1>7, <3>2, AsksAssumption
  <2>4. InviteAgrees'
    <3>1. InviteFits(askInvite', srvAsks, coming', going)
      BY <1>2, <1>4, <1>7, <2>3, InviteShown
    <3> QED
      BY <1>2, <2>1, <3>1 DEF InviteAgrees
  <2>5. PromptsStand'
    <3>1. askInKnock = NoValue
      BY <1>7, Shown
    <3> QED
      BY <1>1, <1>2, <1>3, <2>3, <3>1 DEF PromptsStand, PromptsFit
  <2>6. RoomAgrees' /\ KnockAgrees' /\ PromptAgrees' /\ InvitesAgree' /\ WantAgrees'
    BY <1>1, <1>2, <2>1, Reading
       DEF askRoomVars, RoomReplies, KnockNotes, Replies, PromptNotes, EndNotes, Ends
  <2> QED
    BY <1>5, <2>1, <2>2, <2>4, <2>5, <2>6 DEF AsksInv, Agreement, ClientStands
<1> QED
  BY <1>1, <1>6, <1>7

\* The mesh of a friend is entered, on a message that is not about the room.
LEMMA Entering ==
  ASSUME AsksInv, NEW T, Take(T), NEW peer \in Friends, Enter(peer) \/ UNCHANGED <<askMesh, askServerMesh, askOperation, askUp>>,
         Arrival.type \notin RoomReplies \cup EndNotes \cup PromptNotes,
         UNCHANGED <<askTarget, askTargets, askWanted, askRoom, askInKnock>>
  PROVE  /\ OrderedUp(askUp') /\ \A r \in going' : RequestTyped(r, askIds)
         /\ Alike(going, going', {"knock.request"}) /\ Alike(going, going', {"contact.respond"})
         /\ RoomStands' /\ (askInKnock' # NoValue => askMesh' = askMesh)
         /\ RoomAgrees' /\ PromptAgrees' /\ InvitesAgree' /\ WantAgrees'
<1>1. /\ UNCHANGED <<srvRoom, srvAsks, askIds>> /\ coming = coming' \cup {Arrival} /\ behind' \subseteq behind
  BY Taken
<1>2. CASE UNCHANGED <<askMesh, askServerMesh, askOperation, askUp>>
  <2>1. /\ going' = going /\ OrderedUp(askUp')
        /\ \A r \in going' : RequestTyped(r, askIds)
        /\ \A S : Alike(going, going', S)
    BY <1>2, NothingAsked
  <2>2. RoomStands'
    BY <1>2 DEF AsksInv, ClientStands, RoomStands, inMesh
  <2>3. RoomAgrees' /\ PromptAgrees' /\ InvitesAgree' /\ WantAgrees'
    BY <1>2, <2>1, Reading
  <2> QED
    BY <1>2, <2>1, <2>2, <2>3
<1>3. ASSUME askMesh = NoMesh, ~signalingBusy,
             askMesh' = [id |-> peer, joined |-> FALSE], askServerMesh' = TRUE, askOperation' = "joining",
             Submits(<<[type |-> "room.join"]>>)
      PROVE  /\ OrderedUp(askUp') /\ \A r \in going' : RequestTyped(r, askIds)
             /\ Alike(going, going', {"knock.request"}) /\ Alike(going, going', {"contact.respond"})
             /\ RoomStands' /\ (askInKnock' # NoValue => askMesh' = askMesh)
             /\ RoomAgrees' /\ PromptAgrees' /\ InvitesAgree' /\ WantAgrees'
  <2> DEFINE x == [type |-> "room.join"]
  <2>1. x.type = "room.join" /\ Submits(<<x>>)
    BY <1>3
  <2> HIDE DEF x
  <2>2. askOperation = "" /\ ~askWanted /\ ~askServerMesh /\ ~askRoom /\ askTargets = {} /\ askInKnock = NoValue
    BY <1>3, Standing, Shown DEF signalingBusy
  <2>3. /\ srvRoom = askRoom
        /\ \A r \in going : r.type \notin RoomRequests
        /\ \A y \in coming : y.type \notin RoomReplies
    BY <2>2, NothingAbout
  <2>4. /\ OrderedUp(askUp') /\ going' = going \cup {x}
        /\ \A r \in going' : RequestTyped(r, askIds)
        /\ \A S : x.type \notin S => Alike(going, going', S)
    <3>1. RequestTyped(x, askIds) /\ \A r \in going : MayBeAskedBefore(r, x)
      BY <2>1, <2>3 DEF RequestTyped, MayBeAskedBefore
    <3> QED
      BY <2>1, <3>1, Asking
  <2>5. RoomStands'
    <3>1. askMesh' \in [id : Conversations, joined : BOOLEAN]
      BY <1>3 DEF Conversations
    <3>2. askMesh' # NoMesh
      <4>1. askMesh'.id = peer /\ peer \in Conversations
        BY <1>3 DEF Conversations
      <4> QED
        BY <4>1, NoMeshIsNone
    <3>3. /\ askRoom' = FALSE /\ askWanted' = FALSE /\ askTargets' = {} /\ askMesh'.joined = FALSE
      BY <1>3, <2>2, Standing
    <3> QED
      BY <1>3, <3>1, <3>2, <3>3 DEF RoomStands, Operations, Leaves, inMesh
  <2>6. RoomAgrees'
    <3>1. askOperation' = "joining" /\ ~srvRoom' /\ going' = going \cup {x} /\ coming' \subseteq coming
      BY <1>1, <1>3, <2>2, <2>3, <2>4
    <3> QED
      BY <2>1, <2>3, <3>1 DEF RoomAgrees, RoomFits, RoomRequests, RoomReplies, Leaves
  <2>7. InvitesAgree'
    <3>1. InvitesFit(askOperation, askRoom, askTargets, srvAsks, coming, behind, going)
      BY DEF AsksInv, Agreement, InvitesAgree
    <3>2. askOperation \notin Leaves
      BY <2>2 DEF Leaves
    <3>3. InvitesFit(askOperation', askRoom, askTargets, srvAsks, coming, behind, going)
      BY <3>1, <3>2, InvitesMore
    <3>4. /\ \A kind, mine : Same(srvAsks, srvAsks', kind, mine)
          /\ Alike(coming, coming', EndNotes) /\ Alike(going, going', {"contact.invite"})
      BY <1>1, <2>1, <2>4, Taken, ServerAway
    <3>5. InvitesFit(askOperation', askRoom, askTargets, srvAsks', coming', behind', going')
      BY <1>1, <3>3, <3>4, InvitesKept
    <3> QED
      BY <3>5 DEF InvitesAgree
  <2>8. PromptAgrees' /\ WantAgrees'
    BY <2>1, <2>4, Reading DEF PromptRequests
  <2> QED
    BY <2>1, <2>2, <2>4, <2>5, <2>6, <2>7, <2>8
<1> QED
  BY <1>2, <1>3 DEF Enter, inMesh

\* An accepted knock ends and its mesh is entered, unless the user went elsewhere.
LEMMA KnockAcceptedKeeps ==
  ASSUME AsksInv, HandleKnockAccepted
  PROVE  AsksInv'
<1>1. /\ Take({"knock.accepted"}) /\ UNCHANGED <<askInKnock, askInvite, askTarget, askTargets, askWanted, askRoom>>
      /\ \/ UNCHANGED <<askKnock, askMesh, askServerMesh, askOperation, askUp>>
         \/ Arrival.id = askKnock.id /\ askKnock' = NoKnock /\ Enter(Arrival.peer)
  BY DEF HandleKnockAccepted
<1>2. /\ Arrival.type = "knock.accepted" /\ UNCHANGED <<srvAsks, askIds>> /\ coming = coming' \cup {Arrival}
      /\ NoteTyped(Arrival, askIds)
  BY <1>1, Taken
<1>3. Arrival.id \in 1 .. askIds /\ Arrival.peer \in Friends
  BY <1>2 DEF NoteTyped
<1>4. /\ OrderedUp(askUp') /\ \A r \in going' : RequestTyped(r, askIds)
      /\ Alike(going, going', {"knock.request"}) /\ Alike(going, going', {"contact.respond"})
      /\ RoomStands' /\ (askInKnock' # NoValue => askMesh' = askMesh)
      /\ RoomAgrees' /\ PromptAgrees' /\ InvitesAgree' /\ WantAgrees'
  BY <1>1, <1>2, <1>3, Entering DEF RoomReplies, EndNotes, Ends, PromptNotes
<1>5. Typed' /\ ServerKnows' /\ OrderedDown(askDown')
  BY <1>1, <1>4, ReadTyped
<1>6. PromptsStand'
  BY <1>1, <1>2, <1>4 DEF AsksInv, ClientStands, PromptsStand, PromptsFit
<1>7. InviteAgrees'
  BY <1>1, <1>2, <1>4, Reading DEF InviteNotes
<1>8. KnockAgrees'
  <2>1. KnockFits(askKnock, srvAsks, askIds, coming' \cup {Arrival}, going) /\ askIds \in Nat
    BY <1>2, Standing DEF AsksInv, Agreement, KnockAgrees
  <2>2. KnockFits(askKnock', srvAsks, askIds, coming', going)
    <3>1. CASE askKnock' = askKnock
      BY <1>2, <2>1, <3>1, KnockPassed
    <3>2. CASE Arrival.id = askKnock.id /\ askKnock' = NoKnock
      BY <1>2, <1>3, <2>1, <3>2, KnockOver
    <3> QED
      BY <1>1, <3>1, <3>2
  <2>3. /\ Alike(coming', coming', KnockNotes) /\ Same(srvAsks, srvAsks, "knock", TRUE)
    BY AsksAlike
  <2>5. askIds \in Nat /\ askIds <= askIds
    <3>1. askIds \in Nat
      BY Standing
    <3> QED
      BY <3>1
  <2>4. KnockFits(askKnock', srvAsks, askIds, coming', going')
    BY <1>4, <2>2, <2>3, <2>5, KnockKept
  <2> QED
    BY <1>2, <2>4 DEF KnockAgrees
<1> QED
  BY <1>4, <1>5, <1>6, <1>7, <1>8 DEF AsksInv, Agreement, ClientStands

\* An accepted invitation ends and its mesh is entered, unless the user went elsewhere.
LEMMA ContactAcceptedKeeps ==
  ASSUME AsksInv, HandleContactAccepted
  PROVE  AsksInv'
<1>1. /\ Take({"contact.accepted"}) /\ UNCHANGED <<askKnock, askInKnock, askTarget, askTargets, askWanted, askRoom>>
      /\ \/ UNCHANGED <<askInvite, askMesh, askServerMesh, askOperation, askUp>>
         \/ askInvite # NoValue /\ askInvite.id = Arrival.id /\ askInvite' = NoValue /\ Enter(Arrival.peer)
  BY DEF HandleContactAccepted
<1>2. /\ Arrival.type = "contact.accepted" /\ UNCHANGED <<srvAsks, askIds>> /\ coming = coming' \cup {Arrival}
      /\ NoteTyped(Arrival, askIds)
  BY <1>1, Taken
<1>3. Arrival.peer \in Friends
  BY <1>2 DEF NoteTyped
<1>4. /\ OrderedUp(askUp') /\ \A r \in going' : RequestTyped(r, askIds)
      /\ Alike(going, going', {"knock.request"}) /\ Alike(going, going', {"contact.respond"})
      /\ RoomStands' /\ (askInKnock' # NoValue => askMesh' = askMesh)
      /\ RoomAgrees' /\ PromptAgrees' /\ InvitesAgree' /\ WantAgrees'
  BY <1>1, <1>2, <1>3, Entering DEF RoomReplies, EndNotes, Ends, PromptNotes
<1>5. Typed' /\ ServerKnows' /\ OrderedDown(askDown')
  BY <1>1, <1>4, ReadTyped
<1>6. PromptsStand'
  BY <1>1, <1>2, <1>4 DEF AsksInv, ClientStands, PromptsStand, PromptsFit
<1>7. KnockAgrees'
  BY <1>1, <1>2, <1>4, Reading DEF KnockNotes, Replies
<1>8. InviteAgrees'
  <2>1. InviteFits(askInvite, srvAsks, coming' \cup {Arrival}, going)
    BY <1>2 DEF AsksInv, Agreement, InviteAgrees
  <2>2. InviteFits(askInvite', srvAsks, coming', going)
    BY <1>1, <1>2, <2>1, InviteOver
  <2>3. InviteFits(askInvite', srvAsks, coming', going')
    BY <1>4, <2>2, InviteKept, AsksAlike
  <2> QED
    BY <1>2, <2>3 DEF InviteAgrees
<1> QED
  BY <1>4, <1>5, <1>6, <1>7, <1>8 DEF AsksInv, Agreement, ClientStands

\* contact.closed and the failure of an answer take the prompt off the screen.
LEMMA ContactClosedKeeps ==
  ASSUME AsksInv, HandleContactClosed
  PROVE  AsksInv'
<1>1. /\ Take({"contact.closed", "contact.failed"}) /\ UNCHANGED <<askMesh, askKnock, askInKnock, askRoomVars, askUp>>
      /\ \/ askInvite' = NoValue /\ askInvite # NoValue /\ askInvite.id = Arrival.id
         \/ askInvite' = askInvite /\ (askInvite = NoValue \/ askInvite.id # Arrival.id)
  BY DEF HandleContactClosed
<1>2. /\ Arrival.type \in {"contact.closed", "contact.failed"} /\ UNCHANGED <<srvAsks, askIds>>
      /\ coming = coming' \cup {Arrival} /\ \A x \in coming' : MayPrecede(Arrival, x)
  BY <1>1, Taken
<1>3. /\ going' = going /\ OrderedUp(askUp')
      /\ \A r \in going' : RequestTyped(r, askIds)
      /\ \A S : Alike(going, going', S)
  BY <1>1, NothingAsked
<1>4. Typed' /\ ServerKnows' /\ OrderedDown(askDown')
  BY <1>1, <1>3, ReadTyped
<1>5. ClientStands'
  <2>1. RoomStands'
    BY <1>1 DEF AsksInv, ClientStands, RoomStands, askRoomVars, inMesh
  <2>2. PromptsStand'
    BY <1>1, <1>2 DEF AsksInv, ClientStands, PromptsStand, PromptsFit
  <2> QED
    BY <2>1, <2>2 DEF ClientStands
<1>6. InviteAgrees'
  <2>1. InviteFits(askInvite, srvAsks, coming' \cup {Arrival}, going)
    BY <1>2 DEF AsksInv, Agreement, InviteAgrees
  <2>2. Arrival.type = "contact.closed" => \A x \in coming' : x.type = "contact.invitation" => x.id # Arrival.id
    BY <1>2 DEF MayPrecede
  <2>3. InviteFits(askInvite', srvAsks, coming', going)
    BY <1>1, <1>2, <2>1, <2>2, InviteOver
  <2> QED
    BY <1>2, <1>3, <2>3 DEF InviteAgrees
<1>7. RoomAgrees' /\ KnockAgrees' /\ PromptAgrees' /\ InvitesAgree' /\ WantAgrees'
  BY <1>1, <1>2, <1>3, Reading
     DEF askRoomVars, RoomReplies, KnockNotes, Replies, PromptNotes, EndNotes, Ends
<1> QED
  BY <1>3, <1>4, <1>5, <1>6, <1>7 DEF AsksInv, Agreement

\* knock.closed and the failure of an acceptance take the prompt off the screen and give up the room it waited for.
LEMMA KnockClosedKeeps ==
  ASSUME AsksInv, HandleKnockClosed
  PROVE  AsksInv'
<1>1. PICK T : /\ Take(T)
               /\ \/ /\ T = {"knock.closed"}
                     /\ \/ askTarget' = NoValue /\ askWanted' = FALSE
                        \/ /\ UNCHANGED <<askTarget, askWanted>>
                           /\ ~(askInKnock # NoValue /\ askInKnock.accepting /\ askInKnock.id = Arrival.id
                                  /\ askTarget = askInKnock.from)
                  \/ T = {"knock.failed"} /\ UNCHANGED <<askTarget, askWanted>>
  BY DEF HandleKnockClosed
<1>2. /\ UNCHANGED <<askMesh, askKnock, askInvite, askTargets, askRoom, askServerMesh, askOperation, askUp>>
      /\ \/ askInKnock' = NoValue /\ askInKnock # NoValue /\ askInKnock.id = Arrival.id
         \/ askInKnock' = askInKnock /\ (askInKnock = NoValue \/ askInKnock.id # Arrival.id)
  BY DEF HandleKnockClosed
<1>3. /\ Arrival.type \in T /\ UNCHANGED <<srvAsks, askIds>>
      /\ coming = coming' \cup {Arrival} /\ \A x \in coming' : MayPrecede(Arrival, x)
  BY <1>1, Taken
<1>4. /\ going' = going /\ OrderedUp(askUp')
      /\ \A r \in going' : RequestTyped(r, askIds)
      /\ \A S : Alike(going, going', S)
  BY <1>2, NothingAsked
<1>5. Typed' /\ ServerKnows' /\ OrderedDown(askDown')
  BY <1>1, <1>4, ReadTyped
<1>6. Arrival.type \in {"knock.closed", "knock.failed"}
  BY <1>1, <1>3
<1>7. ClientStands'
  <2>1. RoomStands /\ PromptsStand
    BY DEF AsksInv, ClientStands
  <2>2. RoomStands'
    <3>1. CASE askWanted' = FALSE
      BY <1>2, <2>1, <3>1 DEF RoomStands, inMesh
    <3>2. CASE UNCHANGED <<askTarget, askWanted>>
      BY <1>2, <2>1, <3>2 DEF RoomStands, inMesh
    <3> QED
      BY <1>1, <3>1, <3>2
  <2>3. PromptsStand'
    BY <1>2, <1>3, <2>1 DEF PromptsStand, PromptsFit
  <2> QED
    BY <2>2, <2>3 DEF ClientStands
<1>8. PromptAgrees'
  <2>1. PromptFits(askInKnock, srvAsks, coming' \cup {Arrival}, going)
    BY <1>3 DEF AsksInv, Agreement, PromptAgrees
  <2>2. Arrival.type = "knock.closed" => \A x \in coming' : x.type = "knock.invitation" => x.id # Arrival.id
    BY <1>3 DEF MayPrecede
  <2>3. PromptFits(askInKnock', srvAsks, coming', going)
    BY <1>2, <1>6, <2>1, <2>2, KnockClosed
  <2> QED
    BY <1>3, <1>4, <2>3 DEF PromptAgrees
<1>9. WantAgrees'
  <2>1. WantFits(askWanted, askTarget, askTargets, askInKnock, coming, going)
    BY DEF AsksInv, Agreement, WantAgrees
  <2>2. CASE askWanted' = FALSE
    BY <2>2 DEF WantAgrees, WantFits
  <2>3. ASSUME UNCHANGED <<askTarget, askWanted>>, askWanted,
               Arrival.type = "knock.failed"
                 \/ ~(askInKnock # NoValue /\ askInKnock.accepting /\ askInKnock.id = Arrival.id
                         /\ askTarget = askInKnock.from)
        PROVE  WantAgrees'
    <3>1. /\ \A x \in coming' : x.type \notin Ends
          /\ \A i, t : Told(coming', t, i) => Told(coming, t, i)
      BY <1>3, <2>1, <2>3 DEF WantFits, Told
    <3>2. CASE askTarget \in askTargets
      BY <1>2, <2>3, <3>1, <3>2 DEF WantAgrees, WantFits
    <3>3. CASE askTarget \notin askTargets
      <4>1. /\ askInKnock # NoValue /\ askInKnock.accepting /\ askInKnock.from = askTarget
            /\ ~Sent(going, "knock.respond", askInKnock.id) /\ ~Told(coming, "knock.failed", askInKnock.id)
        BY <2>1, <2>3, <3>3 DEF WantFits
      <4>2. Told(coming, Arrival.type, Arrival.id)
        BY <1>3 DEF Told
      <4>3. askInKnock.id # Arrival.id
        BY <2>3, <4>1, <4>2
      <4>4. askInKnock' = askInKnock
        BY <1>2, <4>3
      <4> QED
        BY <1>2, <1>4, <2>3, <3>1, <4>1, <4>4 DEF WantAgrees, WantFits
    <3> QED
      BY <3>2, <3>3
  <2>4. CASE ~askWanted /\ UNCHANGED <<askTarget, askWanted>>
    BY <2>4 DEF WantAgrees, WantFits
  <2> QED
    BY <1>1, <1>3, <2>2, <2>3, <2>4
<1>10. RoomAgrees' /\ KnockAgrees' /\ InviteAgrees' /\ InvitesAgree'
  BY <1>1, <1>2, <1>4, <1>6, Reading
     DEF RoomReplies, KnockNotes, Replies, InviteNotes, EndNotes, Ends
<1> QED
  BY <1>4, <1>5, <1>7, <1>8, <1>9, <1>10 DEF AsksInv, Agreement

\* The end of an invitation by the user lets that friend be asked again.
LEMMA ContactResultKeeps ==
  ASSUME AsksInv, HandleContactResult
  PROVE  AsksInv'
<1>1. /\ Take({"contact.result", "contact.refused"}) /\ askTargets' = askTargets \ {Arrival.peer}
      /\ UNCHANGED <<askMesh, askKnock, askInKnock, askInvite, askTarget, askWanted, askRoom,
                     askServerMesh, askOperation, askUp>>
  BY DEF HandleContactResult, promptVars
<1>2. /\ Arrival.type \in Ends /\ UNCHANGED <<srvAsks, askIds>>
      /\ coming = coming' \cup {Arrival} /\ \A x \in coming' : MayPrecede(Arrival, x)
      /\ behind' \subseteq behind /\ behind \subseteq coming
  BY <1>1, Taken DEF Ends
<1>3. /\ going' = going /\ OrderedUp(askUp')
      /\ \A r \in going' : RequestTyped(r, askIds)
      /\ \A S : Alike(going, going', S)
  BY <1>1, NothingAsked
<1>4. Typed' /\ ServerKnows' /\ OrderedDown(askDown')
  BY <1>1, <1>3, ReadTyped
<1>5. ~askWanted
  BY <1>2 DEF AsksInv, Agreement, WantAgrees, WantFits
<1>6. ClientStands'
  <2>1. RoomStands'
    BY <1>1, <1>5 DEF AsksInv, ClientStands, RoomStands, inMesh
  <2>2. PromptsStand'
    BY <1>1, <1>2 DEF AsksInv, ClientStands, PromptsStand, PromptsFit
  <2> QED
    BY <2>1, <2>2 DEF ClientStands
<1>7. InvitesAgree'
  <2>1. InvitesFit(askOperation, askRoom, askTargets, srvAsks, coming' \cup {Arrival}, behind, going)
    BY <1>2 DEF AsksInv, Agreement, InvitesAgree
  <2>2. \A x \in coming' : x.type \in Ends => x.peer # Arrival.peer
    BY <1>2 DEF MayPrecede
  <2>4. \A x \in behind' : x \in coming'
    <3>1. OrderedDown(askDown')
      BY <1>4
    <3> QED
      BY DEF behind, coming, later, notes
  <2>3. InvitesFit(askOperation, askRoom, askTargets \ {Arrival.peer}, srvAsks, coming', behind', going)
    BY <1>2, <2>1, <2>2, <2>4, TargetOver
  <2> QED
    BY <1>1, <1>2, <1>3, <2>3 DEF InvitesAgree
<1>8. WantAgrees'
  BY <1>1, <1>5 DEF WantAgrees, WantFits
<1>9. RoomAgrees' /\ KnockAgrees' /\ PromptAgrees' /\ InviteAgrees'
  BY <1>1, <1>2, <1>3, Reading
     DEF Ends, RoomReplies, KnockNotes, Replies, PromptNotes, InviteNotes
<1> QED
  BY <1>3, <1>4, <1>6, <1>7, <1>8, <1>9 DEF AsksInv, Agreement

\* A reply about the room: nothing else about the room is under way.
LEMMA RoomReply ==
  ASSUME AsksInv, NEW T, Take(T), Arrival.type \in RoomReplies
  PROVE  /\ \A r \in going : r.type \notin RoomRequests
         /\ \A x \in coming' : x.type \notin RoomReplies
         /\ behind = coming
         /\ Arrival.type = "room.created" => askOperation = "recover-create" /\ srvRoom
         /\ Arrival.type = "room.refused" => askOperation = "recover-create" /\ ~srvRoom
         /\ Arrival.type = "room.joined" => askOperation = "joining" /\ srvRoom
         /\ Arrival.type = "join.refused" => askOperation = "joining" /\ ~srvRoom
         /\ Arrival.type = "room.left" => askOperation \in Leaves /\ ~srvRoom
<1>1. /\ coming = coming' \cup {Arrival} /\ \A x \in coming' : MayPrecede(Arrival, x)
      /\ behind = coming
  BY Taken
<1>2. RoomFits(askOperation, askRoom, srvRoom, coming, going)
  BY DEF AsksInv, Agreement, RoomAgrees
<1>3. Arrival \in coming
  BY <1>1
<1>4. \A r \in going : r.type \notin RoomRequests
  BY <1>2, <1>3 DEF RoomFits
<1>5. \A x \in coming' : x.type \notin RoomReplies
  BY <1>1 DEF MayPrecede
<1>6. /\ Arrival.type = "room.created" => askOperation = "recover-create" /\ srvRoom
      /\ Arrival.type = "room.refused" => askOperation = "recover-create" /\ ~srvRoom
      /\ Arrival.type = "room.joined" => askOperation = "joining" /\ srvRoom
      /\ Arrival.type = "join.refused" => askOperation = "joining" /\ ~srvRoom
      /\ Arrival.type = "room.left" => askOperation \in Leaves /\ ~srvRoom
  BY <1>2, <1>3 DEF RoomFits
<1> QED
  BY <1>1, <1>4, <1>5, <1>6

\* With nothing under way about the room, the client and the server agree about it.
LEMMA RoomSettled ==
  ASSUME NEW room, NEW there, NEW M, NEW R, there = room,
         \A r \in R : r.type \notin RoomRequests, \A x \in M : x.type \notin RoomReplies
  PROVE  RoomFits("", room, there, M, R)
  BY DEF RoomFits, RoomRequests, RoomReplies, Leaves

\* Without a room there are no invitations, unless it is being left.
LEMMA NobodyInvited ==
  ASSUME AsksInv, ~askRoom, askOperation \notin Leaves, behind = coming
  PROVE  /\ \A k \in srvAsks : ~(k.kind = "contact" /\ k.mine)
         /\ \A r \in going : r.type # "contact.invite"
         /\ \A x \in coming : x.type \notin Ends
  BY DEF AsksInv, Agreement, InvitesAgree, InvitesFit

\* handleRecoveryFailure: who waited for the room is no longer taken to be asked.
LEMMA RoomRefusedKeeps ==
  ASSUME AsksInv, HandleRoomRefused
  PROVE  AsksInv'
<1>1. /\ Take({"room.refused"}) /\ askOperation' = "" /\ askWanted' = FALSE /\ askTargets' \subseteq askTargets
      /\ UNCHANGED <<askMesh, askKnock, askInKnock, askInvite, askRoom, askServerMesh, askUp>>
  BY DEF HandleRoomRefused, promptVars
<1>0. Arrival.type \in {"room.refused"}
  BY <1>1, Taken
<1>2. /\ Arrival.type = "room.refused" /\ UNCHANGED <<srvRoom, srvAsks, askIds>>
      /\ coming = coming' \cup {Arrival} /\ behind' \subseteq behind
  BY <1>0, <1>1, Taken
<1>3. /\ \A r \in going : r.type \notin RoomRequests
      /\ \A x \in coming' : x.type \notin RoomReplies
      /\ behind = coming /\ askOperation = "recover-create" /\ ~srvRoom
  BY <1>1, <1>2, RoomReply DEF RoomReplies
<1>4. ~askRoom /\ askOperation \notin Leaves
  BY <1>3, Standing DEF Leaves
<1>5. /\ \A k \in srvAsks : ~(k.kind = "contact" /\ k.mine)
      /\ \A r \in going : r.type # "contact.invite"
      /\ \A x \in coming : x.type \notin Ends
  BY <1>3, <1>4, NobodyInvited
<1>6. /\ going' = going /\ OrderedUp(askUp')
      /\ \A r \in going' : RequestTyped(r, askIds)
      /\ \A S : Alike(going, going', S)
  BY <1>1, NothingAsked
<1>7. Typed' /\ ServerKnows' /\ OrderedDown(askDown')
  BY <1>1, <1>6, ReadTyped
<1>8. ClientStands'
  <2>1. RoomStands'
    BY <1>1, <1>4 DEF AsksInv, ClientStands, RoomStands, inMesh, Operations, Leaves
  <2>2. PromptsStand'
    BY <1>1, <1>2 DEF AsksInv, ClientStands, PromptsStand, PromptsFit
  <2> QED
    BY <2>1, <2>2 DEF ClientStands
<1>9. RoomAgrees'
  <2>1. srvRoom = askRoom
    BY <1>3, <1>4, Standing DEF AsksInv, ServerKnows
  <2>2. RoomFits("", askRoom, srvRoom, coming', going)
    BY <1>3, <2>1, RoomSettled
  <2> QED
    BY <1>1, <1>2, <1>6, <2>2 DEF RoomAgrees
<1>10. InvitesAgree'
  BY <1>1, <1>2, <1>3, <1>5, <1>6 DEF InvitesAgree, InvitesFit
<1>11. WantAgrees'
  BY <1>1 DEF WantAgrees, WantFits
<1>12. KnockAgrees' /\ PromptAgrees' /\ InviteAgrees'
  BY <1>1, <1>2, <1>6, Reading
     DEF KnockNotes, Replies, PromptNotes, InviteNotes
<1> QED
  BY <1>6, <1>7, <1>8, <1>9, <1>10, <1>11, <1>12 DEF AsksInv, Agreement

\* The response to room.leave keeps the agreement.
LEMMA RoomLeftKeeps ==
  ASSUME AsksInv, HandleRoomLeft
  PROVE  AsksInv'
<1>1. /\ Take({"room.left"}) /\ askOperation' = ""
      /\ UNCHANGED <<askMesh, askKnock, askInKnock, askInvite, askTarget, askTargets, askWanted,
                     askRoom, askServerMesh, askUp>>
  BY DEF HandleRoomLeft, promptVars
<1>0. Arrival.type \in {"room.left"}
  BY <1>1, Taken
<1>2. /\ Arrival.type = "room.left" /\ UNCHANGED <<srvRoom, srvAsks, askIds>>
      /\ coming = coming' \cup {Arrival} /\ \A x \in behind' : x.type \notin Ends
  BY <1>0, <1>1, Taken
<1>3. /\ \A r \in going : r.type \notin RoomRequests
      /\ \A x \in coming' : x.type \notin RoomReplies
      /\ askOperation \in Leaves /\ ~srvRoom
  BY <1>1, <1>2, RoomReply DEF RoomReplies
<1>4. ~askRoom
  BY <1>3, Standing DEF Leaves
<1>5. /\ going' = going /\ OrderedUp(askUp')
      /\ \A r \in going' : RequestTyped(r, askIds)
      /\ \A S : Alike(going, going', S)
  BY <1>1, NothingAsked
<1>6. Typed' /\ ServerKnows' /\ OrderedDown(askDown')
  BY <1>1, <1>5, ReadTyped
<1>7. ClientStands'
  <2>1. RoomStands'
    BY <1>1 DEF AsksInv, ClientStands, RoomStands, inMesh, Operations, Leaves
  <2>2. PromptsStand'
    BY <1>1, <1>2 DEF AsksInv, ClientStands, PromptsStand, PromptsFit
  <2> QED
    BY <2>1, <2>2 DEF ClientStands
<1>8. RoomAgrees'
  <2>1. srvRoom = askRoom
    BY <1>3, <1>4, Standing DEF AsksInv, ServerKnows
  <2>2. RoomFits("", askRoom, srvRoom, coming', going)
    BY <1>3, <2>1, RoomSettled
  <2> QED
    BY <1>1, <1>2, <1>5, <2>2 DEF RoomAgrees
<1>9. InvitesAgree'
  <2>1. \A k \in srvAsks : ~(k.kind = "contact" /\ k.mine)
    BY <1>3 DEF AsksInv, ServerKnows
  <2>2. \A r \in going : r.type # "contact.invite"
    BY <1>2 DEF AsksInv, Agreement, InvitesAgree, InvitesFit
  <2> QED
    BY <1>2, <1>5, <2>1, <2>2 DEF InvitesAgree, InvitesFit
<1>10. KnockAgrees' /\ PromptAgrees' /\ InviteAgrees' /\ WantAgrees'
  BY <1>1, <1>2, <1>5, Reading
     DEF KnockNotes, Replies, PromptNotes, InviteNotes
<1> QED
  BY <1>5, <1>6, <1>7, <1>8, <1>9, <1>10 DEF AsksInv, Agreement

\* A join that is refused rolls the mesh back.
LEMMA JoinRefusedKeeps ==
  ASSUME AsksInv, HandleJoinRefused
  PROVE  AsksInv'
<1>1. /\ Take({"join.refused"}) /\ askOperation' = "" /\ askServerMesh' = FALSE /\ askMesh' = NoMesh
      /\ askInKnock' = NoValue /\ askTarget' = NoValue /\ askTargets' = {}
      /\ UNCHANGED <<askKnock, askInvite, askWanted, askRoom, askUp>>
  BY DEF HandleJoinRefused, leaveServerRoom
<1>0. Arrival.type \in {"join.refused"}
  BY <1>1, Taken
<1>2. /\ Arrival.type = "join.refused" /\ UNCHANGED <<srvRoom, srvAsks, askIds>>
      /\ coming = coming' \cup {Arrival} /\ behind' \subseteq behind
  BY <1>0, <1>1, Taken
<1>3. /\ \A r \in going : r.type \notin RoomRequests
      /\ \A x \in coming' : x.type \notin RoomReplies
      /\ behind = coming /\ askOperation = "joining" /\ ~srvRoom
  BY <1>1, <1>2, RoomReply DEF RoomReplies
<1>4. ~askRoom /\ ~askWanted /\ askInKnock = NoValue /\ askOperation \notin Leaves
  BY <1>3, Standing, Shown DEF Leaves
<1>5. /\ \A k \in srvAsks : ~(k.kind = "contact" /\ k.mine)
      /\ \A r \in going : r.type # "contact.invite"
      /\ \A x \in coming : x.type \notin Ends
  BY <1>3, <1>4, NobodyInvited
<1>6. /\ going' = going /\ OrderedUp(askUp')
      /\ \A r \in going' : RequestTyped(r, askIds)
      /\ \A S : Alike(going, going', S)
  BY <1>1, NothingAsked
<1>7. Typed' /\ ServerKnows' /\ OrderedDown(askDown')
  BY <1>1, <1>6, ReadTyped
<1>8. ClientStands'
  <2>1. RoomStands'
    BY <1>1, <1>4 DEF AsksInv, ClientStands, RoomStands, inMesh, Operations, Leaves
  <2>2. PromptsStand'
    BY <1>1, <1>2 DEF AsksInv, ClientStands, PromptsStand, PromptsFit
  <2> QED
    BY <2>1, <2>2 DEF ClientStands
<1>9. RoomAgrees'
  <2>1. srvRoom = askRoom
    BY <1>3, <1>4, Standing DEF AsksInv, ServerKnows
  <2>2. RoomFits("", askRoom, srvRoom, coming', going)
    BY <1>3, <2>1, RoomSettled
  <2> QED
    BY <1>1, <1>2, <1>6, <2>2 DEF RoomAgrees
<1>10. InvitesAgree'
  BY <1>1, <1>2, <1>3, <1>5, <1>6 DEF InvitesAgree, InvitesFit
<1>11. WantAgrees'
  BY <1>1, <1>4 DEF WantAgrees, WantFits
<1>12. KnockAgrees' /\ PromptAgrees' /\ InviteAgrees'
  BY <1>1, <1>2, <1>4, <1>6, Reading
     DEF KnockNotes, Replies, PromptNotes, InviteNotes
<1> QED
  BY <1>6, <1>7, <1>8, <1>9, <1>10, <1>11, <1>12 DEF AsksInv, Agreement

\* handleRecoveryResponse and handleServerResponse: the ask that waited for the room goes out or is given up.
LEMMA RoomReadyKeeps ==
  ASSUME AsksInv, HandleRoomReady
  PROVE  AsksInv'
<1>1. /\ Take({"room.created", "room.joined"}) /\ askRoom' = TRUE /\ askOperation' = ""
      /\ UNCHANGED <<askMesh, askKnock, askInKnock, askInvite, askServerMesh>>
      /\ \/ ~askWanted /\ UNCHANGED <<askTarget, askWanted, askTargets, askUp>>
         \/ /\ askWanted /\ askWanted' = FALSE
            /\ \/ (\E peer \in {askTarget} : Submits(Submission(peer))) /\ UNCHANGED askTargets
               \/ askTargets' = askTargets \ {askTarget} /\ UNCHANGED askUp
  BY DEF HandleRoomReady, promptVars
<1>2. /\ Arrival.type \in {"room.created", "room.joined"} /\ UNCHANGED <<srvRoom, srvAsks, askIds>>
      /\ coming = coming' \cup {Arrival} /\ behind' \subseteq behind
      /\ \A S : Arrival.type \notin S => Alike(coming, coming', S)
  BY <1>1, Taken
<1>3. /\ \A r \in going : r.type \notin RoomRequests
      /\ \A x \in coming' : x.type \notin RoomReplies
      /\ behind = coming /\ askOperation \in {"recover-create", "joining"} /\ srvRoom
  BY <1>1, <1>2, RoomReply DEF RoomReplies
<1>4. ~askRoom /\ askServerMesh /\ askWanted' = FALSE /\ askOperation \notin Leaves /\ askTargets' \subseteq askTargets
  BY <1>1, <1>3, Standing DEF Leaves
<1>5. /\ \A k \in srvAsks : ~(k.kind = "contact" /\ k.mine)
      /\ \A r \in going : r.type # "contact.invite"
      /\ \A x \in coming : x.type \notin Ends
  BY <1>3, <1>4, NobodyInvited
<1>6. ClientStands'
  <2>1. RoomStands'
    BY <1>1, <1>4 DEF AsksInv, ClientStands, RoomStands, inMesh, Operations, Leaves
  <2>2. PromptsStand'
    BY <1>1, <1>2 DEF AsksInv, ClientStands, PromptsStand, PromptsFit
  <2> QED
    BY <2>1, <2>2 DEF ClientStands
<1>7. srvRoom' = askRoom'
  BY <1>1, <1>2, <1>3 DEF AsksInv, ServerKnows
<1>8. WantAgrees'
  BY <1>4 DEF WantAgrees, WantFits
<1>9. CASE UNCHANGED askUp
  <2>1. /\ going' = going /\ OrderedUp(askUp')
        /\ \A r \in going' : RequestTyped(r, askIds)
        /\ \A S : Alike(going, going', S)
    BY <1>9, NothingAsked
  <2>2. Typed' /\ ServerKnows' /\ OrderedDown(askDown')
    BY <1>1, <2>1, ReadTyped
  <2>3. RoomAgrees'
    <3>1. RoomFits("", askRoom', srvRoom', coming', going')
      BY <1>3, <1>7, <2>1, RoomSettled
    <3> QED
      BY <1>1, <3>1 DEF RoomAgrees
  <2>4. InvitesAgree'
    BY <1>1, <1>2, <1>3, <1>5, <2>1 DEF InvitesAgree, InvitesFit
  <2>5. KnockAgrees' /\ PromptAgrees' /\ InviteAgrees'
    BY <1>1, <1>2, <2>1, Reading
       DEF KnockNotes, Replies, PromptNotes, InviteNotes
  <2> QED
    BY <1>6, <1>8, <2>1, <2>2, <2>3, <2>4, <2>5 DEF AsksInv, Agreement
<1>10. ASSUME askWanted, NEW peer \in {askTarget}, Submits(Submission(peer)), UNCHANGED askTargets
       PROVE  AsksInv'
  <2>1. PICK x : /\ Submits(<<x>>)
                 /\ \/ Accepts(peer)' /\ x.type = "knock.respond" /\ x.id = askInKnock'.id /\ x.accept = TRUE
                    \/ ~Accepts(peer)' /\ x.type = "contact.invite" /\ x.peer = peer
    BY <1>10, SubmissionIs
  <2>2. peer \in Friends /\ (x.type = "contact.invite" => peer \in askTargets)
    <3>1. WantFits(askWanted, askTarget, askTargets, askInKnock, coming, going)
      BY DEF AsksInv, Agreement, WantAgrees
    <3> QED
      BY <1>1, <1>10, <2>1, <3>1, Standing DEF WantFits, Accepts
  <2>3. x.type = "knock.respond" => x.id \in 1 .. askIds /\ askInKnock # NoValue /\ askInKnock.accepting /\ askInKnock.id = x.id
    BY <1>1, <2>1, Shown DEF Accepts
  <2>4. /\ OrderedUp(askUp') /\ going' = going \cup {x}
        /\ \A r \in going' : RequestTyped(r, askIds)
        /\ \A S : x.type \notin S => Alike(going, going', S)
    <3>1. RequestTyped(x, askIds)
      BY <2>1, <2>2, <2>3 DEF RequestTyped
    <3>2. \A r \in going : MayBeAskedBefore(r, x)
      BY <1>3, <1>5, <2>1 DEF MayBeAskedBefore, RoomRequests
    <3> QED
      BY <2>1, <3>1, <3>2, Asking
  <2>5. Typed' /\ ServerKnows' /\ OrderedDown(askDown')
    BY <1>1, <2>4, ReadTyped
  <2>6. RoomAgrees'
    <3>1. \A r \in going' : r.type \notin RoomRequests
      BY <1>3, <2>1, <2>4 DEF RoomRequests
    <3>2. RoomFits("", askRoom', srvRoom', coming', going')
      BY <1>3, <1>7, <3>1, RoomSettled
    <3> QED
      BY <1>1, <3>2 DEF RoomAgrees
  <2>7. InvitesAgree'
    <3>1. \A r \in going' : r.type = "contact.invite" => r.peer \in askTargets'
      BY <1>5, <1>10, <2>1, <2>2, <2>4
    <3>2. /\ \A y \in coming' : y.type \notin Ends /\ y.type # "room.left"
          /\ \A y \in behind' : y.type \notin Ends
      BY <1>2, <1>3, <1>5 DEF RoomReplies
    <3> QED
      BY <1>1, <1>2, <1>5, <3>1, <3>2 DEF InvitesAgree, InvitesFit, Over
  <2>8. PromptAgrees'
    <3>1. CASE x.type = "contact.invite"
      <4>1. Alike(going, going', PromptRequests)
        BY <2>4, <3>1 DEF PromptRequests
      <4> QED
        BY <1>1, <1>2, <4>1, Reading DEF PromptNotes
    <3>2. CASE x.type = "knock.respond"
      <4>1. PromptFits(askInKnock, srvAsks, coming, going)
        BY DEF AsksInv, Agreement, PromptAgrees
      <4>2. PromptFits(askInKnock, srvAsks, coming, going')
        BY <2>3, <2>4, <3>2, <4>1, PromptAnswered
      <4>3. Alike(coming, coming', PromptNotes)
        BY <1>2 DEF PromptNotes
      <4>4. PromptFits(askInKnock, srvAsks, coming', going')
        BY <4>2, <4>3, PromptKept, AsksAlike
      <4> QED
        BY <1>1, <1>2, <4>4 DEF PromptAgrees
    <3> QED
      BY <2>1, <3>1, <3>2
  <2>9. KnockAgrees' /\ InviteAgrees'
    <3>1. Alike(going, going', {"knock.request"}) /\ Alike(going, going', {"contact.respond"})
      BY <2>1, <2>4
    <3> QED
      BY <1>1, <1>2, <3>1, Reading DEF KnockNotes, Replies, InviteNotes
  <2> QED
    BY <1>6, <1>8, <2>4, <2>5, <2>6, <2>7, <2>8, <2>9 DEF AsksInv, Agreement
<1> QED
  BY <1>1, <1>9, <1>10

Kinded(A, n) == (\A k \in A : AskTyped(k, n)) /\ (\A k, l \in A : k.id = l.id => k = l)

\* What finish and finishKnock report of an ask.
LEMMA EndedIs ==
  ASSUME NEW k, NEW n, AskTyped(k, n)
  PROVE  /\ Ended(k).id = k.id /\ Ended(k).peer = k.peer
         /\ k.kind \in {"knock", "contact"} /\ k.mine \in BOOLEAN /\ k.id \in 1 .. n /\ k.peer \in Friends
         /\ Ended(k).type \in {"knock.result", "contact.result", "knock.closed", "contact.closed"}
         /\ Ended(k).type = "knock.result" <=> (k.kind = "knock" /\ k.mine)
         /\ Ended(k).type = "knock.closed" <=> (k.kind = "knock" /\ ~k.mine)
         /\ Ended(k).type = "contact.result" <=> (k.kind = "contact" /\ k.mine)
         /\ Ended(k).type = "contact.closed" <=> (k.kind = "contact" /\ ~k.mine)
<1>1. k.kind \in {"knock", "contact"} /\ k.mine \in BOOLEAN /\ k.id \in 1 .. n /\ k.peer \in Friends
  BY DEF AskTyped
<1>2. /\ Ended(k).id = k.id /\ Ended(k).peer = k.peer
      /\ Ended(k).type = IF k.mine THEN By(k.kind, "knock.result", "contact.result")
                                   ELSE By(k.kind, "knock.closed", "contact.closed")
  BY DEF Ended
<1> QED
  BY <1>1, <1>2 DEF By

\* What is told of when the asks of E end, in Z, where X is what is told besides.
Reports(E, N, X, Z) == Z = N \cup {Ended(k) : k \in E} \cup X

\* All that is told once asks have ended.
LEMMA ReportsOf ==
  ASSUME NEW A, NEW n, Kinded(A, n), NEW E, E \subseteq A, NEW N, NEW X, NEW Z, Reports(E, N, X, Z)
  PROVE  /\ N \subseteq Z /\ X \subseteq Z
         /\ \A z \in Z : z \in N \/ z \in X \/ z.type \in {"knock.result", "contact.result", "knock.closed", "contact.closed"}
         /\ \A z \in Z : z \in N \/ z \in X \/ (\E k \in E : z = Ended(k))
         /\ \A k \in E : Ended(k) \in Z
<1>1. \A k \in E : Ended(k).type \in {"knock.result", "contact.result", "knock.closed", "contact.closed"}
  BY EndedIs DEF Kinded
<1> QED
  BY <1>1 DEF Reports

\* What is told of an ask that has not ended was told before or besides.
LEMMA ToldOf ==
  ASSUME NEW A, NEW n, Kinded(A, n), NEW E, E \subseteq A, NEW N, NEW X, NEW Z, Reports(E, N, X, Z)
  PROVE  /\ \A t, i : Told(N, t, i) \/ Told(X, t, i) => Told(Z, t, i)
         /\ \A t, i : Told(Z, t, i) =>
              Told(N, t, i) \/ Told(X, t, i) \/ (\E k \in E : Ended(k).type = t /\ k.id = i)
         /\ \A k \in E : Told(Z, Ended(k).type, k.id)
         /\ \A t : \A k \in A \ E : Told(Z, t, k.id) => Told(N, t, k.id) \/ Told(X, t, k.id)
<1>1. /\ N \subseteq Z /\ X \subseteq Z
      /\ \A z \in Z : z \in N \/ z \in X \/ (\E k \in E : z = Ended(k))
      /\ \A k \in E : Ended(k) \in Z
  BY ReportsOf
<1>2. \A k \in E : Ended(k).id = k.id
  BY EndedIs DEF Kinded
<1>3. \A t, i : Told(Z, t, i) =>
        Told(N, t, i) \/ Told(X, t, i) \/ (\E k \in E : Ended(k).type = t /\ k.id = i)
  BY <1>1, <1>2 DEF Told
<1>4. \A k \in A \ E : \A l \in E : l.id # k.id
  BY DEF Kinded
<1>5. \A t, i : Told(N, t, i) \/ Told(X, t, i) => Told(Z, t, i)
  BY <1>1 DEF Told
<1>6. \A k \in E : Told(Z, Ended(k).type, k.id)
  BY <1>1, <1>2 DEF Told
<1> QED
  BY <1>3, <1>4, <1>5, <1>6

\* The agreement about the user's knock once asks end.
LEMMA KnockEnds ==
  ASSUME NEW A, NEW n, Kinded(A, n), NEW E, E \subseteq A, NEW N, NEW X, NEW Z, Reports(E, N, X, Z),
         NEW knock, NEW Q, NEW R, R \subseteq Q, KnockFits(knock, A, n, N, Q),
         \A r \in Q : r.type = "knock.request" => r \in R,
         \A x \in X : x.type \notin Replies \cup {"knock.result"},
         \A x \in X : x.type = "knock.accepted" => \E k \in E : k.id = x.id
  PROVE  KnockFits(knock, A \ E, n, Z, R)
<1>1. /\ \A z \in Z : z \in N \/ z \in X \/ z.type \in {"knock.result", "contact.result", "knock.closed", "contact.closed"}
  BY ReportsOf
<1>2. \A z \in Z : z.type \in Replies => z \in N
  BY <1>1 DEF Replies
<1>3. /\ \A i : Told(N, "knock.requested", i) => Told(Z, "knock.requested", i)
      /\ \A i : Told(N, "knock.result", i) => Told(Z, "knock.result", i)
      /\ \A k \in E : Told(Z, Ended(k).type, k.id)
  BY ToldOf
<1>4. \A k \in A : k.kind = "knock" /\ k.mine => Ended(k).type = "knock.result"
  BY EndedIs DEF Kinded
<1>5. \A i : (\E k \in A : k.kind = "knock" /\ k.mine /\ k.id = i) \/ Told(N, "knock.result", i) =>
             (\E k \in A \ E : k.kind = "knock" /\ k.mine /\ k.id = i) \/ Told(Z, "knock.result", i)
  BY <1>3, <1>4
<1>6. ASSUME NEW k \in A \ E PROVE /\ Told(Z, "knock.result", k.id) => Told(N, "knock.result", k.id)
                                   /\ Told(Z, "knock.accepted", k.id) => Told(N, "knock.accepted", k.id)
  <2>1. ~Told(X, "knock.result", k.id)
    BY DEF Told
  <2>2. ~Told(X, "knock.accepted", k.id)
    BY DEF Told, Kinded
  <2>3. \A t : \A l \in A \ E : Told(Z, t, l.id) => Told(N, t, l.id) \/ Told(X, t, l.id)
    BY ToldOf
  <2>4. \A t : Told(Z, t, k.id) => Told(N, t, k.id) \/ Told(X, t, k.id)
    BY <2>3
  <2> QED
    BY <2>1, <2>2, <2>4
<1>7. knock = NoKnock \/ knock \in [peer : Friends, id : 0 .. n]
  BY DEF KnockFits
<1>8. \A r \in R : r.type = "knock.request" =>
       /\ knock = [peer |-> r.peer, id |-> 0]
       /\ \A x \in Z : x.type \notin Replies
       /\ \A k \in A \ E : ~(k.kind = "knock" /\ k.mine)
  BY <1>2 DEF KnockFits
<1>9. /\ \A x \in Z : x.type \in Replies => knock # NoKnock /\ knock.id = 0
      /\ \A x \in Z : x.type = "knock.refused" => \A k \in A \ E : ~(k.kind = "knock" /\ k.mine)
  BY <1>2 DEF KnockFits, Replies
<1>10. \A x \in Z : x.type = "knock.requested" =>
       \/ \E k \in A \ E : k.kind = "knock" /\ k.mine /\ k.id = x.id
       \/ Told(Z, "knock.result", x.id)
  BY <1>2, <1>5 DEF KnockFits, Replies
<1>11. knock.id # 0 =>
       \/ \E k \in A \ E : k.kind = "knock" /\ k.mine /\ k.id = knock.id
       \/ Told(Z, "knock.result", knock.id)
  BY <1>5 DEF KnockFits
<1>12. \A k \in A \ E : k.kind = "knock" /\ k.mine =>
       /\ knock # NoKnock /\ knock.peer = k.peer
       /\ knock.id = k.id \/ (knock.id = 0 /\ Told(Z, "knock.requested", k.id))
       /\ ~Told(Z, "knock.result", k.id) /\ ~Told(Z, "knock.accepted", k.id)
  BY <1>3, <1>6 DEF KnockFits
<1>13. knock # NoKnock /\ knock.id = 0 =>
         (\E r \in R : r.type = "knock.request") \/ (\E x \in Z : x.type \in Replies)
  <2>1. N \subseteq Z
    BY ReportsOf
  <2> QED
    BY <2>1 DEF KnockFits
<1> QED
  BY <1>7, <1>8, <1>9, <1>10, <1>11, <1>12, <1>13 DEF KnockFits

\* The agreement about the knock of a friend once asks end and a request H is served.
LEMMA PromptEnds ==
  ASSUME NEW A, NEW n, Kinded(A, n), NEW E, E \subseteq A, NEW N, NEW X, NEW Z, Reports(E, N, X, Z),
         NEW prompt, NEW Q, NEW R, NEW H, Q = R \cup H, PromptFits(prompt, A, N, Q),
         \A k \in A \ E : k.kind = "knock" /\ ~k.mine =>
         \A h \in H : ~(h.type = "knock.respond" /\ h.id = k.id) /\ ~(h.type = "mesh.leave" /\ h.mesh = k.mesh),
         \A x \in X : x.type \notin {"knock.invitation", "knock.closed"},
         \A x \in X : x.type = "knock.failed" => Sent(H, "knock.respond", x.id)
  PROVE  PromptFits(prompt, A \ E, Z, R)
<1>1. /\ N \subseteq Z
      /\ \A z \in Z : z \in N \/ z \in X \/ z.type \in {"knock.result", "contact.result", "knock.closed", "contact.closed"}
  BY ReportsOf
<1>2. \A z \in Z : z.type = "knock.invitation" => z \in N
  BY <1>1
<1>3. /\ \A i : Told(N, "knock.closed", i) => Told(Z, "knock.closed", i)
      /\ \A k \in E : Told(Z, Ended(k).type, k.id)
  BY ToldOf
<1>4. \A k \in A : k.kind = "knock" /\ ~k.mine => Ended(k).type = "knock.closed"
  BY EndedIs DEF Kinded
<1>5. \A i, p : (\E k \in A : k.kind = "knock" /\ ~k.mine /\ k.id = i /\ k.peer = p) \/ Told(N, "knock.closed", i) =>
                (\E k \in A \ E : k.kind = "knock" /\ ~k.mine /\ k.id = i /\ k.peer = p) \/ Told(Z, "knock.closed", i)
  BY <1>3, <1>4
<1>6. \A i : Told(X, "knock.failed", i) => Sent(Q, "knock.respond", i)
  BY DEF Told, Sent
<1>7. \A i : Told(Z, "knock.failed", i) => Told(N, "knock.failed", i) \/ Sent(Q, "knock.respond", i)
  <2>1. \A k \in E : Ended(k).type # "knock.failed"
    BY EndedIs DEF Kinded
  <2>2. \A z \in Z : z \in N \/ z \in X \/ (\E k \in E : z = Ended(k))
    BY ReportsOf
  <2>3. \A i : Told(Z, "knock.failed", i) => Told(N, "knock.failed", i) \/ Told(X, "knock.failed", i)
    BY <2>1, <2>2 DEF Told
  <2> QED
    BY <1>6, <2>3
<1>8. \A i : Sent(R, "knock.respond", i) => Sent(Q, "knock.respond", i)
  BY DEF Sent
<1>9. ASSUME NEW k \in A \ E, k.kind = "knock", ~k.mine
      PROVE
       /\ \/ \E x \in Z : x.type = "knock.invitation" /\ x.id = k.id /\ x.peer = k.peer /\ x.mesh = k.mesh
          \/ prompt # NoValue /\ prompt.id = k.id /\ prompt.from = k.peer /\ prompt.mesh = k.mesh
          \/ Sent(R, "knock.respond", k.id)
          \/ \E r \in R : r.type = "mesh.leave" /\ r.mesh = k.mesh
       /\ ~Told(Z, "knock.closed", k.id) /\ ~Told(Z, "knock.failed", k.id)
  <2>1. /\ \/ \E x \in N : x.type = "knock.invitation" /\ x.id = k.id /\ x.peer = k.peer /\ x.mesh = k.mesh
           \/ prompt # NoValue /\ prompt.id = k.id /\ prompt.from = k.peer /\ prompt.mesh = k.mesh
           \/ Sent(Q, "knock.respond", k.id)
           \/ \E r \in Q : r.type = "mesh.leave" /\ r.mesh = k.mesh
        /\ ~Told(N, "knock.closed", k.id) /\ ~Told(N, "knock.failed", k.id)
    BY <1>9 DEF PromptFits
  <2>2. Sent(Q, "knock.respond", k.id) => Sent(R, "knock.respond", k.id)
    BY <1>9 DEF Sent
  <2>3. (\E r \in Q : r.type = "mesh.leave" /\ r.mesh = k.mesh) => \E r \in R : r.type = "mesh.leave" /\ r.mesh = k.mesh
    BY <1>9
  <2>4. ~Told(X, "knock.closed", k.id) /\ ~Told(X, "knock.failed", k.id)
    BY <1>9 DEF Told, Sent
  <2>6. \A t : \A l \in A \ E : Told(Z, t, l.id) => Told(N, t, l.id) \/ Told(X, t, l.id)
    BY ToldOf
  <2>5. ~Told(Z, "knock.closed", k.id) /\ ~Told(Z, "knock.failed", k.id)
    BY <2>1, <2>4, <2>6
  <2> QED
    BY <1>1, <2>1, <2>2, <2>3, <2>5
<1>10. prompt # NoValue =>
       /\ \/ \E k \in A \ E : k.kind = "knock" /\ ~k.mine /\ k.id = prompt.id /\ k.peer = prompt.from
          \/ Told(Z, "knock.closed", prompt.id)
       /\ ~prompt.accepting =>
            ~Sent(R, "knock.respond", prompt.id) /\ ~Told(Z, "knock.failed", prompt.id)
  BY <1>5, <1>7, <1>8 DEF PromptFits
<1>11. \A x \in Z : x.type = "knock.invitation" =>
       /\ \/ \E k \in A \ E : k.kind = "knock" /\ ~k.mine /\ k.id = x.id /\ k.peer = x.peer
          \/ Told(Z, "knock.closed", x.id)
       /\ ~Sent(R, "knock.respond", x.id) /\ ~Told(Z, "knock.failed", x.id)
       /\ prompt # NoValue => prompt.id # x.id
  <2> SUFFICES ASSUME NEW x \in Z, x.type = "knock.invitation"
               PROVE  /\ \/ \E k \in A \ E : k.kind = "knock" /\ ~k.mine /\ k.id = x.id /\ k.peer = x.peer
                         \/ Told(Z, "knock.closed", x.id)
                      /\ ~Sent(R, "knock.respond", x.id) /\ ~Told(Z, "knock.failed", x.id)
                      /\ prompt # NoValue => prompt.id # x.id
    OBVIOUS
  <2>1. x \in N
    BY <1>2
  <2>2. /\ \/ \E k \in A : k.kind = "knock" /\ ~k.mine /\ k.id = x.id /\ k.peer = x.peer
           \/ Told(N, "knock.closed", x.id)
        /\ ~Sent(Q, "knock.respond", x.id) /\ ~Told(N, "knock.failed", x.id)
        /\ prompt # NoValue => prompt.id # x.id
    BY <2>1 DEF PromptFits
  <2> QED
    BY <1>5, <1>7, <1>8, <2>2
<1> QED
  BY <1>9, <1>10, <1>11 DEF PromptFits

\* The agreement about the invitation by a friend once asks end and a request H is served.
LEMMA InviteEnds ==
  ASSUME NEW A, NEW n, Kinded(A, n), NEW E, E \subseteq A, NEW N, NEW X, NEW Z, Reports(E, N, X, Z),
         NEW invite, NEW Q, NEW R, NEW H, Q = R \cup H, InviteFits(invite, A, N, Q),
         \A k \in A \ E : k.kind = "contact" /\ ~k.mine => ~Sent(H, "contact.respond", k.id),
         \A x \in X : x.type \notin {"contact.invitation", "contact.closed"},
         \A x \in X : x.type = "contact.failed" => Sent(H, "contact.respond", x.id),
         \A x \in X : x.type = "contact.accepted" => \E k \in E : k.id = x.id
  PROVE  InviteFits(invite, A \ E, Z, R)
<1>1. /\ N \subseteq Z
      /\ \A z \in Z : z \in N \/ z \in X \/ z.type \in {"knock.result", "contact.result", "knock.closed", "contact.closed"}
  BY ReportsOf
<1>2. \A z \in Z : z.type = "contact.invitation" => z \in N
  BY <1>1
<1>3. /\ \A i : Told(N, "contact.closed", i) => Told(Z, "contact.closed", i)
      /\ \A k \in E : Told(Z, Ended(k).type, k.id)
  BY ToldOf
<1>4. \A k \in A : k.kind = "contact" /\ ~k.mine => Ended(k).type = "contact.closed"
  BY EndedIs DEF Kinded
<1>5. \A i, p : (\E k \in A : k.kind = "contact" /\ ~k.mine /\ k.id = i /\ k.peer = p) \/ Told(N, "contact.closed", i) =>
                (\E k \in A \ E : k.kind = "contact" /\ ~k.mine /\ k.id = i /\ k.peer = p) \/ Told(Z, "contact.closed", i)
  BY <1>3, <1>4
<1>6. ASSUME NEW k \in A \ E, k.kind = "contact", ~k.mine
      PROVE
       /\ \/ \E x \in Z : x.type = "contact.invitation" /\ x.id = k.id /\ x.peer = k.peer
          \/ invite # NoValue /\ invite.id = k.id /\ invite.from = k.peer
          \/ Sent(R, "contact.respond", k.id)
       /\ ~Told(Z, "contact.closed", k.id) /\ ~Told(Z, "contact.failed", k.id)
       /\ ~Told(Z, "contact.accepted", k.id)
  <2>1. /\ \/ \E x \in N : x.type = "contact.invitation" /\ x.id = k.id /\ x.peer = k.peer
           \/ invite # NoValue /\ invite.id = k.id /\ invite.from = k.peer
           \/ Sent(Q, "contact.respond", k.id)
        /\ ~Told(N, "contact.closed", k.id) /\ ~Told(N, "contact.failed", k.id)
        /\ ~Told(N, "contact.accepted", k.id)
    BY <1>6 DEF InviteFits
  <2>2. Sent(Q, "contact.respond", k.id) => Sent(R, "contact.respond", k.id)
    BY <1>6 DEF Sent
  <2>3. ~Told(X, "contact.closed", k.id) /\ ~Told(X, "contact.failed", k.id)
    BY <1>6 DEF Told
  <2>4. ~Told(X, "contact.accepted", k.id)
    BY DEF Told, Kinded
  <2>6. \A t : \A l \in A \ E : Told(Z, t, l.id) => Told(N, t, l.id) \/ Told(X, t, l.id)
    BY ToldOf
  <2>5. ~Told(Z, "contact.closed", k.id) /\ ~Told(Z, "contact.failed", k.id) /\ ~Told(Z, "contact.accepted", k.id)
    BY <2>1, <2>3, <2>4, <2>6
  <2> QED
    BY <1>1, <2>1, <2>2, <2>5
<1>7. invite # NoValue =>
       \/ \E k \in A \ E : k.kind = "contact" /\ ~k.mine /\ k.id = invite.id /\ k.peer = invite.from
       \/ Told(Z, "contact.closed", invite.id)
  <2>1. invite # NoValue =>
          \/ \E k \in A : k.kind = "contact" /\ ~k.mine /\ k.id = invite.id /\ k.peer = invite.from
          \/ Told(N, "contact.closed", invite.id)
    BY DEF InviteFits
  <2> QED
    BY <1>5, <2>1
<1>8. \A x \in Z : x.type = "contact.invitation" =>
       \/ \E k \in A \ E : k.kind = "contact" /\ ~k.mine /\ k.id = x.id /\ k.peer = x.peer
       \/ Told(Z, "contact.closed", x.id)
  BY <1>2, <1>5 DEF InviteFits
<1> QED
  BY <1>6, <1>7, <1>8 DEF InviteFits

\* The agreement about the user's invitations once asks end.
LEMMA InvitesEnd ==
  ASSUME NEW A, NEW n, Kinded(A, n), NEW E, E \subseteq A, NEW N, NEW X, NEW Z, Reports(E, N, X, Z),
         NEW op, NEW room, NEW targets, NEW L, NEW K, NEW Q, NEW R, R \subseteq Q,
         InvitesFit(op, room, targets, A, N, L, Q), K \subseteq L \cup X \cup {Ended(k) : k \in E},
         \A k, l \in A : k.kind = "contact" /\ l.kind = "contact" /\ k.mine /\ l.mine /\ k.peer = l.peer => k = l,
         \A x \in X : x.type \notin Ends,
         (\E x \in X : x.type = "room.left") => \A r \in R : r.type # "contact.invite"
  PROVE  InvitesFit(op, room, targets, A \ E, Z, K, R)
<1>1. /\ \A z \in Z : z \in N \/ z \in X \/ (\E k \in E : z = Ended(k))
      /\ \A z \in Z : z \in N \/ z \in X \/ z.type \in {"knock.result", "contact.result", "knock.closed", "contact.closed"}
  BY ReportsOf
<1>2. \A k \in E : Ended(k).peer = k.peer /\ (Ended(k).type \in Ends => k.kind = "contact" /\ k.mine)
  BY EndedIs DEF Kinded, Ends
<1>3. \A z \in Z : z.type \in Ends => z \in N \/ \E k \in E : z.peer = k.peer /\ k.kind = "contact" /\ k.mine
  BY <1>1, <1>2
<1>4. \A p : Over(Z, p) => Over(N, p) \/ \E k \in E : p = k.peer /\ k.kind = "contact" /\ k.mine
  BY <1>3 DEF Over
<1>5. ASSUME NEW k \in A \ E, k.kind = "contact", k.mine
      PROVE  /\ ~Over(Z, k.peer)
             /\ \A r \in R : ~(r.type = "contact.invite" /\ r.peer = k.peer)
             /\ op \notin Leaves => room /\ k.peer \in targets
  BY <1>4, <1>5 DEF InvitesFit
<1>6. ASSUME NEW r \in R, r.type = "contact.invite"
      PROVE  /\ ~Over(Z, r.peer)
             /\ op \notin Leaves => room /\ r.peer \in targets
             /\ \A x \in Z : x.type # "room.left"
  <2>1. \A k \in E : k.kind = "contact" /\ k.mine => k.peer # r.peer
    BY <1>6 DEF InvitesFit
  <2>2. \A x \in Z : x.type # "room.left"
    BY <1>1, <1>6 DEF InvitesFit
  <2> QED
    BY <1>4, <1>6, <2>1, <2>2 DEF InvitesFit
<1>7. op \notin Leaves => \A x \in K : x.type \in Ends => room /\ x.peer \in targets
  <2>1. \A x \in K : x.type \in Ends => x \in L \/ \E k \in E : x.peer = k.peer /\ k.kind = "contact" /\ k.mine
    BY <1>2
  <2> QED
    BY <2>1 DEF InvitesFit
<1> QED
  BY <1>5, <1>6, <1>7 DEF InvitesFit

\* What is agreed on while somebody waits for the room.
Waited(target, targets, prompt, N, Q) == WantFits(TRUE, target, targets, prompt, N, Q)

\* The agreement about who waits for the room once asks of friends end.
LEMMA WantEnds ==
  ASSUME NEW A, NEW n, Kinded(A, n), NEW E, E \subseteq A, NEW N, NEW X, NEW Z, Reports(E, N, X, Z),
         NEW target, NEW targets, NEW prompt, NEW Q, NEW R, R \subseteq Q,
         Waited(target, targets, prompt, N, Q),
         \A k \in E : ~(k.kind = "contact" /\ k.mine),
         \A x \in X : x.type \notin Ends,
         \A x \in X : x.type = "knock.failed" => Sent(Q, "knock.respond", x.id)
  PROVE  Waited(target, targets, prompt, Z, R)
<1>1. \A z \in Z : z \in N \/ z \in X \/ (\E k \in E : z = Ended(k))
  BY ReportsOf
<1>2. \A k \in E : (Ended(k).type \in Ends => k.kind = "contact" /\ k.mine) /\ Ended(k).type # "knock.failed"
  BY EndedIs DEF Kinded, Ends
<1>3. \A z \in Z : z.type \notin Ends
  BY <1>1, <1>2 DEF WantFits, Waited
<1>4. \A i : Told(Z, "knock.failed", i) => Told(N, "knock.failed", i) \/ Sent(Q, "knock.respond", i)
  BY <1>1, <1>2 DEF Told, Sent
<1>5. \A i : Sent(R, "knock.respond", i) => Sent(Q, "knock.respond", i)
  BY DEF Sent
<1> QED
  BY <1>3, <1>4, <1>5 DEF WantFits, Waited

\* Reports that tell of the end of every ask of E, of each once.
Tells(reports, E) ==
  /\ IsSeq(reports)
  /\ requests(reports) = {Ended(k) : k \in E}
  /\ \A i, j \in DOMAIN reports : i < j =>
       \E k, l \in E : k # l /\ reports[i] = Ended(k) /\ reports[j] = Ended(l)

\* At most one message, and the set of it.
Answers(answer, X) ==
  \/ answer = <<>> /\ X = {}
  \/ \E x : answer = <<x>> /\ X = {x}

\* No report tells of no ask, one report of one ask.
LEMMA TellsOf ==
  /\ Tells(<<>>, {})
  /\ \A k : Tells(<<Ended(k)>>, {k})
<1>1. Tells(<<>>, {})
  BY Short DEF Tells
<1>2. ASSUME NEW k PROVE Tells(<<Ended(k)>>, {k})
  <2>1. IsSeq(<<Ended(k)>>) /\ requests(<<Ended(k)>>) = {Ended(k)} /\ DOMAIN <<Ended(k)>> = {1}
    BY Short
  <2> QED
    BY <2>1 DEF Tells
<1> QED
  BY <1>1, <1>2

\* EndedAll reports each of the asks once, in some order.
LEMMA TellsAll ==
  ASSUME NEW E, IsFiniteSet(E), NEW reports \in EndedAll(E)
  PROVE  Tells(reports, E)
<1> DEFINE c == Cardinality(E)
<1>1. PICK order \in [1 .. c -> E] :
        /\ reports = [i \in 1 .. c |-> Ended(order[i])]
        /\ \A k \in E : \E i \in DOMAIN order : order[i] = k
        /\ \A i, j \in DOMAIN order : order[i] = order[j] => i = j
  BY DEF EndedAll
<1>2. c \in Nat
  BY FS_CardinalityType
<1> HIDE DEF c
<1>3. /\ DOMAIN reports = 1 .. c /\ \A i \in 1 .. c : reports[i] = Ended(order[i])
      /\ DOMAIN order = 1 .. c /\ \A i \in 1 .. c : order[i] \in E
  BY <1>1
<1>4. reports \in Seq({Ended(k) : k \in E})
  <2>1. reports \in [1 .. c -> {Ended(k) : k \in E}]
    BY <1>1
  <2> QED
    BY <1>2, <2>1
<1>5. requests(reports) = {Ended(k) : k \in E}
  BY <1>1, <1>3 DEF requests
<1>6. \A i, j \in DOMAIN reports : i < j =>
        \E k, l \in E : k # l /\ reports[i] = Ended(k) /\ reports[j] = Ended(l)
  BY <1>1, <1>2, <1>3
<1> QED
  BY <1>4, <1>5, <1>6 DEF Tells, IsSeq

\* An answer is at most one message.
LEMMA AnswersOf ==
  ASSUME NEW answer, NEW X, Answers(answer, X)
  PROVE  /\ IsSeq(answer) /\ requests(answer) = X
         /\ DOMAIN answer \subseteq {1}
<1>1. CASE answer = <<>> /\ X = {}
  BY <1>1, Short
<1>2. ASSUME NEW x, answer = <<x>>, X = {x} PROVE IsSeq(answer) /\ requests(answer) = X /\ DOMAIN answer \subseteq {1}
  BY <1>2, Short
<1> QED
  BY <1>1, <1>2 DEF Answers

\* An ask of the server's ends after whatever is under way.
LEMMA EndedFollows ==
  ASSUME AsksInv, NEW k \in srvAsks
  PROVE  /\ \A x \in coming : MayPrecede(x, Ended(k))
         /\ (\E x \in coming : x.type = "room.left") => Ended(k).type \notin Ends
<1>1. AskTyped(k, askIds)
  BY DEF AsksInv, Typed
<1>2. /\ Ended(k).id = k.id /\ Ended(k).peer = k.peer
      /\ k.kind \in {"knock", "contact"} /\ k.mine \in BOOLEAN
      /\ Ended(k).type \in {"knock.result", "contact.result", "knock.closed", "contact.closed"}
      /\ Ended(k).type = "contact.result" => (k.kind = "contact" /\ k.mine)
  BY <1>1, EndedIs
<1>3. k.kind = "contact" /\ k.mine => ~Over(coming, k.peer) /\ srvRoom
  BY DEF AsksInv, Agreement, InvitesAgree, InvitesFit, ServerKnows
<1>4. \A x \in coming : x.type = "room.left" => ~srvRoom
  BY DEF AsksInv, Agreement, RoomAgrees, RoomFits
<1>5. \A x \in coming : MayPrecede(x, Ended(k))
  BY <1>2, <1>3 DEF MayPrecede, RoomReplies, Replies, Ends, Over
<1> QED
  BY <1>2, <1>3, <1>4, <1>5 DEF Ends

\* Two ends may come in either order.
LEMMA EndedOfTwo ==
  ASSUME AsksInv, NEW k \in srvAsks, NEW l \in srvAsks, k # l
  PROVE  MayPrecede(Ended(k), Ended(l))
<1>1. AskTyped(k, askIds) /\ AskTyped(l, askIds)
  BY DEF AsksInv, Typed
<1>2. /\ Ended(k).peer = k.peer /\ Ended(l).peer = l.peer
      /\ Ended(k).type \in {"knock.result", "contact.result", "knock.closed", "contact.closed"}
      /\ Ended(l).type \in {"knock.result", "contact.result", "knock.closed", "contact.closed"}
      /\ Ended(k).type = "contact.result" => (k.kind = "contact" /\ k.mine)
      /\ Ended(l).type = "contact.result" => (l.kind = "contact" /\ l.mine)
  BY <1>1, EndedIs
<1>3. k.kind = "contact" /\ k.mine /\ l.kind = "contact" /\ l.mine => k.peer # l.peer
  BY DEF AsksInv, ServerKnows
<1> QED
  BY <1>2, <1>3 DEF MayPrecede, RoomReplies, Replies, Ends

\* maintainInvitations: an answer and the reports behind it keep the order of what is coming.
LEMMA Reporting ==
  ASSUME AsksInv, NEW E, E \subseteq srvAsks, NEW reports, Tells(reports, E), NEW answer, NEW X, Answers(answer, X),
         \A x \in X : x.type \notin Ends /\ \A y \in coming : MayPrecede(y, x),
         Say(answer \o reports)
  PROVE  /\ OrderedDown(askDown')
         /\ Reports(E, coming, X, coming')
         /\ behind' \subseteq behind \cup X \cup {Ended(k) : k \in E}
<1> DEFINE b == answer \o reports
<1>1. /\ IsSeq(answer) /\ requests(answer) = X /\ DOMAIN answer \subseteq {1}
      /\ IsSeq(reports) /\ requests(reports) = {Ended(k) : k \in E}
  BY AnswersOf DEF Tells
<1>2. /\ IsSeq(b) /\ Len(answer) \in Nat /\ Len(reports) \in Nat
      /\ DOMAIN answer = 1 .. Len(answer) /\ DOMAIN reports = 1 .. Len(reports)
      /\ DOMAIN b = 1 .. Len(answer) + Len(reports)
      /\ \A i \in 1 .. Len(answer) : b[i] = answer[i]
      /\ \A i \in 1 .. Len(answer) + Len(reports) :
           i > Len(answer) => i - Len(answer) \in 1 .. Len(reports) /\ b[i] = reports[i - Len(answer)]
  BY <1>1, Joined
<1>3. requests(b) = X \cup {Ended(k) : k \in E}
  BY <1>1, Requested
<1> HIDE DEF b
<1>4. Len(answer) \in {0, 1}
  BY <1>1, <1>2
<1>5. \A i \in 1 .. Len(answer) : b[i] \in X
  BY <1>1, <1>2 DEF requests
<1>6. \A i \in DOMAIN reports : \E k \in E : reports[i] = Ended(k)
  BY <1>1 DEF requests
<1>7. \A k \in E : Ended(k).type \in {"knock.result", "contact.result", "knock.closed", "contact.closed"}
  BY EndedIs DEF AsksInv, Typed
<1>8. \A i, j \in DOMAIN b : i < j => MayPrecede(b[i], b[j])
  <2> SUFFICES ASSUME NEW i \in DOMAIN b, NEW j \in DOMAIN b, i < j
               PROVE  MayPrecede(b[i], b[j])
    OBVIOUS
  <2>1. j > Len(answer) /\ j - Len(answer) \in DOMAIN reports /\ b[j] = reports[j - Len(answer)]
    BY <1>2, <1>4
  <2>2. CASE i <= Len(answer)
    <3>1. b[i] \in X
      BY <1>2, <1>5, <2>2
    <3>2. PICK k \in E : b[j] = Ended(k)
      BY <1>6, <2>1
    <3> QED
      BY <1>7, <3>1, <3>2 DEF MayPrecede, RoomReplies, Replies
  <2>3. CASE i > Len(answer)
    <3>1. i - Len(answer) \in DOMAIN reports /\ b[i] = reports[i - Len(answer)] /\ i - Len(answer) < j - Len(answer)
      BY <1>2, <2>1, <2>3
    <3>2. PICK k \in E, l \in E : k # l /\ b[i] = Ended(k) /\ b[j] = Ended(l)
      BY <2>1, <3>1 DEF Tells
    <3> QED
      BY <3>2, EndedOfTwo
  <2> QED
    BY <1>2, <2>2, <2>3
<1>9. \A j \in DOMAIN b : b[j].type \in RoomReplies => j = 1
  <2> SUFFICES ASSUME NEW j \in DOMAIN b, j > Len(answer)
               PROVE  b[j].type \notin RoomReplies
    BY <1>2, <1>4
  <2>1. PICK k \in E : b[j] = Ended(k)
    BY <1>2, <1>6
  <2> QED
    BY <1>7, <2>1 DEF RoomReplies
<1>10. \A x \in coming, y \in requests(b) : MayPrecede(x, y)
  BY <1>3, EndedFollows
<1>11. (\E x \in coming : x.type = "room.left") => \A y \in requests(b) : y.type \notin Ends
  BY <1>3, EndedFollows
<1>12. OrderedDown(askDown)
  BY DEF AsksInv
<1>13. /\ OrderedDown(askDown \o Said(b))
       /\ notes(askDown \o Said(b)) = notes(askDown) \cup requests(b)
       /\ later(askDown \o Said(b)) \subseteq later(askDown) \cup requests(b)
  BY <1>2, <1>8, <1>9, <1>10, <1>11, <1>12, DownGrows DEF coming
<1>14. askDown' = askDown \o Said(b)
  BY DEF Say, b
<1> QED
  BY <1>3, <1>13, <1>14 DEF coming, behind, Reports

\* What the server says besides the ends of asks when it ends some.
Besides == RoomReplies \cup {"published", "knock.accepted", "knock.failed", "contact.accepted", "contact.failed"}

\* What may be said of the asks that stay, of which E end and H is the request that is served.
Besided(X, E, H, n) ==
  \A x \in X :
    /\ x.type \in Besides /\ NoteTyped(x, n)
    /\ x.type \in {"knock.accepted", "contact.accepted"} => \E k \in E : k.id = x.id
    /\ x.type = "knock.failed" => Sent(H, "knock.respond", x.id)
    /\ x.type = "contact.failed" => Sent(H, "contact.respond", x.id)

\* The request does not answer an ask that stays.
Spares(H, A) ==
  /\ \A h \in H : h.type # "knock.request"
  /\ \A k \in A : \A h \in H : ~k.mine =>
       /\ k.kind = "knock" => ~(h.type = "knock.respond" /\ h.id = k.id) /\ ~(h.type = "mesh.leave" /\ h.mesh = k.mesh)
       /\ k.kind = "contact" => ~(h.type = "contact.respond" /\ h.id = k.id)

\* The agreement about who waits for the room over a step of the server that ends asks.
LEMMA WaitEnds ==
  ASSUME NEW E, E \subseteq srvAsks, NEW X, Kinded(srvAsks, askIds), Reports(E, coming, X, coming'), going' \subseteq going,
         Waited(askTarget, askTargets, askInKnock, coming, going),
         \A k \in E : ~(k.kind = "contact" /\ k.mine),
         \A x \in X : x.type \notin Ends,
         \A x \in X : x.type = "knock.failed" => Sent(going, "knock.respond", x.id)
  PROVE Waited(askTarget, askTargets, askInKnock, coming', going')
<1>1. ASSUME NEW R, R = going', NEW Z, Z = coming' PROVE Waited(askTarget, askTargets, askInKnock, Z, R)
  <2>1. R \subseteq going /\ Reports(E, coming, X, Z)
    BY <1>1
  <2> QED
    BY <2>1, WantEnds
<1> QED
  BY <1>1

\* A step of the server that ends some asks, answers one request and reports it keeps the agreement.
LEMMA EndingKeeps ==
  ASSUME AsksInv, NEW E, E \subseteq srvAsks, NEW H, NEW X,
         srvAsks' = srvAsks \ E, UNCHANGED <<askOnline, askMesh, promptVars, askRoomVars, askIds, askMade>>,
         OrderedUp(askUp'), going = going' \cup H,
         OrderedDown(askDown'), Reports(E, coming, X, coming'),
         behind' \subseteq behind \cup X \cup {Ended(k) : k \in E},
         Besided(X, E, H, askIds), Spares(H, srvAsks \ E),
         (\E x \in X : x.type = "room.left") => \A r \in going' : r.type # "contact.invite",
         RoomAgrees', ServerKnows'
  PROVE  AsksInv'
<1> USE DEF promptVars, askRoomVars
<1>1. Kinded(srvAsks, askIds)
  BY DEF AsksInv, Typed, Kinded
<1>2. /\ \A z \in coming' : z \in coming \/ z \in X \/ (\E k \in E : z = Ended(k))
  BY <1>1, ReportsOf
<1>3. askIds \in Nat
  BY DEF AsksInv, Typed
<1>4. /\ \A x \in X : x.type \notin Replies \cup Ends \cup {"knock.result", "knock.invitation", "knock.closed",
                                                         "contact.invitation", "contact.closed"}
  BY DEF Besided, Besides, RoomReplies, Replies, Ends
<1>5. \A k \in E : NoteTyped(Ended(k), askIds)
  <2> SUFFICES ASSUME NEW k \in E PROVE NoteTyped(Ended(k), askIds)
    OBVIOUS
  <2>1. AskTyped(k, askIds)
    BY DEF AsksInv, Typed
  <2>2. /\ Ended(k).id = k.id /\ Ended(k).peer = k.peer /\ k.id \in 1 .. askIds /\ k.peer \in Friends
        /\ Ended(k).type \in {"knock.result", "contact.result", "knock.closed", "contact.closed"}
    BY <2>1, EndedIs
  <2> QED
    BY <2>2 DEF NoteTyped
<1>6. Typed'
  <2>1. \A x \in coming' : NoteTyped(x, askIds)
    BY <1>2, <1>5 DEF AsksInv, Typed, coming, Besided
  <2>2. \A r \in going' : RequestTyped(r, askIds)
    BY DEF AsksInv, Typed, going
  <2>3. /\ askIds' \in Nat /\ askMade' \in Nat /\ askOnline' \in BOOLEAN
        /\ \A x \in coming' : NoteTyped(x, askIds') /\ \A r \in going' : RequestTyped(r, askIds')
    BY <2>1, <2>2 DEF AsksInv, Typed
  <2>4. IsFiniteSet(srvAsks')
    BY FS_Subset DEF AsksInv, Typed
  <2>5. (\A k \in srvAsks' : AskTyped(k, askIds')) /\ \A k, l \in srvAsks' : k.id = l.id => k = l
    BY DEF AsksInv, Typed
  <2> QED
    BY <2>1, <2>2, <2>3, <2>4, <2>5 DEF Typed, coming, going
<1>7. ClientStands'
  <2>1. askIds' \in Nat /\ askIds <= askIds'
    BY <1>3
  <2> QED
    BY <1>3, <2>1, ClientStill DEF AsksInv
<1>8. KnockAgrees'
  <2>1. KnockFits(askKnock, srvAsks, askIds, coming, going)
    BY DEF AsksInv, Agreement, KnockAgrees
  <2>2. \A x \in X : x.type = "knock.accepted" => \E k \in E : k.id = x.id
    BY DEF Besided
  <2>3. \A x \in X : x.type \notin Replies \cup {"knock.result"}
    BY <1>4
  <2>4. going' \subseteq going /\ \A r \in going : r.type = "knock.request" => r \in going'
    BY DEF Spares
  <2>5. KnockFits(askKnock, srvAsks \ E, askIds, coming', going')
    BY <1>1, <2>1, <2>2, <2>3, <2>4, KnockEnds
  <2> QED
    BY <2>5 DEF KnockAgrees
<1>9. PromptAgrees'
  <2>1. PromptFits(askInKnock, srvAsks, coming, going)
    BY DEF AsksInv, Agreement, PromptAgrees
  <2>2. \A k \in srvAsks \ E : k.kind = "knock" /\ ~k.mine =>
          \A h \in H : ~(h.type = "knock.respond" /\ h.id = k.id) /\ ~(h.type = "mesh.leave" /\ h.mesh = k.mesh)
    BY DEF Spares
  <2>3. /\ \A x \in X : x.type \notin {"knock.invitation", "knock.closed"}
        /\ \A x \in X : x.type = "knock.failed" => Sent(H, "knock.respond", x.id)
    BY <1>4 DEF Besided
  <2>5. PromptFits(askInKnock, srvAsks \ E, coming', going')
    BY <1>1, <2>1, <2>2, <2>3, PromptEnds
  <2> QED
    BY <2>5 DEF PromptAgrees
<1>10. InviteAgrees'
  <2>1. InviteFits(askInvite, srvAsks, coming, going)
    BY DEF AsksInv, Agreement, InviteAgrees
  <2>2. \A k \in srvAsks \ E : k.kind = "contact" /\ ~k.mine => ~Sent(H, "contact.respond", k.id)
    BY DEF Spares, Sent
  <2>3. /\ \A x \in X : x.type \notin {"contact.invitation", "contact.closed"}
        /\ \A x \in X : x.type = "contact.failed" => Sent(H, "contact.respond", x.id)
        /\ \A x \in X : x.type = "contact.accepted" => \E k \in E : k.id = x.id
    BY <1>4 DEF Besided
  <2>5. InviteFits(askInvite, srvAsks \ E, coming', going')
    BY <1>1, <2>1, <2>2, <2>3, InviteEnds
  <2> QED
    BY <2>5 DEF InviteAgrees
<1>11. InvitesAgree'
  <2>1. InvitesFit(askOperation, askRoom, askTargets, srvAsks, coming, behind, going)
    BY DEF AsksInv, Agreement, InvitesAgree
  <2>2. \A k, l \in srvAsks : k.kind = "contact" /\ l.kind = "contact" /\ k.mine /\ l.mine /\ k.peer = l.peer => k = l
    BY DEF AsksInv, ServerKnows
  <2>3. going' \subseteq going /\ \A x \in X : x.type \notin Ends
    BY <1>4
  <2>5. InvitesFit(askOperation, askRoom, askTargets, srvAsks \ E, coming', behind', going')
    BY <1>1, <2>1, <2>2, <2>3, InvitesEnd
  <2> QED
    BY <2>5 DEF InvitesAgree
<1>12. ASSUME askWanted PROVE WantAgrees'
  <2>0. askWanted = TRUE
    BY <1>12 DEF AsksInv, ClientStands, RoomStands
  <2>1. Waited(askTarget, askTargets, askInKnock, coming, going)
    BY <2>0, Zenon DEF AsksInv, Agreement, WantAgrees, Waited
  <2>2. \A k \in E : ~(k.kind = "contact" /\ k.mine)
    <3>1. askOperation \notin Leaves /\ ~askRoom
      BY <1>12 DEF AsksInv, ClientStands, RoomStands, Leaves
    <3>2. \A k \in srvAsks : k.kind = "contact" /\ k.mine /\ askOperation \notin Leaves => askRoom
      BY DEF AsksInv, Agreement, InvitesAgree, InvitesFit
    <3> QED
      BY <3>1, <3>2
  <2>3. \A x \in X : x.type \notin Ends
    BY <1>4
  <2>4. \A x \in X : x.type = "knock.failed" => Sent(going, "knock.respond", x.id)
    BY DEF Besided, Sent
  <2>7. going' \subseteq going
    OBVIOUS
  <2>5. Waited(askTarget, askTargets, askInKnock, coming', going')
    BY <1>1, <2>1, <2>2, <2>3, <2>4, <2>7, WaitEnds
  <2>6. askWanted' = TRUE
    BY <2>0
  <2> QED
    BY <2>5, <2>6, Zenon DEF WantAgrees, Waited
<1>14. ~askWanted => WantAgrees'
  BY DEF WantAgrees, WantFits
<1>13. OrderedUp(askUp)' /\ OrderedDown(askDown)'
  OBVIOUS
<1> QED
  BY <1>6, <1>7, <1>8, <1>9, <1>10, <1>11, <1>12, <1>13, <1>14 DEF AsksInv, Agreement

\* The server takes the first request.
LEMMA Serving ==
  ASSUME AsksInv, askUp # <<>>, askUp' = Tail(askUp)
  PROVE  /\ OrderedUp(askUp') /\ going = going' \cup {Head(askUp)}
         /\ \A r \in going' : MayBeAskedBefore(Head(askUp), r)
         /\ RequestTyped(Head(askUp), askIds)
         /\ \A S : Head(askUp).type \notin S => Alike(going, going', S)
<1>1. OrderedUp(askUp)
  BY DEF AsksInv
<1>2. /\ OrderedUp(askUp') /\ going = going' \cup {Head(askUp)}
      /\ \A r \in going' : MayBeAskedBefore(Head(askUp), r)
  BY <1>1, UpShrinks DEF going
<1>3. RequestTyped(Head(askUp), askIds)
  BY <1>2 DEF AsksInv, Typed, going
<1> QED
  BY <1>2, <1>3 DEF Alike

clientStays == UNCHANGED <<askOnline, askMesh, promptVars, askRoomVars, askMade>>

\* No message and one message are answers.
LEMMA AnswerIs ==
  /\ Answers(<<>>, {})
  /\ \A x : Answers(<<x>>, {x})
  BY DEF Answers

\* The server says no word.
LEMMA SilentKeeps ==
  ASSUME AsksInv, clientStays, UNCHANGED <<srvProfile, srvRoom, srvAsks, askDown, askIds>>,
         OrderedUp(askUp'), NEW H, going = going' \cup H, Spares(H, srvAsks), \A h \in H : h.type \notin RoomRequests
  PROVE  AsksInv'
<1>1. /\ OrderedDown(askDown') /\ coming' = coming /\ behind' = behind
  BY DEF AsksInv, coming, behind
<1>2. Reports({}, coming, {}, coming')
  BY <1>1 DEF Reports
<1>3. Besided({}, {}, H, askIds)
  BY DEF Besided
<1>4. ServerKnows'
  BY DEF AsksInv, ServerKnows, clientStays
<1>5. RoomAgrees'
  <2>1. Alike(coming, coming', RoomReplies) /\ Alike(going, going', RoomRequests)
    BY <1>1 DEF Alike
  <2> QED
    BY <2>1, RoomStill DEF AsksInv, Agreement, clientStays, askRoomVars
<1>6. srvAsks' = srvAsks \ {} /\ srvAsks \ {} = srvAsks /\ behind' \subseteq behind \cup {} \cup {Ended(k) : k \in {}}
  BY <1>1
<1>7. {} \subseteq srvAsks /\ ((\E x \in {} : x.type = "room.left") => \A r \in going' : r.type # "contact.invite")
  OBVIOUS
<1> QED
  BY <1>1, <1>2, <1>3, <1>4, <1>5, <1>6, <1>7, EndingKeeps DEF clientStays

\* The server says at most one thing, then tells of the asks that end.
LEMMA SayingKeeps ==
  ASSUME AsksInv, clientStays, askIds' = askIds, NEW E, E \subseteq srvAsks, srvAsks' = srvAsks \ E,
         NEW reports, Tells(reports, E), NEW answer, NEW X, Answers(answer, X), Say(answer \o reports),
         NEW H, OrderedUp(askUp'), going = going' \cup H, Spares(H, srvAsks \ E), Besided(X, E, H, askIds),
         \A x \in X : x.type \in RoomReplies => \A y \in coming : y.type \notin RoomReplies,
         \A x \in X : x.type = "room.left" => \A r \in going' : r.type # "contact.invite",
         RoomAgrees', ServerKnows'
  PROVE  AsksInv'
<1>1. \A x \in X : x.type \in Besides
  BY DEF Besided
<1>2. \A x \in X : x.type \notin Ends
  BY <1>1 DEF Besides, RoomReplies, Ends
<1>3. \A x \in X, y \in coming : MayPrecede(y, x)
  BY <1>1 DEF MayPrecede, Besides, RoomReplies, Replies, Ends
<1>4. /\ OrderedDown(askDown') /\ Reports(E, coming, X, coming')
      /\ behind' \subseteq behind \cup X \cup {Ended(k) : k \in E}
  BY <1>2, <1>3, Reporting
<1>5. (\E x \in X : x.type = "room.left") => \A r \in going' : r.type # "contact.invite"
  OBVIOUS
<1> QED
  BY <1>4, <1>5, EndingKeeps DEF clientStays

\* What is told of was told of before, is said besides, or is of an ask that ends.
LEMMA ToldBesides ==
  ASSUME AsksInv, NEW E, E \subseteq srvAsks, NEW X, Reports(E, coming, X, coming')
  PROVE  \A z \in coming' :
           z \in coming \/ z \in X \/ z.type \in {"knock.result", "contact.result", "knock.closed", "contact.closed"}
<1>1. Kinded(srvAsks, askIds)
  BY DEF AsksInv, Typed, Kinded
<1> QED
  BY <1>1, ReportsOf

\* What the room agrees on does not depend on anything else that is said.
LEMMA RoomUntold ==
  ASSUME AsksInv, clientStays, srvRoom' = srvRoom, NEW E, E \subseteq srvAsks, NEW X, Reports(E, coming, X, coming'),
         \A x \in X : x.type \notin RoomReplies, Alike(going, going', RoomRequests)
  PROVE  RoomAgrees'
<1>1. Kinded(srvAsks, askIds)
  BY DEF AsksInv, Typed, Kinded
<1>2. /\ coming \subseteq coming'
      /\ \A z \in coming' : z \in coming \/ z \in X \/ z.type \in {"knock.result", "contact.result", "knock.closed", "contact.closed"}
  BY <1>1, ReportsOf
<1>3. Alike(coming, coming', RoomReplies)
  BY <1>2 DEF Alike, RoomReplies
<1> QED
  BY <1>3, RoomStill DEF AsksInv, Agreement, clientStays, askRoomVars

\* What is told of, and the asks that end, without any order.
LEMMA SaidIs ==
  ASSUME AsksInv, NEW E, E \subseteq srvAsks, NEW reports, Tells(reports, E), NEW answer, NEW X, Answers(answer, X),
         Say(answer \o reports), \A x \in X : x.type \in Besides,
         \A x \in X : x.type \in RoomReplies => \A y \in coming : y.type \notin RoomReplies
  PROVE  Reports(E, coming, X, coming')
<1>2. \A x \in X : x.type \notin Ends
  BY DEF Besides, RoomReplies, Ends
<1>3. \A x \in X, y \in coming : MayPrecede(y, x)
  BY DEF MayPrecede, Besides, RoomReplies, Replies, Ends
<1> QED
  BY <1>2, <1>3, Reporting

\* Where the profile and the room may change, what they make impossible ends.
LEMMA SettleKnows ==
  ASSUME AsksInv, NEW profile \in Presences \cup {NoValue}, profile = NoValue => srvProfile = NoValue,
         srvProfile # NoValue => askOnline', askOnline', NEW inRoom \in BOOLEAN,
         srvProfile' = profile, srvRoom' = inRoom,
         srvAsks' = srvAsks \ {k \in srvAsks : profile # NoValue /\ Stale(k, profile, inRoom)}
  PROVE  ServerKnows'
<1>1. srvAsks' \subseteq srvAsks /\ (srvAsks # {} => profile # NoValue)
  BY DEF AsksInv, ServerKnows
<1>2. /\ \A k, l \in srvAsks' : k.kind = "knock" /\ l.kind = "knock" /\ k.mine = l.mine => k = l
      /\ \A k, l \in srvAsks' : k.kind = "contact" /\ l.kind = "contact" /\ ~k.mine /\ ~l.mine => k = l
      /\ \A k, l \in srvAsks' : k.kind = "contact" /\ l.kind = "contact" /\ k.mine /\ l.mine /\ k.peer = l.peer => k = l
  BY <1>1 DEF AsksInv, ServerKnows
<1>3. ASSUME NEW k \in srvAsks', k.kind = "knock", ~k.mine PROVE k.mesh = profile.mesh /\ k.mesh # NoValue
  <2>1. ~Stale(k, profile, inRoom) /\ k \in srvAsks
    BY <1>1, <1>3
  <2>2. k.mesh = profile.mesh
    BY <1>3, <2>1 DEF Stale
  <2> QED
    BY <1>3, <2>1, <2>2 DEF AsksInv, ServerKnows
<1>4. ASSUME NEW k \in srvAsks', k.kind = "contact", k.mine PROVE inRoom
  <2>1. ~Stale(k, profile, inRoom) /\ k \in srvAsks
    BY <1>1, <1>4
  <2> QED
    BY <1>4, <2>1 DEF Stale
<1> QED
  BY <1>1, <1>2, <1>3, <1>4 DEF ServerKnows

\* The asks that a profile and a room put an end to.
Overtaken(profile, inRoom) == {k \in srvAsks : profile # NoValue /\ Stale(k, profile, inRoom)}

\* A change of the profile or the room, with all asks it ends, keeps the agreement.
LEMMA SettleKeeps ==
  ASSUME AsksInv, clientStays, askOnline, NEW answer, NEW X, Answers(answer, X),
         NEW profile \in Presences \cup {NoValue}, profile = NoValue => srvProfile = NoValue, NEW inRoom \in BOOLEAN,
         Settle(answer, profile, inRoom),
         NEW E, E = Overtaken(profile, inRoom),
         NEW H, OrderedUp(askUp'), going = going' \cup H, Spares(H, srvAsks \ E),
         \A x \in X : x.type \in RoomReplies \cup {"published"},
         \A x \in X : x.type \in RoomReplies => \A y \in coming : y.type \notin RoomReplies,
         \A x \in X : x.type = "room.left" => \A r \in going' : r.type # "contact.invite",
         Reports(E, coming, X, coming') => RoomAgrees'
  PROVE  AsksInv'
<1>1. /\ srvProfile' = profile /\ srvRoom' = inRoom /\ askIds' = askIds
      /\ srvAsks' = srvAsks \ E
      /\ \E reports \in EndedAll(E) : Say(answer \o reports)
  BY DEF Settle, Overtaken
<1>2. IsFiniteSet(E) /\ E \subseteq srvAsks
  <2>1. E \subseteq srvAsks /\ IsFiniteSet(srvAsks)
    BY DEF AsksInv, Typed, Overtaken
  <2> QED
    BY <2>1, FS_Subset
<1>3. PICK reports : Tells(reports, E) /\ Say(answer \o reports)
  BY <1>1, <1>2, TellsAll
<1>4. ServerKnows'
  <2>1. askOnline' /\ (srvProfile # NoValue => askOnline')
    BY DEF clientStays
  <2>2. srvAsks' = srvAsks \ {k \in srvAsks : profile # NoValue /\ Stale(k, profile, inRoom)}
    BY <1>1 DEF Overtaken
  <2> QED
    BY <1>1, <2>1, <2>2, SettleKnows
<1>5. \A x \in X : x.type \in Besides
  BY DEF Besides
<1>6. Besided(X, E, H, askIds)
  BY DEF Besided, Besides, NoteTyped, RoomReplies, Ends
<1>7. RoomAgrees'
  <2>1. Reports(E, coming, X, coming')
    BY <1>2, <1>3, <1>5, SaidIs
  <2> QED
    BY <2>1
<1> QED
  BY <1>1, <1>2, <1>3, <1>4, <1>6, <1>7, SayingKeeps

\* A request of the client about the room.
LEMMA ServerRoomKeeps ==
  ASSUME AsksInv, clientStays, askOnline, askUp # <<>>, askUp' = Tail(askUp), ServerRoom(Head(askUp))
  PROVE  AsksInv'
<1> DEFINE h == Head(askUp)
<1>1. /\ OrderedUp(askUp') /\ going = going' \cup {h}
      /\ \A r \in going' : MayBeAskedBefore(h, r)
  BY Serving
<1>2. h.type \in RoomRequests /\ ServerRoom(h)
  BY DEF ServerRoom, RoomRequests
<1> HIDE DEF h
<1>3. /\ \A r \in going' : r.type \notin RoomRequests
      /\ h.type = "room.leave" => \A r \in going' : r.type # "contact.invite"
  BY <1>1, <1>2 DEF MayBeAskedBefore
<1>4. /\ \A y \in coming : y.type \notin RoomReplies
      /\ h.type = "room.create" => askOperation = "recover-create" /\ ~srvRoom
      /\ h.type = "room.join" => askOperation = "joining" /\ ~srvRoom
      /\ h.type = "room.leave" => askOperation \in Leaves
  BY <1>1, <1>2 DEF AsksInv, Agreement, RoomAgrees, RoomFits
<1>5. \A A : Spares({h}, A)
  BY <1>2 DEF Spares, RoomRequests
<1>6. ASSUME NEW t, t \in RoomReplies, NEW E, E \subseteq srvAsks, NEW X, X = {[type |-> t]}, Reports(E, coming, X, coming')
      PROVE  \A y \in coming' : y.type \in RoomReplies => y.type = t
  <2>2. \A z \in coming' : z \in coming \/ z \in X \/ z.type \in {"knock.result", "contact.result", "knock.closed", "contact.closed"}
    BY <1>6, ToldBesides
  <2>3. \A z \in X : z.type = t
    BY <1>6
  <2> QED
    BY <1>4, <2>2, <2>3 DEF RoomReplies
<1>7. srvProfile \in Presences \cup {NoValue} /\ srvRoom \in BOOLEAN
  BY DEF AsksInv, ServerKnows
<1>8. ASSUME NEW t, t \in RoomReplies, NEW inRoom \in BOOLEAN,
             Settle(Answer(t), srvProfile, inRoom),
             t = "room.left" => h.type = "room.leave",
             \/ t = "room.created" /\ askOperation = "recover-create" /\ inRoom
             \/ t = "room.joined" /\ askOperation = "joining" /\ inRoom
             \/ t = "room.left" /\ askOperation \in Leaves /\ ~inRoom
      PROVE  AsksInv'
  <2>1. PICK E : E = Overtaken(srvProfile, inRoom)
    OBVIOUS
  <2>8. E \subseteq srvAsks
    BY <2>1 DEF Overtaken
  <2>6. PICK X : X = {[type |-> t]}
    OBVIOUS
  <2>2. Answers(Answer(t), X)
    BY <2>6, AnswerIs DEF Answer
  <2>3. /\ \A x \in X : x.type \in RoomReplies \cup {"published"}
        /\ \A x \in X : x.type \in RoomReplies => \A y \in coming : y.type \notin RoomReplies
        /\ \A x \in X : x.type = "room.left" => \A r \in going' : r.type # "contact.invite"
    BY <1>3, <1>4, <1>8, <2>6
  <2>4. ASSUME Reports(E, coming, X, coming') PROVE RoomAgrees'
    <3>1. \A y \in coming' : y.type \in RoomReplies => y.type = t
      BY <1>6, <1>8, <2>4, <2>6, <2>8
    <3>2. \E y \in coming' : y.type = t
      <4>1. [type |-> t] \in coming'
        BY <2>4, <2>6 DEF Reports
      <4> QED
        BY <4>1
    <3>3. srvRoom' = inRoom /\ UNCHANGED <<askOperation, askRoom>>
      BY <1>8 DEF Settle, clientStays, askRoomVars
    <3> QED
      BY <1>3, <1>8, <3>1, <3>2, <3>3 DEF RoomAgrees, RoomFits, RoomReplies, RoomRequests, Leaves
  <2>7. PICK H : H = {h}
    OBVIOUS
  <2>5. OrderedUp(askUp') /\ going = going' \cup H /\ Spares(H, srvAsks \ E)
    BY <1>1, <1>5, <2>7
  <2> QED
    BY <1>7, <1>8, <2>1, <2>2, <2>3, <2>4, <2>5, SettleKeeps
<1>9. ASSUME NEW t, Refuse(t),
             \/ t = "room.refused" /\ askOperation = "recover-create"
             \/ t = "join.refused" /\ askOperation = "joining",
             ~srvRoom
      PROVE  AsksInv'
  <2>1. /\ UNCHANGED <<srvProfile, srvRoom, srvAsks, askIds>> /\ Say(Answer(t))
    BY <1>9 DEF Refuse, srvVars
  <2>2. Answers(Answer(t), {[type |-> t]}) /\ Tells(<<>>, {}) /\ Answer(t) \o <<>> = Answer(t)
    <3>1. Answers(Answer(t), {[type |-> t]}) /\ Tells(<<>>, {})
      BY AnswerIs, TellsOf DEF Answer
    <3>2. Answer(t) \in Seq({[type |-> t]})
      BY DEF Answer
    <3> QED
      BY <3>1, <3>2, EmptySeq, ConcatEmptySeq
  <2>3. Say(Answer(t) \o <<>>)
    BY <2>1, <2>2
  <2>4. t \in RoomReplies /\ t # "room.left"
    BY <1>9 DEF RoomReplies
  <2>5. /\ \A x \in {[type |-> t]} : x.type \in Besides
        /\ \A x \in {[type |-> t]} : x.type \in RoomReplies => \A y \in coming : y.type \notin RoomReplies
        /\ \A x \in {[type |-> t]} : x.type = "room.left" => \A r \in going' : r.type # "contact.invite"
    BY <1>3, <1>4, <2>4 DEF Besides
  <2>11. Reports({}, coming, {[type |-> t]}, coming')
    BY <2>2, <2>3, <2>5, SaidIs
  <2>7. RoomAgrees'
    <3>1. \A y \in coming' : y.type \in RoomReplies => y.type = t
      BY <1>6, <2>4, <2>11
    <3>2. srvRoom' = srvRoom /\ UNCHANGED <<askOperation, askRoom>>
      BY <2>1 DEF clientStays, askRoomVars
    <3> QED
      BY <1>3, <1>9, <3>1, <3>2 DEF RoomAgrees, RoomFits, RoomReplies, RoomRequests, Leaves
  <2>8. ServerKnows'
    BY <2>1 DEF AsksInv, ServerKnows, clientStays
  <2>9. Besided({[type |-> t]}, {}, {h}, askIds)
    BY <1>9, <2>5 DEF Besided, NoteTyped, Ends
  <2>10. Spares({h}, srvAsks \ {}) /\ srvAsks' = srvAsks \ {} /\ {} \subseteq srvAsks
    BY <1>5, <2>1
  <2> QED
    BY <1>1, <2>1, <2>2, <2>3, <2>5, <2>7, <2>8, <2>9, <2>10, SayingKeeps
<1>10. CASE h.type = "room.create" /\ Settle(Answer("room.created"), srvProfile, TRUE)
  BY <1>4, <1>8, <1>10 DEF RoomReplies
<1>11. CASE h.type = "room.join" /\ Settle(Answer("room.joined"), srvProfile, TRUE)
  BY <1>4, <1>8, <1>11 DEF RoomReplies
<1>12. CASE h.type = "room.leave" /\ Settle(Answer("room.left"), srvProfile, FALSE)
  BY <1>4, <1>8, <1>12 DEF RoomReplies
<1>13. CASE h.type = "room.create" /\ Refuse("room.refused")
  BY <1>4, <1>9, <1>13
<1>14. CASE h.type = "room.join" /\ Refuse("join.refused")
  BY <1>4, <1>9, <1>14
<1> QED
  BY <1>2, <1>10, <1>11, <1>12, <1>13, <1>14 DEF ServerRoom

\* A publication, and the end of a conversation the server knows of.
LEMMA ServerPresenceKeeps ==
  ASSUME AsksInv, clientStays, askOnline, askUp # <<>>, askUp' = Tail(askUp), ServerPresence(Head(askUp))
  PROVE  AsksInv'
<1> DEFINE h == Head(askUp)
<1>1. /\ OrderedUp(askUp') /\ going = going' \cup {h} /\ RequestTyped(h, askIds)
      /\ \A S : h.type \notin S => Alike(going, going', S)
  BY Serving
<1>2. h.type \in {"publish", "mesh.leave"} /\ ServerPresence(h)
  BY DEF ServerPresence
<1> HIDE DEF h
<1>3. PICK H : H = {h}
  OBVIOUS
<1>4. going = going' \cup H /\ Alike(going, going', RoomRequests)
  BY <1>1, <1>2, <1>3 DEF RoomRequests
<1>5. ASSUME NEW answer, NEW X, Answers(answer, X), \A x \in X : x.type = "published",
             NEW profile \in Presences \cup {NoValue}, profile = NoValue => srvProfile = NoValue,
             Settle(answer, profile, srvRoom), Spares(H, srvAsks \ Overtaken(profile, srvRoom))
      PROVE  AsksInv'
  <2>1. PICK E : E = Overtaken(profile, srvRoom)
    OBVIOUS
  <2>2. PICK inRoom : inRoom = srvRoom
    OBVIOUS
  <2>3. inRoom \in BOOLEAN /\ Settle(answer, profile, inRoom) /\ E = Overtaken(profile, inRoom)
    BY <1>5, <2>1, <2>2, Zenon DEF AsksInv, ServerKnows
  <2>4. /\ \A x \in X : x.type \in RoomReplies \cup {"published"}
        /\ \A x \in X : x.type \notin RoomReplies
        /\ \A x \in X : x.type # "room.left"
    BY <1>5 DEF RoomReplies
  <2>5. ASSUME Reports(E, coming, X, coming') PROVE RoomAgrees'
    <3>1. srvRoom' = srvRoom /\ E \subseteq srvAsks
      BY <1>5, <2>1 DEF Settle, Overtaken
    <3> QED
      BY <1>4, <2>4, <2>5, <3>1, RoomUntold
  <2>6. Spares(H, srvAsks \ E)
    BY <1>5, <2>1
  <2> QED
    BY <1>1, <1>4, <1>5, <2>3, <2>4, <2>5, <2>6, SettleKeeps
<1>6. CASE h.type = "publish"
  <2>1. Settle(Answer("published"), h.profile, srvRoom)
    BY <1>2, <1>6 DEF ServerPresence
  <2>2. h.profile \in Presences /\ h.profile # NoValue
    BY <1>1, <1>6, AsksAssumption DEF RequestTyped
  <2>3. Answers(Answer("published"), {[type |-> "published"]})
    BY AnswerIs DEF Answer
  <2>4. Spares(H, srvAsks \ Overtaken(h.profile, srvRoom))
    BY <1>3, <1>6 DEF Spares
  <2>5. PICK X : X = {[type |-> "published"]}
    OBVIOUS
  <2>6. \A x \in X : x.type = "published"
    BY <2>5
  <2> QED
    BY <1>5, <2>1, <2>2, <2>3, <2>4, <2>5, <2>6
<1>7. CASE h.type = "mesh.leave" /\ srvProfile # NoValue /\ srvProfile.mesh = h.mesh
  <2>1. Settle(<<>>, [srvProfile EXCEPT !.mesh = NoValue], srvRoom)
    BY <1>2, <1>7 DEF ServerPresence
  <2>2. PICK profile : profile = [srvProfile EXCEPT !.mesh = NoValue]
    OBVIOUS
  <2>3. profile \in Presences /\ profile.mesh = NoValue
    BY <1>7, <2>2 DEF AsksInv, ServerKnows, Presences
  <2>4. profile # NoValue
    BY <2>3, AsksAssumption
  <2>5. ASSUME NEW k \in srvAsks, k.kind = "knock", ~k.mine PROVE k \in Overtaken(profile, srvRoom)
    <3>1. k.mesh # NoValue
      BY <2>5 DEF AsksInv, ServerKnows
    <3> QED
      BY <2>3, <2>4, <2>5, <3>1 DEF Overtaken, Stale
  <2>6. Spares(H, srvAsks \ Overtaken(profile, srvRoom))
    BY <1>3, <1>7, <2>5 DEF Spares
  <2>7. Settle(<<>>, profile, srvRoom)
    BY <2>1, <2>2
  <2>8. Answers(<<>>, {})
    BY AnswerIs
  <2> QED
    BY <1>5, <2>3, <2>4, <2>6, <2>7, <2>8
<1>8. CASE h.type = "mesh.leave" /\ ~(srvProfile # NoValue /\ srvProfile.mesh = h.mesh)
  <2>1. UNCHANGED <<srvProfile, srvRoom, srvAsks, askDown, askIds>>
    BY <1>2, <1>8 DEF ServerPresence, srvVars
  <2>2. ASSUME NEW k \in srvAsks, k.kind = "knock", ~k.mine PROVE k.mesh # h.mesh
    BY <1>8, <2>2 DEF AsksInv, ServerKnows
  <2>3. Spares(H, srvAsks)
    BY <1>3, <1>8, <2>2 DEF Spares
  <2>4. \A r \in H : r.type \notin RoomRequests
    BY <1>3, <1>8 DEF RoomRequests
  <2> QED
    BY <1>1, <1>4, <2>1, <2>3, <2>4, SilentKeeps
<1> QED
  BY <1>2, <1>6, <1>7, <1>8

\* At most one ask ends.
LEMMA OneEndKeeps ==
  ASSUME AsksInv, clientStays, UNCHANGED <<srvProfile, srvRoom, askIds>>,
         NEW E, E \subseteq srvAsks, srvAsks' = srvAsks \ E,
         NEW reports, Tells(reports, E), NEW answer, NEW X, Answers(answer, X), Say(answer \o reports),
         NEW H, OrderedUp(askUp'), going = going' \cup H, Spares(H, srvAsks \ E), Besided(X, E, H, askIds),
         \A x \in X : x.type \notin RoomReplies, Alike(going, going', RoomRequests)
  PROVE  AsksInv'
<1>1. Reports(E, coming, X, coming')
  BY SaidIs DEF Besided
<1>2. RoomAgrees'
  BY <1>1, RoomUntold
<1>3. ServerKnows'
  BY DEF AsksInv, ServerKnows, clientStays
<1>4. /\ \A x \in X : x.type \in RoomReplies => \A y \in coming : y.type \notin RoomReplies
      /\ \A x \in X : x.type = "room.left" => \A r \in going' : r.type # "contact.invite"
  BY DEF RoomReplies
<1> QED
  BY <1>2, <1>3, <1>4, SayingKeeps

\* A short list of messages is an answer and a report.
LEMMA ShortJoined ==
  /\ \A x : <<x>> \o <<>> = <<x>> /\ <<>> \o <<x>> = <<x>>
  /\ \A x, y : <<x>> \o <<y>> = <<x, y>>
  /\ <<>> \o <<>> = <<>>
<1>1. ASSUME NEW x PROVE <<x>> \o <<>> = <<x>> /\ <<>> \o <<x>> = <<x>>
  <2>1. <<x>> \in Seq({x})
    OBVIOUS
  <2> QED
    BY <2>1, ConcatEmptySeq
<1>2. ASSUME NEW x, NEW y PROVE <<x>> \o <<y>> = <<x, y>>
  <2>1. <<x>> \in Seq({x, y}) /\ <<y>> \in Seq({x, y}) /\ <<x, y>> \in Seq({x, y})
    OBVIOUS
  <2>2. Len(<<x>>) = 1 /\ Len(<<y>>) = 1 /\ Len(<<x, y>>) = 2
    OBVIOUS
  <2>3. /\ <<x>> \o <<y>> \in Seq({x, y}) /\ Len(<<x>> \o <<y>>) = 2
        /\ \A i \in 1 .. 2 : (<<x>> \o <<y>>)[i] = IF i <= 1 THEN <<x>>[i] ELSE <<y>>[i - 1]
    BY <2>1, <2>2, ConcatProperties
  <2>4. <<x>>[1] = x /\ <<y>>[1] = y /\ <<x, y>>[1] = x /\ <<x, y>>[2] = y
    OBVIOUS
  <2>5. \A i \in 1 .. 2 : (<<x>> \o <<y>>)[i] = <<x, y>>[i]
    <3>1. (<<x>> \o <<y>>)[1] = x /\ (<<x>> \o <<y>>)[2] = y
      BY <2>3, <2>4
    <3>2. \A i \in 1 .. 2 : i = 1 \/ i = 2
      OBVIOUS
    <3> QED
      BY <2>4, <3>1, <3>2
  <2> QED
    BY <2>1, <2>2, <2>3, <2>5, SeqEqual
<1>3. <<>> \o <<>> = <<>>
  <2>1. <<>> \in Seq({})
    OBVIOUS
  <2> QED
    BY <2>1, ConcatEmptySeq
<1> QED
  BY <1>1, <1>2, <1>3

\* A friend's answer or an ask that expires keeps the agreement.
LEMMA AskEndsKeeps ==
  ASSUME AsksInv, NEW k \in srvAsks, AskEnds(k)
  PROVE  AsksInv'
<1>1. /\ clientStays /\ UNCHANGED <<srvProfile, srvRoom, askIds, askUp>> /\ srvAsks' = srvAsks \ {k}
  BY DEF AskEnds, clientSide, clientStays, boundVars
<1>2. /\ OrderedUp(askUp') /\ going = going' \cup {} /\ Alike(going, going', RoomRequests)
  BY <1>1 DEF AsksInv, going, Alike
<1>6. PICK H : H = {}
  OBVIOUS
<1>3. /\ {k} \subseteq srvAsks /\ Tells(<<Ended(k)>>, {k})
      /\ going = going' \cup H /\ Spares(H, srvAsks \ {k})
  BY <1>2, <1>6, TellsOf DEF Spares
<1>4. CASE Say(<<Ended(k)>>)
  <2>3. PICK X : X = {}
    OBVIOUS
  <2>1. Say(<<>> \o <<Ended(k)>>) /\ Answers(<<>>, X)
    BY <1>4, <2>3, ShortJoined, AnswerIs
  <2>2. Besided(X, {k}, H, askIds) /\ \A x \in X : x.type \notin RoomReplies
    BY <2>3 DEF Besided
  <2> QED
    BY <1>1, <1>2, <1>3, <2>1, <2>2, OneEndKeeps
<1>5. CASE Say(<<[type |-> "knock.accepted", id |-> k.id, peer |-> k.peer], Ended(k)>>)
  <2>1. PICK x : x = [type |-> "knock.accepted", id |-> k.id, peer |-> k.peer]
    OBVIOUS
  <2>2. Say(<<x>> \o <<Ended(k)>>) /\ Answers(<<x>>, {x})
    BY <1>5, <2>1, ShortJoined, AnswerIs
  <2>3. x.type = "knock.accepted" /\ x.id = k.id /\ x.peer = k.peer
    BY <2>1
  <2>4. k.id \in 1 .. askIds /\ k.peer \in Friends
    BY DEF AsksInv, Typed, AskTyped
  <2>5. Besided({x}, {k}, H, askIds)
    BY <2>3, <2>4 DEF Besided, Besides, NoteTyped, Ends
  <2>6. \A y \in {x} : y.type \notin RoomReplies
    BY <2>3 DEF RoomReplies
  <2> QED
    BY <1>1, <1>2, <1>3, <2>2, <2>5, <2>6, OneEndKeeps
<1> QED
  BY <1>4, <1>5 DEF AskEnds

\* The end of the ten seconds keeps the agreement.
LEMMA CoolDownKeeps ==
  ASSUME AsksInv, NEW peer, CoolDown(peer)
  PROVE  AsksInv'
<1>1. clientStays /\ UNCHANGED <<srvProfile, srvRoom, srvAsks, askDown, askIds, askUp>>
  BY DEF CoolDown, clientSide, clientStays, boundVars
<1>2. OrderedUp(askUp') /\ going = going' \cup {}
  BY <1>1 DEF AsksInv, going
<1>3. Spares({}, srvAsks) /\ \A h \in {} : h.type \notin RoomRequests
  BY DEF Spares
<1> QED
  BY <1>1, <1>2, <1>3, SilentKeeps

\* The user's answer to a knock or an invitation, in time or too late, keeps the agreement.
LEMMA ServerAnsweredKeeps ==
  ASSUME AsksInv, clientStays, askUp # <<>>, askUp' = Tail(askUp),
         NEW kind \in {"knock", "contact"}, ServerAnswered(Head(askUp), kind)
  PROVE  AsksInv'
<1> DEFINE h == Head(askUp)
           answered == {k \in srvAsks : k.id = h.id /\ k.kind = kind /\ ~k.mine}
<1>1. /\ OrderedUp(askUp') /\ going = going' \cup {h} /\ RequestTyped(h, askIds)
      /\ \A S : h.type \notin S => Alike(going, going', S)
  BY Serving
<1>2. h.type = Responds(kind) /\ UNCHANGED <<srvProfile, srvRoom, askIds>>
  BY DEF ServerAnswered
<1>3. \/ /\ answered = {}
         /\ Say(IF kind = "contact" \/ h.accept
                THEN <<[type |-> By(kind, "knock.failed", "contact.failed"), id |-> h.id]>>
                ELSE <<>>)
         /\ UNCHANGED srvAsks
      \/ \E k \in answered :
           /\ srvAsks' = srvAsks \ {k}
           /\ Say(IF kind = "contact" /\ h.accept /\ ~Stale(k, srvProfile, srvRoom)
                  THEN <<[type |-> "contact.accepted", id |-> k.id, peer |-> k.peer], Ended(k)>>
                  ELSE <<Ended(k)>>)
  BY DEF ServerAnswered
<1>4. \A k \in answered : k \in srvAsks /\ k.id = h.id /\ k.kind = kind /\ ~k.mine
  OBVIOUS
<1>5. \A k \in srvAsks : k.id = h.id /\ k.kind = kind /\ ~k.mine => k \in answered
  OBVIOUS
<1> HIDE DEF h, answered
<1>6. /\ h.type \in {"knock.respond", "contact.respond"}
      /\ h.type = "knock.respond" <=> kind = "knock"
  BY <1>2 DEF Responds, By
<1>7. PICK H : H = {h}
  OBVIOUS
<1>8. going = going' \cup H /\ Alike(going, going', RoomRequests) /\ h.id \in 1 .. askIds
  BY <1>1, <1>6, <1>7 DEF RoomRequests, RequestTyped
<1>9. CASE answered = {} /\ UNCHANGED srvAsks
  <2>1. PICK E : E = {}
    OBVIOUS
  <2>2. /\ E \subseteq srvAsks /\ srvAsks' = srvAsks \ E /\ Tells(<<>>, E)
    BY <1>9, <2>1, TellsOf
  <2>3. Spares(H, srvAsks \ E)
    BY <1>5, <1>6, <1>7, <1>9, <2>1 DEF Spares
  <2>4. ASSUME Say(<<[type |-> By(kind, "knock.failed", "contact.failed"), id |-> h.id]>>) PROVE AsksInv'
    <3>1. PICK x : x = [type |-> By(kind, "knock.failed", "contact.failed"), id |-> h.id]
      OBVIOUS
    <3>2. /\ x.id = h.id /\ x.type \in {"knock.failed", "contact.failed"}
          /\ x.type = "knock.failed" <=> kind = "knock"
      BY <3>1 DEF By
    <3>3. Say(<<x>> \o <<>>) /\ Answers(<<x>>, {x})
      BY <2>4, <3>1, ShortJoined, AnswerIs
    <3>4. x.type \in Besides /\ NoteTyped(x, askIds)
      BY <1>8, <3>2 DEF Besides, NoteTyped, Ends
    <3>5. Sent(H, h.type, h.id)
      BY <1>7 DEF Sent
    <3>6. Besided({x}, E, H, askIds)
      BY <1>6, <3>2, <3>4, <3>5 DEF Besided
    <3>7. \A y \in {x} : y.type \notin RoomReplies
      BY <3>2 DEF RoomReplies
    <3> QED
      BY <1>1, <1>2, <1>8, <2>2, <2>3, <3>3, <3>6, <3>7, OneEndKeeps
  <2>5. ASSUME Say(<<>>) PROVE AsksInv'
    <3>1. PICK X : X = {}
      OBVIOUS
    <3>2. Say(<<>> \o <<>>) /\ Answers(<<>>, X)
      BY <2>5, <3>1, ShortJoined, AnswerIs
    <3>3. Besided(X, E, H, askIds) /\ \A x \in X : x.type \notin RoomReplies
      BY <3>1 DEF Besided
    <3> QED
      BY <1>1, <1>2, <1>8, <2>2, <2>3, <3>2, <3>3, OneEndKeeps
  <2>6. \/ Say(<<[type |-> By(kind, "knock.failed", "contact.failed"), id |-> h.id]>>) \/ Say(<<>>)
        \/ \E k \in answered : TRUE
    BY <1>3
  <2> QED
    BY <1>9, <2>4, <2>5, <2>6
<1>10. ASSUME NEW k \in answered, srvAsks' = srvAsks \ {k},
              \/ /\ kind = "contact"
                 /\ Say(<<[type |-> "contact.accepted", id |-> k.id, peer |-> k.peer], Ended(k)>>)
              \/ Say(<<Ended(k)>>)
       PROVE  AsksInv'
  <2>1. k \in srvAsks /\ k.id = h.id
    BY <1>4
  <2>2. {k} \subseteq srvAsks /\ Tells(<<Ended(k)>>, {k})
    BY <2>1, TellsOf
  <2>3. \A l \in srvAsks \ {k} : l.id # h.id
    BY <2>1 DEF AsksInv, Typed
  <2>4. Spares(H, srvAsks \ {k})
    BY <1>6, <1>7, <2>3 DEF Spares
  <2>5. CASE Say(<<Ended(k)>>)
    <3>1. PICK X : X = {}
      OBVIOUS
    <3>2. Say(<<>> \o <<Ended(k)>>) /\ Answers(<<>>, X)
      BY <2>5, <3>1, ShortJoined, AnswerIs
    <3>3. Besided(X, {k}, H, askIds) /\ \A x \in X : x.type \notin RoomReplies
      BY <3>1 DEF Besided
    <3> QED
      BY <1>1, <1>2, <1>8, <1>10, <2>2, <2>4, <3>2, <3>3, OneEndKeeps
  <2>6. CASE Say(<<[type |-> "contact.accepted", id |-> k.id, peer |-> k.peer], Ended(k)>>)
    <3>1. PICK x : x = [type |-> "contact.accepted", id |-> k.id, peer |-> k.peer]
      OBVIOUS
    <3>2. Say(<<x>> \o <<Ended(k)>>) /\ Answers(<<x>>, {x})
      BY <2>6, <3>1, ShortJoined, AnswerIs
    <3>3. x.type = "contact.accepted" /\ x.id = k.id /\ x.peer = k.peer
      BY <3>1
    <3>4. k.id \in 1 .. askIds /\ k.peer \in Friends
      BY <2>1 DEF AsksInv, Typed, AskTyped
    <3>5. Besided({x}, {k}, H, askIds)
      BY <3>3, <3>4 DEF Besided, Besides, NoteTyped, Ends
    <3>6. \A y \in {x} : y.type \notin RoomReplies
      BY <3>3 DEF RoomReplies
    <3> QED
      BY <1>1, <1>2, <1>8, <1>10, <2>2, <2>4, <3>2, <3>5, <3>6, OneEndKeeps
  <2> QED
    BY <1>10, <2>5, <2>6
<1>11. \/ answered = {} /\ UNCHANGED srvAsks
       \/ \E k \in answered :
            /\ srvAsks' = srvAsks \ {k}
            /\ \/ /\ kind = "contact"
                  /\ Say(<<[type |-> "contact.accepted", id |-> k.id, peer |-> k.peer], Ended(k)>>)
               \/ Say(<<Ended(k)>>)
  BY <1>3, Zenon
<1> QED
  BY <1>9, <1>10, <1>11

\* What a refused knock does to the agreement about the knock of the user.
LEMMA KnockRefusal ==
  ASSUME NEW A, NEW n, NEW knock, NEW N, NEW Q, NEW R, NEW h, Q = R \cup {h}, h.type = "knock.request", h.peer \in Friends,
         KnockFits(knock, A, n, N, Q), \A r \in R : MayBeAskedBefore(h, r), NEW x, x.type = "knock.refused"
  PROVE  /\ KnockFits(knock, A, n, N \cup {x}, R)
         /\ \A y \in N : y.type \notin Replies
<1>1. /\ knock = [peer |-> h.peer, id |-> 0]
      /\ \A y \in N : y.type \notin Replies
      /\ \A k \in A : ~(k.kind = "knock" /\ k.mine)
  BY DEF KnockFits
<1>2. \A r \in R : r.type # "knock.request"
  BY DEF MayBeAskedBefore
<1>3. knock # NoKnock /\ knock.id = 0
  BY <1>1, AsksAssumption DEF NoKnock, Conversations
<1>4. knock = NoKnock \/ knock \in [peer : Friends, id : 0 .. n]
  BY DEF KnockFits
<1>5. /\ \A y \in N \cup {x} : y.type \in Replies => knock # NoKnock /\ knock.id = 0
      /\ \A y \in N \cup {x} : y.type # "knock.requested"
  BY <1>1, <1>3 DEF Replies
<1>6. \E y \in N \cup {x} : y.type \in Replies
  BY DEF Replies
<1> QED
  BY <1>1, <1>2, <1>3, <1>4, <1>5, <1>6 DEF KnockFits

\* The knock the server takes becomes the one the client waits for.
LEMMA KnockBegins ==
  ASSUME NEW A, NEW n \in Nat, NEW knock, NEW N, NEW Q, NEW R, NEW h, Q = R \cup {h}, h.type = "knock.request", h.peer \in Friends,
         KnockFits(knock, A, n, N, Q), \A r \in R : MayBeAskedBefore(h, r),
         \A y \in N : NoteTyped(y, n),
         NEW x, x.type = "knock.requested", x.id = n + 1,
         NEW k, k.kind = "knock", k.mine, k.id = n + 1, k.peer = h.peer
  PROVE  /\ KnockFits(knock, A \cup {k}, n + 1, N \cup {x}, R)
         /\ \A y \in N : y.type \notin Replies /\ (y.type = "knock.result" => y.id # n + 1)
<1>1. /\ knock = [peer |-> h.peer, id |-> 0]
      /\ \A y \in N : y.type \notin Replies
      /\ \A l \in A : ~(l.kind = "knock" /\ l.mine)
  BY DEF KnockFits
<1>2. \A r \in R : r.type # "knock.request"
  BY DEF MayBeAskedBefore
<1>3. knock # NoKnock /\ knock.id = 0 /\ knock.peer = h.peer
  BY <1>1, AsksAssumption DEF NoKnock, Conversations
<1>4. knock \in [peer : Friends, id : 0 .. n + 1]
  BY <1>1
<1>5. \A y \in N \cup {x} : y.type \in Replies => y = x
  BY <1>1
<1>6. \A y \in N : y.type \in {"knock.result", "knock.accepted"} => y.id # n + 1
  BY DEF NoteTyped
<1>7. /\ ~Told(N \cup {x}, "knock.result", n + 1) /\ ~Told(N \cup {x}, "knock.accepted", n + 1)
      /\ Told(N \cup {x}, "knock.requested", n + 1)
  BY <1>6 DEF Told
<1>8. \A l \in A \cup {k} : l.kind = "knock" /\ l.mine => l = k
  BY <1>1
<1>9. /\ \A y \in N \cup {x} : y.type \in Replies => knock # NoKnock /\ knock.id = 0
      /\ \A y \in N \cup {x} : y.type # "knock.refused"
      /\ \A y \in N \cup {x} : y.type = "knock.requested" =>
           \E l \in A \cup {k} : l.kind = "knock" /\ l.mine /\ l.id = y.id
      /\ \E y \in N \cup {x} : y.type \in Replies
  BY <1>3, <1>5 DEF Replies
<1>10. \A l \in A \cup {k} : l.kind = "knock" /\ l.mine =>
        /\ knock # NoKnock /\ knock.peer = l.peer
        /\ knock.id = 0 /\ Told(N \cup {x}, "knock.requested", l.id)
        /\ ~Told(N \cup {x}, "knock.result", l.id) /\ ~Told(N \cup {x}, "knock.accepted", l.id)
  BY <1>3, <1>7, <1>8
<1>11. KnockFits(knock, A \cup {k}, n + 1, N \cup {x}, R)
  BY <1>2, <1>3, <1>4, <1>9, <1>10 DEF KnockFits
<1> QED
  BY <1>1, <1>6, <1>11

\* The end of a refused invitation is told of behind what is under way about that friend.
LEMMA InviteRefusal ==
  ASSUME InvitesAgree, NEW K, NEW R, NEW h, going = R \cup {h},
         h.type = "contact.invite",
         \A r \in R : MayBeAskedBefore(h, r),
         NEW x, x.type = "contact.refused", x.peer = h.peer, K \subseteq behind \cup {x}
  PROVE  /\ InvitesFit(askOperation, askRoom, askTargets, srvAsks, coming \cup {x}, K, R)
         /\ \A y \in coming : (y.type \in Ends => y.peer # h.peer) /\ y.type # "room.left"
<1>1. /\ ~Over(coming, h.peer) /\ (askOperation \notin Leaves => askRoom /\ h.peer \in askTargets)
      /\ \A y \in coming : y.type # "room.left"
  BY DEF InvitesAgree, InvitesFit
<1>2. \A k \in srvAsks : k.kind = "contact" /\ k.mine => k.peer # h.peer
  BY DEF InvitesAgree, InvitesFit
<1>3. \A r \in R : r.type = "contact.invite" => r.peer # h.peer
  BY DEF MayBeAskedBefore
<1>4. \A p : p # h.peer /\ ~Over(coming, p) => ~Over(coming \cup {x}, p)
  BY DEF Over
<1>5. \A k \in srvAsks : k.kind = "contact" /\ k.mine =>
        /\ ~Over(coming \cup {x}, k.peer)
        /\ \A r \in R : ~(r.type = "contact.invite" /\ r.peer = k.peer)
        /\ askOperation \notin Leaves => askRoom /\ k.peer \in askTargets
  BY <1>2, <1>4 DEF InvitesAgree, InvitesFit
<1>6. \A r \in R : r.type = "contact.invite" =>
        /\ ~Over(coming \cup {x}, r.peer)
        /\ askOperation \notin Leaves => askRoom /\ r.peer \in askTargets
        /\ \A y \in coming \cup {x} : y.type # "room.left"
  BY <1>1, <1>3, <1>4 DEF InvitesAgree, InvitesFit
<1>7. askOperation \notin Leaves => \A y \in K : y.type \in Ends => askRoom /\ y.peer \in askTargets
  BY <1>1 DEF InvitesAgree, InvitesFit
<1> QED
  BY <1>1, <1>5, <1>6, <1>7 DEF InvitesAgree, InvitesFit, Over

\* The invitation the server takes is of a friend the client takes to be asked.
LEMMA InviteBegins ==
  ASSUME InvitesAgree, NEW R, NEW h, going = R \cup {h}, h.type = "contact.invite",
         \A r \in R : MayBeAskedBefore(h, r),
         NEW k, k.kind = "contact", k.mine, k.peer = h.peer
  PROVE  InvitesFit(askOperation, askRoom, askTargets, srvAsks \cup {k}, coming, behind, R)
<1>1. /\ ~Over(coming, h.peer) /\ (askOperation \notin Leaves => askRoom /\ h.peer \in askTargets)
  BY DEF InvitesAgree, InvitesFit
<1>2. \A r \in R : r.type = "contact.invite" => r.peer # h.peer
  BY DEF MayBeAskedBefore
<1> QED
  BY <1>1, <1>2 DEF InvitesAgree, InvitesFit

\* A new knock of a friend is on its way to the user.
LEMMA PromptBegins ==
  ASSUME NEW A, NEW n \in Nat, NEW prompt, NEW N, NEW Q, PromptFits(prompt, A, N, Q),
         \A y \in N : NoteTyped(y, n), \A r \in Q : RequestTyped(r, n), prompt # NoValue => prompt.id \in 1 .. n,
         NEW x, x.type = "knock.invitation", x.id = n + 1,
         NEW k, k.kind = "knock", ~k.mine, k.id = n + 1, k.peer = x.peer, k.mesh = x.mesh
  PROVE  PromptFits(prompt, A \cup {k}, N \cup {x}, Q)
<1>1. \A y \in N : y.type \in {"knock.closed", "knock.failed"} => y.id # n + 1
  BY DEF NoteTyped
<1>2. /\ ~Told(N \cup {x}, "knock.closed", n + 1) /\ ~Told(N \cup {x}, "knock.failed", n + 1)
  BY <1>1 DEF Told
<1>3. ~Sent(Q, "knock.respond", n + 1)
  BY DEF Sent, RequestTyped
<1>4. \A i : /\ Told(N \cup {x}, "knock.closed", i) <=> Told(N, "knock.closed", i)
             /\ Told(N \cup {x}, "knock.failed", i) <=> Told(N, "knock.failed", i)
  BY DEF Told
<1>5. ASSUME NEW l \in A \cup {k}, l.kind = "knock", ~l.mine
      PROVE
       /\ \/ \E y \in N \cup {x} : y.type = "knock.invitation" /\ y.id = l.id /\ y.peer = l.peer /\ y.mesh = l.mesh
          \/ prompt # NoValue /\ prompt.id = l.id /\ prompt.from = l.peer /\ prompt.mesh = l.mesh
          \/ Sent(Q, "knock.respond", l.id)
          \/ \E r \in Q : r.type = "mesh.leave" /\ r.mesh = l.mesh
       /\ ~Told(N \cup {x}, "knock.closed", l.id) /\ ~Told(N \cup {x}, "knock.failed", l.id)
  <2>1. CASE l \in A
    <3>1. /\ \/ \E y \in N : y.type = "knock.invitation" /\ y.id = l.id /\ y.peer = l.peer /\ y.mesh = l.mesh
             \/ prompt # NoValue /\ prompt.id = l.id /\ prompt.from = l.peer /\ prompt.mesh = l.mesh
             \/ Sent(Q, "knock.respond", l.id)
             \/ \E r \in Q : r.type = "mesh.leave" /\ r.mesh = l.mesh
          /\ ~Told(N, "knock.closed", l.id) /\ ~Told(N, "knock.failed", l.id)
      BY <1>5, <2>1 DEF PromptFits
    <3>2. ~Told(N \cup {x}, "knock.closed", l.id) /\ ~Told(N \cup {x}, "knock.failed", l.id)
      BY <1>4, <3>1
    <3> QED
      BY <3>1, <3>2
  <2>2. CASE l = k
    BY <1>2, <2>2
  <2> QED
    BY <2>1, <2>2
<1>6. prompt # NoValue =>
       /\ \/ \E l \in A \cup {k} : l.kind = "knock" /\ ~l.mine /\ l.id = prompt.id /\ l.peer = prompt.from
          \/ Told(N \cup {x}, "knock.closed", prompt.id)
       /\ ~prompt.accepting =>
            ~Sent(Q, "knock.respond", prompt.id) /\ ~Told(N \cup {x}, "knock.failed", prompt.id)
  BY <1>4 DEF PromptFits
<1>7. ASSUME NEW y \in N \cup {x}, y.type = "knock.invitation"
      PROVE
       /\ \/ \E l \in A \cup {k} : l.kind = "knock" /\ ~l.mine /\ l.id = y.id /\ l.peer = y.peer
          \/ Told(N \cup {x}, "knock.closed", y.id)
       /\ ~Sent(Q, "knock.respond", y.id) /\ ~Told(N \cup {x}, "knock.failed", y.id)
       /\ prompt # NoValue => prompt.id # y.id
  <2>1. CASE y \in N
    <3>1. /\ \/ \E l \in A : l.kind = "knock" /\ ~l.mine /\ l.id = y.id /\ l.peer = y.peer
             \/ Told(N, "knock.closed", y.id)
          /\ ~Sent(Q, "knock.respond", y.id) /\ ~Told(N, "knock.failed", y.id)
          /\ prompt # NoValue => prompt.id # y.id
      BY <1>7, <2>1 DEF PromptFits
    <3>2. ~Told(N \cup {x}, "knock.failed", y.id)
      BY <1>4, <3>1
    <3>3. Told(N, "knock.closed", y.id) => Told(N \cup {x}, "knock.closed", y.id)
      BY <1>4
    <3> QED
      BY <3>1, <3>2, <3>3
  <2>2. CASE y = x
    <3>1. prompt # NoValue => prompt.id # n + 1
      OBVIOUS
    <3> QED
      BY <1>2, <1>3, <2>2, <3>1
  <2> QED
    BY <2>1, <2>2
<1> QED
  BY <1>5, <1>6, <1>7 DEF PromptFits

\* A new invitation by a friend is on its way to the user.
LEMMA FriendBegins ==
  ASSUME NEW A, NEW n \in Nat, NEW invite, NEW N, NEW Q, InviteFits(invite, A, N, Q),
         \A y \in N : NoteTyped(y, n),
         NEW x, x.type = "contact.invitation", x.id = n + 1,
         NEW k, k.kind = "contact", ~k.mine, k.id = n + 1, k.peer = x.peer
  PROVE  InviteFits(invite, A \cup {k}, N \cup {x}, Q)
<1>1. \A y \in N : y.type \in {"contact.closed", "contact.failed", "contact.accepted"} => y.id # n + 1
  BY DEF NoteTyped
<1>2. /\ ~Told(N \cup {x}, "contact.closed", n + 1) /\ ~Told(N \cup {x}, "contact.failed", n + 1)
      /\ ~Told(N \cup {x}, "contact.accepted", n + 1)
  BY <1>1 DEF Told
<1>4. \A i : /\ Told(N \cup {x}, "contact.closed", i) <=> Told(N, "contact.closed", i)
             /\ Told(N \cup {x}, "contact.failed", i) <=> Told(N, "contact.failed", i)
             /\ Told(N \cup {x}, "contact.accepted", i) <=> Told(N, "contact.accepted", i)
  BY DEF Told
<1>5. ASSUME NEW l \in A \cup {k}, l.kind = "contact", ~l.mine
      PROVE
       /\ \/ \E y \in N \cup {x} : y.type = "contact.invitation" /\ y.id = l.id /\ y.peer = l.peer
          \/ invite # NoValue /\ invite.id = l.id /\ invite.from = l.peer
          \/ Sent(Q, "contact.respond", l.id)
       /\ ~Told(N \cup {x}, "contact.closed", l.id) /\ ~Told(N \cup {x}, "contact.failed", l.id)
       /\ ~Told(N \cup {x}, "contact.accepted", l.id)
  <2>1. CASE l \in A
    <3>1. /\ \/ \E y \in N : y.type = "contact.invitation" /\ y.id = l.id /\ y.peer = l.peer
             \/ invite # NoValue /\ invite.id = l.id /\ invite.from = l.peer
             \/ Sent(Q, "contact.respond", l.id)
          /\ ~Told(N, "contact.closed", l.id) /\ ~Told(N, "contact.failed", l.id)
          /\ ~Told(N, "contact.accepted", l.id)
      BY <1>5, <2>1 DEF InviteFits
    <3>2. /\ ~Told(N \cup {x}, "contact.closed", l.id) /\ ~Told(N \cup {x}, "contact.failed", l.id)
          /\ ~Told(N \cup {x}, "contact.accepted", l.id)
      BY <1>4, <3>1
    <3> QED
      BY <3>1, <3>2
  <2>2. CASE l = k
    BY <1>2, <2>2
  <2> QED
    BY <2>1, <2>2
<1>6. invite # NoValue =>
       \/ \E l \in A \cup {k} : l.kind = "contact" /\ ~l.mine /\ l.id = invite.id /\ l.peer = invite.from
       \/ Told(N \cup {x}, "contact.closed", invite.id)
  BY <1>4 DEF InviteFits
<1>7. ASSUME NEW y \in N \cup {x}, y.type = "contact.invitation"
      PROVE
       \/ \E l \in A \cup {k} : l.kind = "contact" /\ ~l.mine /\ l.id = y.id /\ l.peer = y.peer
       \/ Told(N \cup {x}, "contact.closed", y.id)
  <2>1. CASE y \in N
    <3>1. \/ \E l \in A : l.kind = "contact" /\ ~l.mine /\ l.id = y.id /\ l.peer = y.peer
          \/ Told(N, "contact.closed", y.id)
      BY <1>7, <2>1 DEF InviteFits
    <3> QED
      BY <1>4, <3>1
  <2>2. CASE y = x
    BY <2>2
  <2> QED
    BY <2>1, <2>2
<1> QED
  BY <1>5, <1>6, <1>7 DEF InviteFits

\* One message of the server that ends nothing, behind all that is under way.
LEMMA Says ==
  ASSUME AsksInv, NEW answer, NEW X, Answers(answer, X), Say(answer),
         \A y \in coming, x \in X : MayPrecede(y, x),
         (\E y \in coming : y.type = "room.left") => \A x \in X : x.type \notin Ends
  PROVE  OrderedDown(askDown') /\ coming' = coming \cup X /\ behind' \subseteq behind \cup X
<1>1. IsSeq(answer) /\ requests(answer) = X /\ DOMAIN answer \subseteq {1}
  BY AnswersOf
<1>2. /\ \A i, j \in DOMAIN answer : i < j => MayPrecede(answer[i], answer[j])
      /\ \A j \in DOMAIN answer : answer[j].type \in RoomReplies => j = 1
  BY <1>1
<1>3. OrderedDown(askDown)
  BY DEF AsksInv
<1>4. /\ OrderedDown(askDown \o Said(answer))
      /\ notes(askDown \o Said(answer)) = notes(askDown) \cup requests(answer)
      /\ later(askDown \o Said(answer)) \subseteq later(askDown) \cup requests(answer)
  BY <1>1, <1>2, <1>3, DownGrows DEF coming
<1> QED
  BY <1>1, <1>4 DEF Say, coming, behind

\* Identifiers stay what they are when one more is taken.
LEMMA TypedMore ==
  ASSUME NEW n \in Nat, NEW m \in Nat, n <= m
  PROVE  /\ \A x : NoteTyped(x, n) => NoteTyped(x, m)
         /\ \A r : RequestTyped(r, n) => RequestTyped(r, m)
         /\ \A k : AskTyped(k, n) => AskTyped(k, m)
<1>1. 1 .. n \subseteq 1 .. m
  OBVIOUS
<1>2. \A x : NoteTyped(x, n) => NoteTyped(x, m)
  BY <1>1 DEF NoteTyped
<1>3. \A r : RequestTyped(r, n) => RequestTyped(r, m)
  BY <1>1 DEF RequestTyped
<1>4. \A k : AskTyped(k, n) => AskTyped(k, m)
  BY <1>1 DEF AskTyped
<1> QED
  BY <1>2, <1>3, <1>4

\* What a step of the server keeps that says one thing and begins at most one ask.
LEMMA BegunKeeps ==
  ASSUME AsksInv, clientStays, srvRoom' = srvRoom, ServerKnows',
         askIds' \in Nat, askIds <= askIds',
         OrderedUp(askUp'), going' \subseteq going, Alike(going, going', RoomRequests),
         NEW X, OrderedDown(askDown'), coming' = coming \cup X,
         \A x \in X : NoteTyped(x, askIds') /\ x.type \notin RoomReplies,
         NEW A, srvAsks' = srvAsks \cup A, IsFiniteSet(A), \A k \in A : AskTyped(k, askIds'),
         \A k \in A : k.id \notin 1 .. askIds, \A k, l \in A : k = l,
         KnockAgrees', PromptAgrees', InviteAgrees', InvitesAgree', WantAgrees'
  PROVE  AsksInv'
<1>1. askIds \in Nat
  BY DEF AsksInv, Typed
<1>2. /\ \A x : NoteTyped(x, askIds) => NoteTyped(x, askIds')
      /\ \A r : RequestTyped(r, askIds) => RequestTyped(r, askIds')
      /\ \A k : AskTyped(k, askIds) => AskTyped(k, askIds')
  BY <1>1, TypedMore
<1>3. Typed'
  <2>1. \A x \in coming' : NoteTyped(x, askIds')
    BY <1>2 DEF AsksInv, Typed, coming
  <2>2. \A r \in going' : RequestTyped(r, askIds')
    BY <1>2 DEF AsksInv, Typed, going
  <2>3. IsFiniteSet(srvAsks')
    BY FS_Union DEF AsksInv, Typed
  <2>4. \A k \in srvAsks' : AskTyped(k, askIds')
    BY <1>2 DEF AsksInv, Typed
  <2>5. \A k \in srvAsks : k.id \in 1 .. askIds
    BY DEF AsksInv, Typed, AskTyped
  <2>6. \A k, l \in srvAsks' : k.id = l.id => k = l
    BY <2>5 DEF AsksInv, Typed
  <2>7. askMade' \in Nat /\ askOnline' \in BOOLEAN
    BY DEF AsksInv, Typed, clientStays
  <2> QED
    BY <2>1, <2>2, <2>3, <2>4, <2>6, <2>7 DEF Typed, coming, going
<1>4. ClientStands'
  BY <1>1, ClientStill DEF AsksInv, clientStays, promptVars, askRoomVars
<1>5. RoomAgrees'
  <2>1. Alike(coming, coming', RoomReplies)
    BY DEF Alike
  <2> QED
    BY <2>1, RoomStill DEF AsksInv, Agreement, clientStays, askRoomVars
<1>6. OrderedUp(askUp)' /\ OrderedDown(askDown)'
  OBVIOUS
<1> QED
  BY <1>3, <1>4, <1>5, <1>6 DEF AsksInv, Agreement

\* A knock the server does not take.
LEMMA KnockRefusedKeeps ==
  ASSUME AsksInv, clientStays, askUp # <<>>, askUp' = Tail(askUp),
         Head(askUp).type = "knock.request", Refused("knock.refused", Head(askUp).peer)
  PROVE  AsksInv'
<1> DEFINE h == Head(askUp)
<1>1. /\ OrderedUp(askUp') /\ going = going' \cup {h} /\ RequestTyped(h, askIds)
      /\ \A r \in going' : MayBeAskedBefore(h, r)
      /\ \A S : h.type \notin S => Alike(going, going', S)
  BY Serving
<1>2. h.type = "knock.request" /\ h.peer \in Friends
  BY <1>1 DEF RequestTyped
<1>3. PICK x : x = [type |-> "knock.refused", peer |-> h.peer]
  OBVIOUS
<1>4. Say(<<x>>) /\ UNCHANGED <<srvProfile, srvRoom, srvAsks, askIds>>
  BY <1>3 DEF Refused, srvVars
<1> HIDE DEF h
<1>5. x.type = "knock.refused" /\ x.peer = h.peer
  BY <1>3
<1>6. KnockFits(askKnock, srvAsks, askIds, coming, going)
  BY DEF AsksInv, Agreement, KnockAgrees
<1>7. /\ KnockFits(askKnock, srvAsks, askIds, coming \cup {x}, going')
      /\ \A y \in coming : y.type \notin Replies
  BY <1>1, <1>2, <1>5, <1>6, KnockRefusal
<1>8. \A y \in coming, z \in {x} : MayPrecede(y, z)
  BY <1>5, <1>7 DEF MayPrecede, RoomReplies, Ends
<1>9. x.type \notin Ends \cup RoomReplies /\ Answers(<<x>>, {x})
  BY <1>5, AnswerIs DEF Ends, RoomReplies
<1>10. OrderedDown(askDown') /\ coming' = coming \cup {x} /\ behind' \subseteq behind \cup {x}
  BY <1>4, <1>8, <1>9, Says
<1>11. askIds' \in Nat /\ askIds \in Nat /\ askIds <= askIds' /\ askIds' = askIds
  BY <1>4 DEF AsksInv, Typed
<1>12. /\ \A T : x.type \notin T => Alike(coming, coming', T)
       /\ \A kind, mine : Same(srvAsks, srvAsks', kind, mine)
  BY <1>4, <1>10, AsksAlike DEF Alike
<1>13. KnockAgrees'
  BY <1>4, <1>7, <1>10 DEF KnockAgrees, clientStays, promptVars
<1>14. PromptAgrees' /\ InviteAgrees'
  <2>1. Alike(coming, coming', PromptNotes) /\ Alike(going, going', PromptRequests)
    BY <1>1, <1>2, <1>5, <1>12 DEF PromptNotes, PromptRequests
  <2>2. Alike(coming, coming', InviteNotes) /\ Alike(going, going', {"contact.respond"})
    BY <1>1, <1>2, <1>5, <1>12 DEF InviteNotes
  <2>3. PromptAgrees'
    BY <1>12, <2>1, PromptStill DEF AsksInv, Agreement, clientStays, promptVars
  <2>4. InviteAgrees'
    BY <1>12, <2>2, InviteStill DEF AsksInv, Agreement, clientStays, promptVars
  <2> QED
    BY <2>3, <2>4
<1>15. InvitesAgree'
  <2>1. Alike(coming, coming', EndNotes) /\ Alike(going, going', {"contact.invite"})
    BY <1>1, <1>2, <1>5, <1>12 DEF EndNotes, Ends
  <2>2. \A y \in behind' : y.type \in Ends => y \in behind
    BY <1>9, <1>10
  <2> QED
    BY <1>12, <2>1, <2>2, InvitesStill DEF AsksInv, Agreement, clientStays, askRoomVars
<1>16. WantAgrees'
  <2>1. /\ \A y \in coming' : y.type \in Ends \cup {"knock.failed"} => y \in coming
        /\ \A r \in going' : r.type = "knock.respond" => r \in going
    BY <1>1, <1>5, <1>9, <1>10
  <2> QED
    BY <2>1, WantStill DEF AsksInv, Agreement, clientStays, askRoomVars, promptVars
<1>17. ServerKnows'
  BY <1>4 DEF AsksInv, ServerKnows, clientStays
<1>18. \A z \in {x} : NoteTyped(z, askIds') /\ z.type \notin RoomReplies
  BY <1>2, <1>5, <1>9 DEF NoteTyped
<1>19. Alike(going, going', RoomRequests) /\ going' \subseteq going
  BY <1>1, <1>2 DEF RoomRequests
<1>20. PICK A : A = {}
  OBVIOUS
<1>21. /\ srvAsks' = srvAsks \cup A /\ IsFiniteSet(A)
       /\ \A k \in A : AskTyped(k, askIds') /\ k.id \notin 1 .. askIds
       /\ \A k, l \in A : k = l
  BY <1>4, <1>20, FS_EmptySet
<1> QED
  BY <1>1, <1>4, <1>10, <1>11, <1>13, <1>14, <1>15, <1>16, <1>17, <1>18, <1>19, <1>21, BegunKeeps

\* A new ask of the server's: what Begin says of it.
LEMMA BeginIs ==
  ASSUME AsksInv, NEW kind \in {"knock", "contact"}, NEW mine \in BOOLEAN, NEW peer \in Friends,
         NEW mesh \in Conversations \cup {NoValue}, NEW messages, Begin(kind, mine, peer, mesh, messages)
  PROVE  /\ askIds' = askIds + 1 /\ askIds \in Nat /\ askIds' \in Nat /\ askIds <= askIds'
         /\ Say(messages) /\ UNCHANGED <<srvProfile, srvRoom>>
         /\ \E k : /\ srvAsks' = srvAsks \cup {k}
                   /\ k.kind = kind /\ k.id = askIds + 1 /\ k.mine = mine /\ k.peer = peer /\ k.mesh = mesh
                   /\ AskTyped(k, askIds') /\ k.id \notin 1 .. askIds
<1>1. askIds \in Nat
  BY DEF AsksInv, Typed
<1>2. askIds' = askIds + 1 /\ Say(messages) /\ UNCHANGED <<srvProfile, srvRoom>>
  BY DEF Begin, newId
<1>3. PICK k : k = [kind |-> kind, id |-> askIds + 1, mine |-> mine, peer |-> peer, mesh |-> mesh]
  OBVIOUS
<1>4. srvAsks' = srvAsks \cup {k}
  BY <1>3 DEF Begin, newId
<1>5. k.kind = kind /\ k.id = askIds + 1 /\ k.mine = mine /\ k.peer = peer /\ k.mesh = mesh
  BY <1>3
<1>6. askIds + 1 \in 1 .. askIds' /\ askIds + 1 \notin 1 .. askIds
  BY <1>1, <1>2
<1>7. AskTyped(k, askIds')
  BY <1>3, <1>6 DEF AskTyped
<1> QED
  BY <1>1, <1>2, <1>4, <1>5, <1>6, <1>7

\* What a new invitation by the user changes at the server.
LEMMA InviteBegun ==
  ASSUME AsksInv, NEW mine \in BOOLEAN, NEW peer \in Friends, NEW messages, Begin("contact", mine, peer, NoValue, messages)
  PROVE  /\ askIds' = askIds + 1 /\ askIds \in Nat /\ askIds' \in Nat /\ askIds <= askIds'
         /\ Say(messages) /\ UNCHANGED <<srvProfile, srvRoom>>
         /\ \E k : /\ srvAsks' = srvAsks \cup {k}
                   /\ k.kind = "contact" /\ k.id = askIds + 1 /\ k.mine = mine /\ k.peer = peer
                   /\ AskTyped(k, askIds') /\ k.id \notin 1 .. askIds
<1>1. PICK k : /\ srvAsks' = srvAsks \cup {k}
               /\ k.kind = "contact" /\ k.id = askIds + 1 /\ k.mine = mine /\ k.peer = peer
               /\ AskTyped(k, askIds') /\ k.id \notin 1 .. askIds
  BY BeginIs
<1> QED
  BY <1>1, BeginIs

\* A knock the server takes keeps the agreement.
LEMMA KnockBegunKeeps ==
  ASSUME AsksInv, clientStays, askOnline, askUp # <<>>, askUp' = Tail(askUp),
         Head(askUp).type = "knock.request", srvProfile # NoValue,
         \A k \in srvAsks : ~(k.kind = "knock" /\ k.mine),
         Begin("knock", TRUE, Head(askUp).peer, Head(askUp).peer, <<[type |-> "knock.requested", id |-> newId]>>)
  PROVE  AsksInv'
<1> DEFINE h == Head(askUp)
<1>1. /\ OrderedUp(askUp') /\ going = going' \cup {h} /\ RequestTyped(h, askIds)
      /\ \A r \in going' : MayBeAskedBefore(h, r)
      /\ \A S : h.type \notin S => Alike(going, going', S)
  BY Serving
<1>2. h.type = "knock.request" /\ h.peer \in Friends /\ h.peer \in Conversations
  BY <1>1 DEF RequestTyped, Conversations
<1>3. PICK x : x = [type |-> "knock.requested", id |-> askIds + 1]
  OBVIOUS
<1>4. Begin("knock", TRUE, h.peer, h.peer, <<x>>)
  BY <1>3 DEF newId
<1> HIDE DEF h
<1>5. x.type = "knock.requested" /\ x.id = askIds + 1
  BY <1>3
<1>25. PICK mine \in BOOLEAN : mine = TRUE
  OBVIOUS
<1>26. Begin("knock", mine, h.peer, h.peer, <<x>>)
  BY <1>4, <1>25, Zenon
<1>6. PICK k : /\ srvAsks' = srvAsks \cup {k}
               /\ k.kind = "knock" /\ k.id = askIds + 1 /\ k.mine = mine /\ k.peer = h.peer
               /\ AskTyped(k, askIds') /\ k.id \notin 1 .. askIds
  BY <1>2, <1>26, BeginIs
<1>7. /\ askIds' = askIds + 1 /\ askIds \in Nat /\ askIds' \in Nat /\ askIds <= askIds'
      /\ Say(<<x>>) /\ UNCHANGED <<srvProfile, srvRoom>>
  BY <1>2, <1>26, BeginIs
<1>8. KnockFits(askKnock, srvAsks, askIds, coming, going) /\ \A y \in coming : NoteTyped(y, askIds)
  BY DEF AsksInv, Agreement, KnockAgrees, Typed, coming
<1>9. k.mine
  BY <1>6, <1>25
<1>10. /\ KnockFits(askKnock, srvAsks \cup {k}, askIds + 1, coming \cup {x}, going')
       /\ \A y \in coming : y.type \notin Replies /\ (y.type = "knock.result" => y.id # askIds + 1)
  <2>1. going = going' \cup {h} /\ \A r \in going' : MayBeAskedBefore(h, r)
    BY <1>1
  <2>2. k.kind = "knock" /\ k.id = askIds + 1 /\ k.peer = h.peer /\ askIds \in Nat
    BY <1>6, <1>7
  <2> QED
    BY ONLY <1>2, <1>5, <1>8, <1>9, <2>1, <2>2, KnockBegins
<1>11. \A y \in coming, z \in {x} : MayPrecede(y, z)
  BY <1>5, <1>10 DEF MayPrecede, RoomReplies, Ends
<1>12. x.type \notin Ends \cup RoomReplies /\ Answers(<<x>>, {x})
  BY <1>5, AnswerIs DEF Ends, RoomReplies
<1>13. OrderedDown(askDown') /\ coming' = coming \cup {x} /\ behind' \subseteq behind \cup {x}
  BY <1>7, <1>11, <1>12, Says
<1>14. KnockAgrees'
  BY <1>6, <1>7, <1>10, <1>13 DEF KnockAgrees, clientStays, promptVars
<1>15. /\ \A T : x.type \notin T => Alike(coming, coming', T)
  BY <1>13 DEF Alike
<1>16. /\ Same(srvAsks, srvAsks', "knock", FALSE) /\ Same(srvAsks, srvAsks', "contact", FALSE)
       /\ Same(srvAsks, srvAsks', "contact", TRUE)
  BY <1>6, <1>9 DEF Same
<1>17. PromptAgrees'
  <2>1. Alike(coming, coming', PromptNotes) /\ Alike(going, going', PromptRequests)
    BY <1>1, <1>2, <1>5, <1>15 DEF PromptNotes, PromptRequests
  <2> QED
    BY <1>16, <2>1, PromptStill DEF AsksInv, Agreement, clientStays, promptVars
<1>18. InviteAgrees'
  <2>1. Alike(coming, coming', InviteNotes) /\ Alike(going, going', {"contact.respond"})
    BY <1>1, <1>2, <1>5, <1>15 DEF InviteNotes
  <2> QED
    BY <1>16, <2>1, InviteStill DEF AsksInv, Agreement, clientStays, promptVars
<1>19. InvitesAgree'
  <2>1. Alike(coming, coming', EndNotes) /\ Alike(going, going', {"contact.invite"})
    BY <1>1, <1>2, <1>5, <1>15 DEF EndNotes, Ends
  <2>2. \A y \in behind' : y.type \in Ends => y \in behind
    BY <1>12, <1>13
  <2> QED
    BY <1>16, <2>1, <2>2, InvitesStill DEF AsksInv, Agreement, clientStays, askRoomVars
<1>20. WantAgrees'
  <2>1. /\ \A y \in coming' : y.type \in Ends \cup {"knock.failed"} => y \in coming
        /\ \A r \in going' : r.type = "knock.respond" => r \in going
    BY <1>1, <1>5, <1>12, <1>13
  <2> QED
    BY <2>1, WantStill DEF AsksInv, Agreement, clientStays, askRoomVars, promptVars
<1>21. ServerKnows'
  BY <1>6, <1>7, <1>9 DEF AsksInv, ServerKnows, clientStays
<1>22. \A z \in {x} : NoteTyped(z, askIds') /\ z.type \notin RoomReplies
  BY <1>5, <1>7, <1>12 DEF NoteTyped
<1>23. Alike(going, going', RoomRequests) /\ going' \subseteq going
  BY <1>1, <1>2 DEF RoomRequests
<1>24. /\ IsFiniteSet({k}) /\ (\A l \in {k} : AskTyped(l, askIds')) /\ (\A l \in {k} : l.id \notin 1 .. askIds)
       /\ \A l, m \in {k} : l = m
  BY <1>6, FS_Singleton
<1>27. PICK X : X = {x}
  OBVIOUS
<1>28. PICK K : K = {k}
  OBVIOUS
<1>29. /\ OrderedUp(askUp') /\ OrderedDown(askDown') /\ coming' = coming \cup X /\ srvAsks' = srvAsks \cup K
       /\ srvRoom' = srvRoom /\ askIds' \in Nat /\ askIds <= askIds'
  BY <1>1, <1>6, <1>7, <1>13, <1>27, <1>28
<1>30. /\ IsFiniteSet(K) /\ (\A l \in K : AskTyped(l, askIds')) /\ (\A l \in K : l.id \notin 1 .. askIds)
       /\ \A l, m \in K : l = m
  BY <1>24, <1>28
<1>31. \A z \in X : NoteTyped(z, askIds') /\ z.type \notin RoomReplies
  BY <1>22, <1>27
<1> QED
  BY <1>14, <1>17, <1>18, <1>19, <1>20, <1>21, <1>23, <1>29, <1>30, <1>31, BegunKeeps

\* An invitation the server does not take.
LEMMA InviteRefusedKeeps ==
  ASSUME AsksInv, clientStays, askUp # <<>>, askUp' = Tail(askUp),
         Head(askUp).type = "contact.invite", Refused("contact.refused", Head(askUp).peer)
  PROVE  AsksInv'
<1> DEFINE h == Head(askUp)
<1>1. /\ OrderedUp(askUp') /\ going = going' \cup {h} /\ RequestTyped(h, askIds)
      /\ \A r \in going' : MayBeAskedBefore(h, r)
      /\ \A S : h.type \notin S => Alike(going, going', S)
  BY Serving
<1>2. h.type = "contact.invite" /\ h.peer \in Friends
  BY <1>1 DEF RequestTyped
<1>3. PICK x : x = [type |-> "contact.refused", peer |-> h.peer]
  OBVIOUS
<1>4. Say(<<x>>) /\ UNCHANGED <<srvProfile, srvRoom, srvAsks, askIds>>
  BY <1>3 DEF Refused, srvVars
<1> HIDE DEF h
<1>5. x.type = "contact.refused" /\ x.peer = h.peer
  BY <1>3
<1>6. InvitesAgree
  BY DEF AsksInv, Agreement
<1>7. ASSUME NEW K, K \subseteq behind \cup {x}
      PROVE  /\ InvitesFit(askOperation, askRoom, askTargets, srvAsks, coming \cup {x}, K, going')
             /\ \A y \in coming : (y.type \in Ends => y.peer # h.peer) /\ y.type # "room.left"
  <2>1. ASSUME NEW R, R = going'
        PROVE  /\ InvitesFit(askOperation, askRoom, askTargets, srvAsks, coming \cup {x}, K, R)
               /\ \A y \in coming : (y.type \in Ends => y.peer # h.peer) /\ y.type # "room.left"
    <3>1. going = R \cup {h} /\ \A r \in R : MayBeAskedBefore(h, r)
      BY <1>1, <2>1
    <3> QED
      BY <1>2, <1>5, <1>6, <1>7, <3>1, InviteRefusal
  <2> QED
    BY <2>1
<1>8. \A y \in coming : (y.type \in Ends => y.peer # h.peer) /\ y.type # "room.left"
  <2>1. behind \subseteq behind \cup {x}
    OBVIOUS
  <2> QED
    BY <1>7, <2>1
<1>9. \A y \in coming, z \in {x} : MayPrecede(y, z)
  BY <1>5, <1>8 DEF MayPrecede, RoomReplies, Replies
<1>10. x.type \notin RoomReplies /\ Answers(<<x>>, {x})
  BY <1>5, AnswerIs DEF RoomReplies
<1>11. OrderedDown(askDown') /\ coming' = coming \cup {x} /\ behind' \subseteq behind \cup {x}
  BY <1>4, <1>8, <1>9, <1>10, Says
<1>12. askIds' \in Nat /\ askIds \in Nat /\ askIds <= askIds' /\ askIds' = askIds
  BY <1>4 DEF AsksInv, Typed
<1>13. /\ \A T : x.type \notin T => Alike(coming, coming', T)
       /\ \A kind, mine : Same(srvAsks, srvAsks', kind, mine)
  BY <1>4, <1>11, AsksAlike DEF Alike
<1>14. InvitesAgree'
  <2>1. InvitesFit(askOperation, askRoom, askTargets, srvAsks, coming \cup {x}, behind', going')
    BY <1>7, <1>11
  <2>2. UNCHANGED <<askOperation, askRoom, askTargets, srvAsks>>
    BY <1>4 DEF clientStays, askRoomVars
  <2> QED
    BY <1>11, <2>1, <2>2 DEF InvitesAgree
<1>15. KnockAgrees'
  <2>1. Alike(coming, coming', KnockNotes) /\ Alike(going, going', {"knock.request"})
    BY <1>1, <1>2, <1>5, <1>13 DEF KnockNotes, Replies
  <2> QED
    BY <1>12, <1>13, <2>1, KnockStill DEF AsksInv, Agreement, clientStays, promptVars
<1>16. PromptAgrees' /\ InviteAgrees'
  <2>1. Alike(coming, coming', PromptNotes) /\ Alike(going, going', PromptRequests)
    BY <1>1, <1>2, <1>5, <1>13 DEF PromptNotes, PromptRequests
  <2>2. Alike(coming, coming', InviteNotes) /\ Alike(going, going', {"contact.respond"})
    BY <1>1, <1>2, <1>5, <1>13 DEF InviteNotes
  <2>3. PromptAgrees'
    BY <1>13, <2>1, PromptStill DEF AsksInv, Agreement, clientStays, promptVars
  <2>4. InviteAgrees'
    BY <1>13, <2>2, InviteStill DEF AsksInv, Agreement, clientStays, promptVars
  <2> QED
    BY <2>3, <2>4
<1>17. WantAgrees'
  <2>1. h \in going
    BY <1>1
  <2>2. askOperation \notin Leaves => askRoom
    BY <1>2, <1>6, <2>1 DEF InvitesAgree, InvitesFit
  <2>3. askWanted => askOperation \notin Leaves /\ ~askRoom
    BY DEF AsksInv, ClientStands, RoomStands, Leaves
  <2>4. ~askWanted'
    BY <2>2, <2>3 DEF clientStays, askRoomVars
  <2> QED
    BY <2>4 DEF WantAgrees, WantFits
<1>18. ServerKnows'
  BY <1>4 DEF AsksInv, ServerKnows, clientStays
<1>19. \A z \in {x} : NoteTyped(z, askIds') /\ z.type \notin RoomReplies
  BY <1>2, <1>5, <1>10 DEF NoteTyped
<1>20. Alike(going, going', RoomRequests) /\ going' \subseteq going
  BY <1>1, <1>2 DEF RoomRequests
<1>21. PICK A : A = {}
  OBVIOUS
<1>22. /\ srvAsks' = srvAsks \cup A /\ IsFiniteSet(A)
       /\ \A k \in A : AskTyped(k, askIds') /\ k.id \notin 1 .. askIds
       /\ \A k, l \in A : k = l
  BY <1>4, <1>21, FS_EmptySet
<1> QED
  BY <1>1, <1>4, <1>11, <1>12, <1>14, <1>15, <1>16, <1>17, <1>18, <1>19, <1>20, <1>22, BegunKeeps

\* An invitation by the user the server takes keeps the agreement.
LEMMA InviteBegunKeeps ==
  ASSUME AsksInv, clientStays, askUp # <<>>, askUp' = Tail(askUp),
         Head(askUp).type = "contact.invite", srvProfile # NoValue, srvRoom,
         \A k \in srvAsks : ~(k.kind = "contact" /\ k.mine /\ k.peer = Head(askUp).peer),
         Begin("contact", TRUE, Head(askUp).peer, NoValue, <<>>)
  PROVE  AsksInv'
<1> DEFINE h == Head(askUp)
<1>1. /\ OrderedUp(askUp') /\ going = going' \cup {h} /\ RequestTyped(h, askIds)
      /\ \A r \in going' : MayBeAskedBefore(h, r)
      /\ \A S : h.type \notin S => Alike(going, going', S)
  BY Serving
<1>2. h.type = "contact.invite" /\ h.peer \in Friends
  BY <1>1 DEF RequestTyped
<1>3. \A k \in srvAsks : ~(k.kind = "contact" /\ k.mine /\ k.peer = h.peer)
  OBVIOUS
<1>4. Begin("contact", TRUE, h.peer, NoValue, <<>>)
  OBVIOUS
<1> HIDE DEF h
<1>5. PICK mine \in BOOLEAN : mine = TRUE
  OBVIOUS
<1>22. PICK peer \in Friends : peer = h.peer
  BY <1>2
<1>24. PICK messages : messages = <<>>
  OBVIOUS
<1>6. Begin("contact", mine, peer, NoValue, messages)
  BY <1>4, <1>5, <1>22, <1>24, Zenon
<1>23. PICK k : /\ srvAsks' = srvAsks \cup {k}
                /\ k.kind = "contact" /\ k.id = askIds + 1 /\ k.mine = mine /\ k.peer = peer
                /\ AskTyped(k, askIds') /\ k.id \notin 1 .. askIds
  BY <1>6, InviteBegun
<1>7. /\ srvAsks' = srvAsks \cup {k}
      /\ k.kind = "contact" /\ k.id = askIds + 1 /\ k.mine = mine /\ k.peer = h.peer
      /\ AskTyped(k, askIds') /\ k.id \notin 1 .. askIds
  BY <1>22, <1>23
<1>8. /\ askIds' = askIds + 1 /\ askIds \in Nat /\ askIds' \in Nat /\ askIds <= askIds'
      /\ Say(messages) /\ UNCHANGED <<srvProfile, srvRoom>>
  BY <1>6, BeginIs
<1>9. k.mine
  BY <1>5, <1>7
<1>10. PICK X : X = {}
  OBVIOUS
<1>11. OrderedDown(askDown') /\ coming' = coming \cup X /\ behind' \subseteq behind \cup X
  <2>1. /\ Answers(messages, X) /\ \A y \in coming, x \in X : MayPrecede(y, x)
        /\ \A x \in X : x.type \notin Ends
    BY <1>10, <1>24, AnswerIs
  <2> QED
    BY <1>8, <2>1, Says
<1>12. coming' = coming /\ behind' \subseteq behind
  BY <1>10, <1>11
<1>13. /\ \A T : Alike(coming, coming', T)
       /\ Same(srvAsks, srvAsks', "knock", FALSE) /\ Same(srvAsks, srvAsks', "contact", FALSE)
       /\ Same(srvAsks, srvAsks', "knock", TRUE)
  BY <1>7, <1>9, <1>12 DEF Alike, Same
<1>14. InvitesAgree'
  <2>1. InvitesAgree
    BY DEF AsksInv, Agreement
  <2>2. ASSUME NEW R, R = going'
        PROVE  InvitesFit(askOperation, askRoom, askTargets, srvAsks \cup {k}, coming, behind, R)
    <3>1. going = R \cup {h} /\ \A r \in R : MayBeAskedBefore(h, r)
      BY <1>1, <2>2
    <3> QED
      BY <1>2, <1>7, <1>9, <2>1, <3>1, InviteBegins
  <2>3. InvitesFit(askOperation, askRoom, askTargets, srvAsks', coming', behind, going')
    BY <1>7, <1>12, <2>2
  <2>4. InvitesFit(askOperation, askRoom, askTargets, srvAsks', coming', behind', going')
    BY <1>12, <2>3 DEF InvitesFit
  <2>5. UNCHANGED <<askOperation, askRoom, askTargets>>
    BY DEF clientStays, askRoomVars
  <2> QED
    BY <2>4, <2>5 DEF InvitesAgree
<1>15. KnockAgrees'
  <2>1. Alike(going, going', {"knock.request"})
    BY <1>1, <1>2
  <2> QED
    BY <1>8, <1>13, <2>1, KnockStill DEF AsksInv, Agreement, clientStays, promptVars
<1>16. PromptAgrees' /\ InviteAgrees'
  <2>1. Alike(going, going', PromptRequests) /\ Alike(going, going', {"contact.respond"})
    BY <1>1, <1>2 DEF PromptRequests
  <2>3. PromptAgrees'
    BY <1>13, <2>1, PromptStill DEF AsksInv, Agreement, clientStays, promptVars
  <2>4. InviteAgrees'
    BY <1>13, <2>1, InviteStill DEF AsksInv, Agreement, clientStays, promptVars
  <2> QED
    BY <2>3, <2>4
<1>17. WantAgrees'
  <2>1. /\ \A y \in coming' : y.type \in Ends \cup {"knock.failed"} => y \in coming
        /\ \A r \in going' : r.type = "knock.respond" => r \in going
    BY <1>1, <1>12
  <2> QED
    BY <2>1, WantStill DEF AsksInv, Agreement, clientStays, askRoomVars, promptVars
<1>18. ServerKnows'
  <2>1. /\ srvProfile' = srvProfile /\ srvRoom' = srvRoom /\ srvProfile # NoValue /\ srvRoom /\ askOnline' = askOnline
    BY <1>8 DEF clientStays
  <2>2. \A l, m \in srvAsks' : l.kind = "contact" /\ m.kind = "contact" /\ l.mine /\ m.mine /\ l.peer = m.peer => l = m
    BY <1>3, <1>7 DEF AsksInv, ServerKnows
  <2>3. \A l \in srvAsks' : l \in srvAsks \/ (l.kind = "contact" /\ l.mine)
    BY <1>7, <1>9
  <2> QED
    BY <2>1, <2>2, <2>3 DEF AsksInv, ServerKnows
<1>19. \A z \in X : NoteTyped(z, askIds') /\ z.type \notin RoomReplies
  BY <1>10
<1>20. Alike(going, going', RoomRequests) /\ going' \subseteq going
  BY <1>1, <1>2 DEF RoomRequests
<1>21. /\ IsFiniteSet({k}) /\ (\A l \in {k} : AskTyped(l, askIds')) /\ (\A l \in {k} : l.id \notin 1 .. askIds)
       /\ \A l, m \in {k} : l = m
  BY <1>7, FS_Singleton
<1> QED
  BY <1>1, <1>7, <1>8, <1>11, <1>14, <1>15, <1>16, <1>17, <1>18, <1>19, <1>20, <1>21, BegunKeeps

\* A request for a knock or an invitation, taken or refused, keeps the agreement.
LEMMA ServerAskedKeeps ==
  ASSUME AsksInv, clientStays, askOnline, askUp # <<>>, askUp' = Tail(askUp), ServerAsked(Head(askUp))
  PROVE  AsksInv'
  BY KnockRefusedKeeps, KnockBegunKeeps, InviteRefusedKeeps, InviteBegunKeeps DEF ServerAsked

\* The server serves one request of any kind.
LEMMA ServerReceivesKeeps ==
  ASSUME AsksInv, ServerReceives
  PROVE  AsksInv'
<1>1. clientStays /\ askOnline /\ askUp # <<>> /\ askUp' = Tail(askUp)
  BY DEF ServerReceives, clientStays
<1>2. \/ ServerPresence(Head(askUp)) \/ ServerRoom(Head(askUp)) \/ ServerAsked(Head(askUp))
      \/ \E kind \in {"knock", "contact"} : ServerAnswered(Head(askUp), kind)
  BY DEF ServerReceives
<1> QED
  BY <1>1, <1>2, ServerPresenceKeeps, ServerRoomKeeps, ServerAskedKeeps, ServerAnsweredKeeps

\* A friend knocks: the user is in a mesh that is known.
LEMMA FriendKnocksKeeps ==
  ASSUME AsksInv, NEW peer \in Friends, FriendKnocks(peer)
  PROVE  AsksInv'
<1>1. /\ srvProfile # NoValue /\ srvProfile.mesh # NoValue
      /\ \A k \in srvAsks : k.kind = "knock" => k.mine
      /\ clientStays /\ askUp' = askUp
      /\ Begin("knock", FALSE, peer, srvProfile.mesh,
               <<[type |-> "knock.invitation", id |-> newId, peer |-> peer, mesh |-> srvProfile.mesh]>>)
  BY DEF FriendKnocks, clientSide, clientStays
<1>2. srvProfile.mesh \in Conversations
  BY <1>1 DEF AsksInv, ServerKnows, Presences
<1>3. PICK x : x = [type |-> "knock.invitation", id |-> askIds + 1, peer |-> peer, mesh |-> srvProfile.mesh]
  OBVIOUS
<1>4. x.type = "knock.invitation" /\ x.id = askIds + 1 /\ x.peer = peer /\ x.mesh = srvProfile.mesh
  BY <1>3
<1>5. PICK mine \in BOOLEAN : mine = FALSE
  OBVIOUS
<1>6. Begin("knock", mine, peer, srvProfile.mesh, <<x>>)
  <2>1. Begin("knock", FALSE, peer, srvProfile.mesh, <<x>>)
    BY <1>1, <1>3 DEF newId
  <2> QED
    BY <1>5, <2>1, Zenon
<1>7. PICK k : /\ srvAsks' = srvAsks \cup {k}
               /\ k.kind = "knock" /\ k.id = askIds + 1 /\ k.mine = mine /\ k.peer = peer /\ k.mesh = srvProfile.mesh
               /\ AskTyped(k, askIds') /\ k.id \notin 1 .. askIds
  BY <1>2, <1>6, BeginIs
<1>8. /\ askIds' = askIds + 1 /\ askIds \in Nat /\ askIds' \in Nat /\ askIds <= askIds'
      /\ Say(<<x>>) /\ UNCHANGED <<srvProfile, srvRoom>>
  BY <1>2, <1>6, BeginIs
<1>9. ~k.mine
  BY <1>5, <1>7
<1>10. (\A y \in coming : NoteTyped(y, askIds)) /\ \A r \in going : RequestTyped(r, askIds)
  BY DEF AsksInv, Typed, coming, going
<1>11. \A y \in coming, z \in {x} : MayPrecede(y, z)
  BY <1>4, <1>8, <1>10 DEF MayPrecede, RoomReplies, Replies, Ends, NoteTyped
<1>12. x.type \notin Ends \cup RoomReplies /\ Answers(<<x>>, {x})
  BY <1>4, AnswerIs DEF Ends, RoomReplies
<1>13. OrderedDown(askDown') /\ coming' = coming \cup {x} /\ behind' \subseteq behind \cup {x}
  BY <1>8, <1>11, <1>12, Says
<1>14. going' = going
  BY <1>1 DEF going
<1>15. PromptAgrees'
  <2>1. PromptFits(askInKnock, srvAsks, coming, going)
    BY DEF AsksInv, Agreement, PromptAgrees
  <2>2. askInKnock # NoValue => askInKnock.id \in 1 .. askIds
    BY DEF AsksInv, ClientStands, PromptsStand
  <2>3. PromptFits(askInKnock, srvAsks \cup {k}, coming \cup {x}, going)
    BY <1>4, <1>7, <1>8, <1>9, <1>10, <2>1, <2>2, PromptBegins
  <2> QED
    BY <1>1, <1>7, <1>13, <1>14, <2>3 DEF PromptAgrees, clientStays, promptVars
<1>16. /\ \A T : x.type \notin T => Alike(coming, coming', T)
       /\ \A T : Alike(going, going', T)
       /\ Same(srvAsks, srvAsks', "knock", TRUE) /\ Same(srvAsks, srvAsks', "contact", FALSE)
       /\ Same(srvAsks, srvAsks', "contact", TRUE)
  BY <1>7, <1>9, <1>13, <1>14 DEF Alike, Same
<1>17. Alike(coming, coming', KnockNotes) /\ Alike(coming, coming', InviteNotes) /\ Alike(coming, coming', EndNotes)
  BY <1>4, <1>16 DEF KnockNotes, Replies, InviteNotes, EndNotes, Ends
<1>18. KnockAgrees'
  BY <1>1, <1>8, <1>16, <1>17, KnockStill DEF AsksInv, Agreement, clientStays, promptVars
<1>19. InviteAgrees'
  BY <1>1, <1>16, <1>17, InviteStill DEF AsksInv, Agreement, clientStays, promptVars
<1>20. InvitesAgree'
  <2>1. \A y \in behind' : y.type \in Ends => y \in behind
    BY <1>12, <1>13
  <2> QED
    BY <1>1, <1>16, <1>17, <2>1, InvitesStill DEF AsksInv, Agreement, clientStays, askRoomVars
<1>21. WantAgrees'
  <2>1. /\ \A y \in coming' : y.type \in Ends \cup {"knock.failed"} => y \in coming
        /\ \A r \in going' : r.type = "knock.respond" => r \in going
    BY <1>4, <1>12, <1>13, <1>14
  <2> QED
    BY <1>1, <2>1, WantStill DEF AsksInv, Agreement, clientStays, askRoomVars, promptVars
<1>22. ServerKnows'
  <2>1. /\ srvProfile' = srvProfile /\ srvRoom' = srvRoom /\ srvProfile # NoValue /\ askOnline' = askOnline
    BY <1>1, <1>8 DEF clientStays
  <2>2. \A l, m \in srvAsks' : l.kind = "knock" /\ m.kind = "knock" /\ l.mine = m.mine => l = m
    BY <1>1, <1>5, <1>7 DEF AsksInv, ServerKnows
  <2>3. \A l \in srvAsks' : l \in srvAsks \/ (l.kind = "knock" /\ ~l.mine /\ l.mesh = srvProfile.mesh)
    BY <1>7, <1>9
  <2>4. \A l \in srvAsks' : l.kind = "knock" /\ ~l.mine => l.mesh = srvProfile'.mesh /\ l.mesh # NoValue
    BY <1>1, <2>1, <2>3 DEF AsksInv, ServerKnows
  <2> QED
    BY <2>1, <2>2, <2>3, <2>4 DEF AsksInv, ServerKnows
<1>23. \A z \in {x} : NoteTyped(z, askIds') /\ z.type \notin RoomReplies
  BY <1>2, <1>4, <1>8, <1>12 DEF NoteTyped
<1>24. Alike(going, going', RoomRequests) /\ going' \subseteq going /\ OrderedUp(askUp')
  BY <1>1, <1>14, <1>16 DEF AsksInv
<1>25. /\ IsFiniteSet({k}) /\ (\A l \in {k} : AskTyped(l, askIds')) /\ (\A l \in {k} : l.id \notin 1 .. askIds)
       /\ \A l, m \in {k} : l = m
  BY <1>7, FS_Singleton
<1> QED
  BY <1>1, <1>7, <1>8, <1>13, <1>15, <1>18, <1>19, <1>20, <1>21, <1>22, <1>23, <1>24, <1>25, BegunKeeps

\* A friend invites.
LEMMA FriendInvitesKeeps ==
  ASSUME AsksInv, NEW peer \in Friends, FriendInvites(peer)
  PROVE  AsksInv'
<1>1. /\ srvProfile # NoValue
      /\ \A k \in srvAsks : k.kind = "contact" => k.mine
      /\ clientStays /\ askUp' = askUp
      /\ Begin("contact", FALSE, peer, NoValue,
               <<[type |-> "contact.invitation", id |-> newId, peer |-> peer]>>)
  BY DEF FriendInvites, clientSide, clientStays
<1>3. PICK x : x = [type |-> "contact.invitation", id |-> askIds + 1, peer |-> peer]
  OBVIOUS
<1>4. x.type = "contact.invitation" /\ x.id = askIds + 1 /\ x.peer = peer
  BY <1>3
<1>5. PICK mine \in BOOLEAN : mine = FALSE
  OBVIOUS
<1>6. Begin("contact", mine, peer, NoValue, <<x>>)
  <2>1. Begin("contact", FALSE, peer, NoValue, <<x>>)
    BY <1>1, <1>3 DEF newId
  <2> QED
    BY <1>5, <2>1, Zenon
<1>7. PICK k : /\ srvAsks' = srvAsks \cup {k}
               /\ k.kind = "contact" /\ k.id = askIds + 1 /\ k.mine = mine /\ k.peer = peer
               /\ AskTyped(k, askIds') /\ k.id \notin 1 .. askIds
  BY <1>6, BeginIs
<1>8. /\ askIds' = askIds + 1 /\ askIds \in Nat /\ askIds' \in Nat /\ askIds <= askIds'
      /\ Say(<<x>>) /\ UNCHANGED <<srvProfile, srvRoom>>
  BY <1>6, BeginIs
<1>9. ~k.mine
  BY <1>5, <1>7
<1>10. (\A y \in coming : NoteTyped(y, askIds)) /\ \A r \in going : RequestTyped(r, askIds)
  BY DEF AsksInv, Typed, coming, going
<1>11. \A y \in coming, z \in {x} : MayPrecede(y, z)
  BY <1>4, <1>8, <1>10 DEF MayPrecede, RoomReplies, Replies, Ends, NoteTyped
<1>12. x.type \notin Ends \cup RoomReplies /\ Answers(<<x>>, {x})
  BY <1>4, AnswerIs DEF Ends, RoomReplies
<1>13. OrderedDown(askDown') /\ coming' = coming \cup {x} /\ behind' \subseteq behind \cup {x}
  BY <1>8, <1>11, <1>12, Says
<1>14. going' = going
  BY <1>1 DEF going
<1>15. InviteAgrees'
  <2>1. InviteFits(askInvite, srvAsks, coming, going)
    BY DEF AsksInv, Agreement, InviteAgrees
  <2>3. InviteFits(askInvite, srvAsks \cup {k}, coming \cup {x}, going)
    BY <1>4, <1>7, <1>8, <1>9, <1>10, <2>1, FriendBegins
  <2> QED
    BY <1>1, <1>7, <1>13, <1>14, <2>3 DEF InviteAgrees, clientStays, promptVars
<1>16. /\ \A T : x.type \notin T => Alike(coming, coming', T)
       /\ \A T : Alike(going, going', T)
       /\ Same(srvAsks, srvAsks', "knock", TRUE) /\ Same(srvAsks, srvAsks', "knock", FALSE)
       /\ Same(srvAsks, srvAsks', "contact", TRUE)
  BY <1>7, <1>9, <1>13, <1>14 DEF Alike, Same
<1>17. Alike(coming, coming', KnockNotes) /\ Alike(coming, coming', PromptNotes) /\ Alike(coming, coming', EndNotes)
  BY <1>4, <1>16 DEF KnockNotes, Replies, PromptNotes, EndNotes, Ends
<1>18. KnockAgrees'
  BY <1>1, <1>8, <1>16, <1>17, KnockStill DEF AsksInv, Agreement, clientStays, promptVars
<1>19. PromptAgrees'
  BY <1>1, <1>16, <1>17, PromptStill DEF AsksInv, Agreement, clientStays, promptVars
<1>20. InvitesAgree'
  <2>1. \A y \in behind' : y.type \in Ends => y \in behind
    BY <1>12, <1>13
  <2> QED
    BY <1>1, <1>16, <1>17, <2>1, InvitesStill DEF AsksInv, Agreement, clientStays, askRoomVars
<1>21. WantAgrees'
  <2>1. /\ \A y \in coming' : y.type \in Ends \cup {"knock.failed"} => y \in coming
        /\ \A r \in going' : r.type = "knock.respond" => r \in going
    BY <1>4, <1>12, <1>13, <1>14
  <2> QED
    BY <1>1, <2>1, WantStill DEF AsksInv, Agreement, clientStays, askRoomVars, promptVars
<1>22. ServerKnows'
  <2>1. /\ srvProfile' = srvProfile /\ srvRoom' = srvRoom /\ srvProfile # NoValue /\ askOnline' = askOnline
    BY <1>1, <1>8 DEF clientStays
  <2>2. \A l, m \in srvAsks' : l.kind = "contact" /\ m.kind = "contact" /\ ~l.mine /\ ~m.mine => l = m
    BY <1>1, <1>7
  <2>3. \A l \in srvAsks' : l \in srvAsks \/ (l.kind = "contact" /\ ~l.mine)
    BY <1>7, <1>9
  <2> QED
    BY <2>1, <2>2, <2>3 DEF AsksInv, ServerKnows
<1>23. \A z \in {x} : NoteTyped(z, askIds') /\ z.type \notin RoomReplies
  BY <1>4, <1>8, <1>12 DEF NoteTyped, Ends
<1>24. Alike(going, going', RoomRequests) /\ going' \subseteq going /\ OrderedUp(askUp')
  BY <1>1, <1>14, <1>16 DEF AsksInv
<1>25. /\ IsFiniteSet({k}) /\ (\A l \in {k} : AskTyped(l, askIds')) /\ (\A l \in {k} : l.id \notin 1 .. askIds)
       /\ \A l, m \in {k} : l = m
  BY <1>7, FS_Singleton
<1> QED
  BY <1>1, <1>7, <1>8, <1>13, <1>15, <1>18, <1>19, <1>20, <1>21, <1>22, <1>23, <1>24, <1>25, BegunKeeps

\* Empty queues are in order and tell of nothing.
LEMMA EmptyQueues ==
  notes(<<>>) = {} /\ later(<<>>) = {} /\ requests(<<>>) = {} /\ OrderedUp(<<>>) /\ OrderedDown(<<>>)
<1>1. DOMAIN <<>> = {} /\ IsSeq(<<>>)
  BY Short
<1> QED
  BY <1>1 DEF notes, later, requests, OrderedUp, OrderedDown

\* A client that starts is not asked anything and asks nothing.
LEMMA AsksBegin ==
  ASSUME AsksInit
  PROVE  AsksInv
<1> USE DEF AsksInit
<1>1. coming = {} /\ behind = {} /\ going = {} /\ OrderedUp(askUp) /\ OrderedDown(askDown)
  BY EmptyQueues DEF coming, behind, going
<1>2. Typed
  BY <1>1, FS_EmptySet DEF Typed, coming, going
<1>3. ServerKnows
  BY DEF ServerKnows
<1>4. ClientStands
  BY DEF ClientStands, RoomStands, PromptsStand, Operations, PromptsFit, inMesh
<1>5. RoomAgrees
  BY <1>1 DEF RoomAgrees, RoomFits, Leaves
<1>6. KnockAgrees
  BY <1>1 DEF KnockAgrees, KnockFits, NoKnock
<1>7. PromptAgrees /\ InviteAgrees /\ InvitesAgree
  BY <1>1 DEF PromptAgrees, PromptFits, InviteAgrees, InviteFits, InvitesAgree, InvitesFit
<1>8. WantAgrees
  BY DEF WantAgrees, WantFits
<1> QED
  BY <1>1, <1>2, <1>3, <1>4, <1>5, <1>6, <1>7, <1>8 DEF AsksInv, Agreement

\* Whatever message comes in, handling it keeps the agreement.
LEMMA HandleKeeps ==
  ASSUME AsksInv, Handle
  PROVE  AsksInv'
  BY PublishedKeeps, KnockNoteKeeps, KnockInvitationKeeps, ContactInvitationKeeps, KnockAcceptedKeeps,
     ContactAcceptedKeeps, KnockClosedKeeps, ContactClosedKeeps, ContactResultKeeps, RoomReadyKeeps,
     RoomRefusedKeeps, RoomLeftKeeps, JoinRefusedKeeps DEF Handle

\* A part of the agreement looks only at what is counted in the variables.
LEMMA AsksStutter ==
  ASSUME AsksInv, UNCHANGED askVars
  PROVE  AsksInv'
<1>1. UNCHANGED <<srvProfile, srvRoom, srvAsks, askDown, askIds, askUp>> /\ clientStays
  BY DEF askVars, srvVars, boundVars, clientStays
<1>2. OrderedUp(askUp') /\ going = going' \cup {} /\ Spares({}, srvAsks) /\ \A h \in {} : h.type \notin RoomRequests
  BY <1>1 DEF AsksInv, going, Spares
<1> QED
  BY <1>1, <1>2, SilentKeeps

\* Every step of the client, the server, a friend or the clock keeps the invariant.
LEMMA AsksStep ==
  ASSUME AsksInv, AsksNext
  PROVE  AsksInv'
<1>1. CASE SignalingFails \/ Ready \/ publishPresence \/ createMesh \/ MeshJoined \/ quitMesh \/ recoverServerRoom
  BY <1>1, ConnectionFailsKeeps, PublishKeeps, MeshKeeps, LeaveKeeps, RecoverKeeps
<1>2. ASSUME NEW peer \in Friends,
             inviteAcquaintance(peer) \/ requestConversationEntry(peer)
               \/ FriendKnocks(peer) \/ FriendInvites(peer) \/ CoolDown(peer)
      PROVE  AsksInv'
  BY <1>2, InviteAcquaintanceKeeps, RequestEntryKeeps, FriendKnocksKeeps, FriendInvitesKeeps, CoolDownKeeps
<1>3. ASSUME NEW accept \in BOOLEAN, respondToEntryRequest(accept) \/ respondToOnlineInvitation(accept)
      PROVE  AsksInv'
  BY <1>3, RespondToKnockKeeps, RespondToInviteKeeps
<1>4. CASE Handle
  BY <1>4, HandleKeeps
<1>5. CASE ServerReceives
  BY <1>5, ServerReceivesKeeps
<1>6. ASSUME NEW k \in srvAsks, AskEnds(k) PROVE AsksInv'
  BY <1>6, AskEndsKeeps
<1> QED
  BY <1>1, <1>2, <1>3, <1>4, <1>5, <1>6 DEF AsksNext

\* At every moment what the client shows and what the server has differ only by
\* what is on the way between them, each request and message of which is accounted
\* for (handleSignalingNotification, maintainInvitations).
THEOREM AsksInvariant == AsksSpec => []AsksInv
<1>1. AsksInit => AsksInv
  BY AsksBegin
<1>2. AsksInv /\ [AsksNext]_askVars => AsksInv'
  BY AsksStep, AsksStutter
<1> QED
  BY <1>1, <1>2, PTL DEF AsksSpec

\* With nothing on the way what is accounted for on the way is empty, so that the two agree.
LEMMA AgreementShows ==
  ASSUME AsksInv
  PROVE  AsksAgree
<1>1. PromptsFit
  BY DEF AsksInv, ClientStands, PromptsStand
<1> DEFINE Open(kind, mine) == {<<k.id, k.peer>> : k \in {k \in srvAsks : k.kind = kind /\ k.mine = mine}}
<1>2. ASSUME askUp = <<>>, askDown = <<>>, ~askWanted
      PROVE  /\ Open("knock", TRUE) = IF askKnock = NoKnock THEN {} ELSE {<<askKnock.id, askKnock.peer>>}
             /\ Open("knock", FALSE) = IF askInKnock = NoValue THEN {} ELSE {<<askInKnock.id, askInKnock.from>>}
             /\ Open("contact", FALSE) = IF askInvite = NoValue THEN {} ELSE {<<askInvite.id, askInvite.from>>}
             /\ {p[2] : p \in Open("contact", TRUE)} \subseteq askTargets
  <2>1. coming = {} /\ going = {}
    BY <1>2, Short DEF coming, going, notes, requests
  <2>2. \A t, i : ~Told(coming, t, i) /\ ~Sent(going, t, i)
    BY <2>1 DEF Told, Sent
  <2>3. \A k \in srvAsks : k.mine \in BOOLEAN
    BY DEF AsksInv, Typed, AskTyped
  <2>4. KnockFits(askKnock, srvAsks, askIds, coming, going) /\ PromptFits(askInKnock, srvAsks, coming, going)
    BY DEF AsksInv, Agreement, KnockAgrees, PromptAgrees
  <2>5. InviteFits(askInvite, srvAsks, coming, going)
    BY DEF AsksInv, Agreement, InviteAgrees
  <2>6. InvitesFit(askOperation, askRoom, askTargets, srvAsks, coming, behind, going)
    BY DEF AsksInv, Agreement, InvitesAgree
  <2>7. Open("knock", TRUE) = IF askKnock = NoKnock THEN {} ELSE {<<askKnock.id, askKnock.peer>>}
    <3>2. askKnock # NoKnock => askKnock.id # 0
      BY <2>1, <2>4 DEF KnockFits
    <3>3. NoKnock.id = 0
      BY DEF NoKnock
    <3>1. /\ \A k \in srvAsks : k.kind = "knock" /\ k.mine =>
               askKnock # NoKnock /\ askKnock.peer = k.peer /\ askKnock.id = k.id
          /\ askKnock.id # 0 => \E k \in srvAsks : k.kind = "knock" /\ k.mine /\ k.id = askKnock.id
      BY <2>2, <2>4 DEF KnockFits
    <3> QED
      BY <2>3, <3>1, <3>2, <3>3
  <2>8. Open("knock", FALSE) = IF askInKnock = NoValue THEN {} ELSE {<<askInKnock.id, askInKnock.from>>}
    BY <2>1, <2>2, <2>3, <2>4 DEF PromptFits
  <2>9. Open("contact", FALSE) = IF askInvite = NoValue THEN {} ELSE {<<askInvite.id, askInvite.from>>}
    BY <2>1, <2>2, <2>3, <2>5 DEF InviteFits
  <2>10. {p[2] : p \in Open("contact", TRUE)} \subseteq askTargets
    <3>1. askOperation \notin Leaves
      BY <2>1 DEF AsksInv, Agreement, RoomAgrees, RoomFits
    <3>2. \A k \in srvAsks : k.kind = "contact" /\ k.mine => k.peer \in askTargets
      BY <2>6, <3>1 DEF InvitesFit
    <3> QED
      BY <2>3, <3>2
  <2> QED
    BY <2>7, <2>8, <2>9, <2>10
<1> QED
  BY <1>1, <1>2 DEF AsksAgree

\* Once nothing is on the way and no room is being made, the client shows what the
\* server has: no prompt is left that cannot be answered, and no friend waits for an
\* answer the user was never asked for (network_session_presence.cpp).
THEOREM AsksAlwaysAgree == AsksSpec => []AsksAgree
<1>1. AsksInv => AsksAgree
  BY AgreementShows
<1> QED
  BY <1>1, AsksInvariant, PTL

=============================================================================
