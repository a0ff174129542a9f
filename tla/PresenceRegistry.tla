-------------------------- MODULE PresenceRegistry --------------------------
(***************************************************************************)
(* Who is online for whom, and the two ways of asking for a conversation   *)
(* (server/src/presence_registry.cpp): a knock asks to be let into the     *)
(* conversation of an acquaintance, a contact invitation asks an           *)
(* acquaintance into one's own room.                                       *)
(*                                                                         *)
(* The rooms are taken as Admission, which SignalingServerProofs shows the *)
(* room registry to implement.  A session publishes only the identity it   *)
(* authenticated with, and no identity has two sessions, so a member of    *)
(* Sessions stands for an identity and for the session it has while open.  *)
(*                                                                         *)
(* A call returns a batch of deliveries and the transport sends the whole  *)
(* batch before it reads on, so a step applies its batch to the views of   *)
(* the clients at once; a client whose send fails is one that Drop closes  *)
(* next.  Refused requests, direct.send and mesh.relay change nothing.     *)
(*                                                                         *)
(* Times count down: an ask with "left" = 0 has passed its expiresAt, and  *)
(* "cooling" is what is left of the pause between two asks of one peer.    *)
(***************************************************************************)
EXTENDS Integers, FiniteSets

CONSTANTS
  Sessions, RoomIds, Tokens, RoomCapacity,
  Meshes,
  None,          \* no mesh; no profile
  Publications,  \* what presence.publish may say: [known, busy, mesh]
  Lifetime,      \* 60 s in the code, for a knock and for an invitation
  Pause,         \* 10 s
  MaxAsks        \* 64 knocks, and 64 invitations

ASSUME PresenceAssumption ==
  /\ RoomCapacity \in Nat \ {0}
  /\ Publications \subseteq [known : SUBSET Sessions, busy : BOOLEAN, mesh : Meshes \cup {None}]
  /\ Lifetime \in Nat /\ Pause \in Nat /\ MaxAsks \in Nat

VARIABLES
  guests, tickets, offered,  \* the rooms
  open,      \* sessions with an authenticated socket
  profiles,  \* [Sessions -> None, or what the session last published]
  cooling,   \* [Sessions -> [Sessions -> time left of lastInvite's pause]]
  snapshot,  \* [Sessions -> None, or the snapshot last sent to it]
  knocks,    \* set of [from, to, mesh, left]
  contacts,  \* set of [from, to, room, left]: invitations_
  waiting,   \* [Sessions -> asks its client has made and not heard the end of]
  asked      \* [Sessions -> asks its client shows to the user]

roomVars     == <<guests, tickets, offered>>
presenceVars == <<profiles, cooling, snapshot, knocks, contacts>>
clientVars   == <<waiting, asked>>
vars         == <<roomVars, open, presenceVars, clientVars>>

Rooms == INSTANCE Admission

Profile == [known : SUBSET Sessions, busy : BOOLEAN, mesh : Meshes \cup {None}]

NoPause == [s \in Sessions |-> 0]

-----------------------------------------------------------------------------
(* Queries.                                                                *)

Present(s)     == profiles[s] # None
Busy(s)        == Present(s) /\ profiles[s].busy
MeshOf(s)      == IF Present(s) THEN profiles[s].mesh ELSE None
InRoom(s)      == ~Rooms!Elsewhere(s)
canJoinRoom(r) == guests[r] # {} /\ Cardinality(guests[r]) < RoomCapacity

mutual(a, b) ==
  /\ a # b
  /\ Present(a) /\ Present(b)
  /\ b \in profiles[a].known
  /\ a \in profiles[b].known

\* Faulty: a knock nobody answers never expires.
KnockStale_Never(k) ==
  \/ ~mutual(k.from, k.to)
  \/ MeshOf(k.to) # k.mesh
  \/ Busy(k.from) \/ InRoom(k.from)

\* What maintainInvitations would end, for whatever reason.
KnockStale(k) ==
  \/ k.left = 0
  \/ ~mutual(k.from, k.to)
  \/ MeshOf(k.to) # k.mesh
  \/ Busy(k.from) \/ InRoom(k.from)

ContactStale(c) ==
  \/ c.left = 0
  \/ ~mutual(c.from, c.to)
  \/ c.from \notin guests[c.room]
  \/ Busy(c.to) \/ InRoom(c.to)

\* What a session is shown of the acquaintances it published.
Seen(s) ==
  [p \in profiles[s].known |->
     CASE ~mutual(s, p)    -> "offline"
       [] MeshOf(p) = None -> "online"
       [] OTHER            -> "inConversation"]

-----------------------------------------------------------------------------
(* Deliveries.                                                             *)

Knock(k)   == [kind |-> "knock", from |-> k.from, to |-> k.to]
Contact(c) == [kind |-> "contact", from |-> c.from, to |-> c.to]

\* The asks "begun" are confirmed to the asker and shown to the asked; those
\* "ended" (finish, finishKnock) are reported to both.
Deliver(begun, ended) ==
  /\ waiting' = [s \in Sessions |->
       (waiting[s] \cup {a \in begun : a.from = s}) \ {a \in ended : a.from = s}]
  /\ asked' = [s \in Sessions |->
       (asked[s] \cup {a \in begun : a.to = s}) \ {a \in ended : a.to = s}]

\* Faulty: reports the end of knocks only.
maintainInvitations_Silent ==
  LET endedKnocks == {k \in knocks : KnockStale(k)'} IN
  /\ knocks'   = knocks \ endedKnocks
  /\ contacts' = {c \in contacts : ~ContactStale(c)'}
  /\ Deliver({}, {Knock(k) : k \in endedKnocks})

\* maintainInvitations over the registry and the rooms as the step leaves them.
maintainInvitations ==
  LET endedKnocks   == {k \in knocks : KnockStale(k)'}
      endedContacts == {c \in contacts : ContactStale(c)'}
  IN
  /\ knocks'   = knocks \ endedKnocks
  /\ contacts' = contacts \ endedContacts
  /\ Deliver({}, {Knock(k) : k \in endedKnocks} \cup {Contact(c) : c \in endedContacts})

\* Every session with a profile whose view has changed is sent the new one.
updateSnapshots ==
  snapshot' = [s \in Sessions |-> IF Present(s)' THEN Seen(s)' ELSE None]

-----------------------------------------------------------------------------
(* Presence.                                                               *)

\* A client starts a connection with nothing asked and nothing shown.
Connect(s) ==
  /\ s \notin open
  /\ open'    = open \cup {s}
  /\ waiting' = [waiting EXCEPT ![s] = {}]
  /\ asked'   = [asked EXCEPT ![s] = {}]
  /\ UNCHANGED <<roomVars, presenceVars>>

Publish(s, publication) ==
  /\ s \in open
  /\ profiles' = [profiles EXCEPT ![s] = publication]
  /\ UNCHANGED <<roomVars, open, cooling>>
  /\ maintainInvitations
  /\ updateSnapshots

\* Faulty: sends no snapshots.
MeshLeave_Unseen(s) ==
  /\ Present(s) /\ MeshOf(s) # None
  /\ profiles' = [profiles EXCEPT ![s].mesh = None]
  /\ UNCHANGED <<roomVars, open, cooling, snapshot>>
  /\ maintainInvitations

MeshLeave(s) ==
  /\ MeshOf(s) # None
  /\ profiles' = [profiles EXCEPT ![s].mesh = None]
  /\ UNCHANGED <<roomVars, open, cooling>>
  /\ maintainInvitations
  /\ updateSnapshots

-----------------------------------------------------------------------------
(* Asking and answering.                                                   *)

\* Faulty: refuses only the same knock again.
DoorFree_Crowd(s, target) == \A k \in knocks : k.from # s \/ k.to # target

DoorFree(s, target) == \A k \in knocks : k.from # s /\ k.to # target

KnockRequest(s, target) ==
  /\ mutual(s, target)
  /\ ~Busy(s) /\ ~InRoom(s)
  /\ MeshOf(target) # None
  /\ DoorFree(s, target)
  /\ Cardinality(knocks) < MaxAsks
  /\ cooling[s][target] = 0
  /\ LET k == [from |-> s, to |-> target, mesh |-> MeshOf(target), left |-> Lifetime] IN
     /\ knocks' = knocks \cup {k}
     /\ Deliver({Knock(k)}, {})
  /\ cooling' = [cooling EXCEPT ![s][target] = Pause]
  /\ UNCHANGED <<roomVars, open, profiles, snapshot, contacts>>

\* A decision is final: the knock is erased whatever comes of it.  An accepted
\* one hands the asker a token of the responder's room.
KnockRespond(s, k) ==
  /\ k \in knocks
  /\ k.to = s
  /\ knocks' = knocks \ {k}
  /\ Deliver({}, {Knock(k)})
  /\ \/ /\ ~KnockStale(k)
        /\ \E r \in RoomIds, t \in Tokens : canJoinRoom(r) /\ Rooms!Issue(s, r, t)
     \/ UNCHANGED roomVars
  /\ UNCHANGED <<open, profiles, cooling, snapshot, contacts>>

ContactInvite(s, target, r) ==
  /\ mutual(s, target)
  /\ s \in guests[r]
  /\ canJoinRoom(r)
  /\ ~Busy(target) /\ ~InRoom(target)
  /\ \A c \in contacts : c.to # target
  /\ Cardinality({c \in contacts : c.from = s}) < RoomCapacity - 1
  /\ Cardinality(contacts) < MaxAsks
  /\ cooling[s][target] = 0
  /\ LET c == [from |-> s, to |-> target, room |-> r, left |-> Lifetime] IN
     /\ contacts' = contacts \cup {c}
     /\ Deliver({Contact(c)}, {})
  /\ cooling' = [cooling EXCEPT ![s][target] = Pause]
  /\ UNCHANGED <<roomVars, open, profiles, snapshot, knocks>>

\* An accepted invitation hands the responder a token of the asker's room.
ContactRespond(s, c) ==
  /\ c \in contacts
  /\ c.to = s
  /\ contacts' = contacts \ {c}
  /\ Deliver({}, {Contact(c)})
  /\ \/ /\ ~ContactStale(c)
        /\ canJoinRoom(c.room)
        /\ \E t \in Tokens : Rooms!Issue(c.from, c.room, t)
     \/ UNCHANGED roomVars
  /\ UNCHANGED <<open, profiles, cooling, snapshot, knocks>>

-----------------------------------------------------------------------------
(* The server around the registry.                                         *)

\* Faulty: does not look at the pending asks.
RoomRequest_Unmaintained(s) ==
  /\ s \in open
  /\ \/ \E r \in RoomIds : Rooms!Open(s, r) \/ Rooms!Leave(s, r)
     \/ \E k \in tickets : Rooms!Enter(s, k)
  /\ UNCHANGED <<open, presenceVars, clientVars>>

\* receive runs maintainInvitations after room.create, room.join and room.leave.
RoomRequest(s) ==
  /\ s \in open
  /\ \/ \E r \in RoomIds : Rooms!Open(s, r) \/ Rooms!Leave(s, r)
     \/ \E k \in tickets : Rooms!Enter(s, k)
  /\ UNCHANGED <<open, profiles, cooling, snapshot>>
  /\ maintainInvitations

\* invite.create, which asks nothing of the presence registry.
RoomInvite(s) ==
  /\ s \in open
  /\ \E r \in RoomIds, t \in Tokens : Rooms!Issue(s, r, t)
  /\ UNCHANGED <<open, presenceVars, clientVars>>

\* removeClient: the rooms forget the session, then the presence registry does.
Drop(s) ==
  /\ s \in open
  /\ open' = open \ {s}
  /\ \/ \E r \in RoomIds : Rooms!Leave(s, r)
     \/ ~InRoom(s) /\ UNCHANGED roomVars
  /\ profiles' = [profiles EXCEPT ![s] = None]
  /\ cooling'  = [cooling EXCEPT ![s] = NoPause]
  /\ maintainInvitations
  /\ IF Present(s) THEN updateSnapshots ELSE UNCHANGED snapshot

\* The timer also lets room invitations expire.
maintainConnections ==
  /\ Rooms!Lapse
  /\ UNCHANGED <<open, profiles, cooling, snapshot>>
  /\ maintainInvitations

\* Faulty: counts past zero.
Down_Below(n) == n - 1

Down(n) == IF n = 0 THEN 0 ELSE n - 1

Tick ==
  /\ knocks'   = {[k EXCEPT !.left = Down(@)] : k \in knocks}
  /\ contacts' = {[c EXCEPT !.left = Down(@)] : c \in contacts}
  /\ cooling'  = [s \in Sessions |-> [p \in Sessions |-> Down(cooling[s][p])]]
  /\ UNCHANGED <<roomVars, open, profiles, snapshot, clientVars>>

-----------------------------------------------------------------------------

Init ==
  /\ Rooms!Init
  /\ open     = {}
  /\ profiles = [s \in Sessions |-> None]
  /\ cooling  = [s \in Sessions |-> NoPause]
  /\ snapshot = [s \in Sessions |-> None]
  /\ knocks   = {}
  /\ contacts = {}
  /\ waiting  = [s \in Sessions |-> {}]
  /\ asked    = [s \in Sessions |-> {}]

Next ==
  \/ \E s \in Sessions :
       \/ Connect(s) \/ Drop(s) \/ MeshLeave(s) \/ RoomRequest(s) \/ RoomInvite(s)
       \/ \E publication \in Publications : Publish(s, publication)
       \/ \E target \in Sessions : KnockRequest(s, target)
       \/ \E target \in Sessions, r \in RoomIds : ContactInvite(s, target, r)
       \/ \E k \in knocks : KnockRespond(s, k)
       \/ \E c \in contacts : ContactRespond(s, c)
  \/ maintainConnections
  \/ Tick

\* The clock runs and the one-second timer fires.
Fairness == WF_vars(Tick) /\ WF_vars(maintainConnections)

Spec == Init /\ [][Next]_vars /\ Fairness

-----------------------------------------------------------------------------
(* Properties.                                                             *)

Asks == [kind : {"knock", "contact"}, from : Sessions, to : Sessions]

\* Every variable of the presence registry has its type.
TypeOK ==
  /\ open \in SUBSET Sessions
  /\ profiles \in [Sessions -> Profile \cup {None}]
  /\ cooling \in [Sessions -> [Sessions -> 0..Pause]]
  /\ \A s \in Sessions :
       snapshot[s] = None \/ \E known \in SUBSET Sessions :
         snapshot[s] \in [known -> {"offline", "online", "inConversation"}]
  /\ knocks \subseteq [from : Sessions, to : Sessions, mesh : Meshes, left : 0..Lifetime]
  /\ contacts \subseteq [from : Sessions, to : Sessions, room : RoomIds, left : 0..Lifetime]
  /\ waiting \in [Sessions -> SUBSET Asks]
  /\ asked \in [Sessions -> SUBSET Asks]

\* No ask outlives the situation it was made in (but for the clock, which the
\* timer enforces): as long as a knock or an invitation can be answered its
\* parties are online and acquainted, the conversation asked into is the one
\* the host is still in, and the guest is neither busy nor in a room.
AsksStandWhilePending ==
  /\ \A k \in knocks : k.left > 0 => ~KnockStale(k)
  /\ \A c \in contacts : c.left > 0 => ~ContactStale(c)

\* Whatever happens to the parties, both clients agree with the server on
\* which asks are open: nobody waits for an answer that cannot come, and no
\* prompt stays on screen that can no longer be answered.
ClientsAgree ==
  \A s \in open :
    /\ waiting[s] = {Knock(k) : k \in {k \in knocks : k.from = s}}
                      \cup {Contact(c) : c \in {c \in contacts : c.from = s}}
    /\ asked[s] = {Knock(k) : k \in {k \in knocks : k.to = s}}
                    \cup {Contact(c) : c \in {c \in contacts : c.to = s}}

\* One ask at a time in each role, over every sequence of asks and answers: a
\* user knocks at one door, a host sees one knock and a guest sees one
\* invitation, and a room never invites more guests than it has places.
OneAskAtATime ==
  /\ \A j, k \in knocks : j.from = k.from \/ j.to = k.to => j = k
  /\ \A b, c \in contacts : b.to = c.to => b = c
  /\ \A s \in Sessions : Cardinality({c \in contacts : c.from = s}) < RoomCapacity

\* Every ask the server keeps can be answered, and nobody is asked, or asks,
\* twice at once.
AsksAreSound == TypeOK /\ AsksStandWhilePending /\ OneAskAtATime

\* The snapshot a client was last sent is what its acquaintances are doing
\* now, so no change of presence goes unreported.
SnapshotsCurrent == \A s \in Sessions : Present(s) => snapshot[s] = Seen(s)

\* Every ask comes to an end for the one who made it, answered or not.
EveryAskEnds ==
  \A a \in {a \in Asks : a.from # a.to} : a \in waiting[a.from] ~> a \notin waiting[a.from]

=============================================================================
