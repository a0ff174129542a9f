--------------------------- MODULE SessionsProofs ---------------------------
(***************************************************************************)
(* The access control of the signaling server, for any number of sockets,  *)
(* identities and tokens and any limits.                                   *)
(***************************************************************************)
EXTENDS Sessions, FiniteSetTheorems, TLAPS

\* Only sessions have an identity.
IdentitiesLive == \A s \in Sockets : identity[s] # None => place[s] = "live"

Inv ==
  /\ TypeOK
  /\ IdentitiesLive
  /\ OneSessionEach
  /\ InvitationsHaveIssuers
  /\ WithinPlaces

-----------------------------------------------------------------------------
(* The sockets that have a place.                                          *)

\* A set of places that does not grow stays within MaxSessions.
LEMMA FewerPlaces ==
  ASSUME Inv, Held' \subseteq Held
  PROVE  WithinPlaces'
<1>1. IsFiniteSet(Held)
  BY SessionsAssumption, FS_Subset DEF Held
<1>2. /\ IsFiniteSet(Held')
      /\ Cardinality(Held') <= Cardinality(Held)
  BY <1>1, FS_Subset
<1>3. /\ Cardinality(Held) \in Nat
      /\ Cardinality(Held') \in Nat
  BY <1>1, <1>2, FS_CardinalityType
<1>4. /\ MaxSessions \in Nat
      /\ Cardinality(Held) <= MaxSessions
  BY SessionsAssumption DEF Inv, WithinPlaces
<1> QED
  BY <1>2, <1>3, <1>4 DEF WithinPlaces

\* A socket that was found a place fits.
LEMMA OneMorePlace ==
  ASSUME Inv, NEW s \in Sockets, registerClient(s)
  PROVE  WithinPlaces'
<1>1. IsFiniteSet(Held)
  BY SessionsAssumption, FS_Subset DEF Held
<1>2. Held' = Held \cup {s} /\ s \notin Held
  BY DEF Inv, TypeOK, registerClient, Held
<1>3. Cardinality(Held \cup {s}) = Cardinality(Held) + 1
  BY <1>1, <1>2, FS_AddElement
<1>4. Cardinality(Held) \in Nat /\ MaxSessions \in Nat
  BY <1>1, FS_CardinalityType, SessionsAssumption
<1>5. Cardinality(Held) < MaxSessions
  BY DEF registerClient, hasPlace
<1> QED
  BY <1>2, <1>3, <1>4, <1>5 DEF WithinPlaces

-----------------------------------------------------------------------------
(* Identities and invitations.                                             *)

\* What losing the sessions of S does to the identities and the invitations.
LEMMA RemoveClients ==
  ASSUME Inv, NEW S \in SUBSET Sockets, removeClients(S), issued' = issued,
         \A s \in Sockets : s \in S \/ place'[s] = place[s]
  PROVE  /\ identity' \in [Sockets -> Identities \cup {None}]
         /\ nonce' \subseteq Sockets /\ pending' \subseteq Sockets
         /\ pinged' \in [Sockets -> 0..Heartbeat]
         /\ invitations' \subseteq Invitation
         /\ IdentitiesLive'
         /\ OneSessionEach'
         /\ InvitationsHaveIssuers'
<1>1. \A s \in Sockets : identity'[s] = IF s \in S THEN None ELSE identity[s]
  BY DEF removeClients
<1>2. 0 \in 0..Heartbeat
  BY SessionsAssumption
<1>3. identity' \in [Sockets -> Identities \cup {None}]
  BY DEF Inv, TypeOK, removeClients
<1>4. /\ nonce' \subseteq Sockets /\ pending' \subseteq Sockets
      /\ invitations' \subseteq Invitation
  BY DEF Inv, TypeOK, removeClients
<1>5. pinged' \in [Sockets -> 0..Heartbeat]
  BY <1>2 DEF Inv, TypeOK, removeClients
<1>6. IdentitiesLive'
  BY <1>1 DEF Inv, IdentitiesLive
<1>7. OneSessionEach'
  BY <1>1 DEF Inv, OneSessionEach
<1>8. InvitationsHaveIssuers'
  <2> SUFFICES ASSUME NEW v \in invitations'
               PROVE  /\ identity'[v.issuer] # None
                      /\ v.token \in issued'
                      /\ \A w \in invitations' : w.token = v.token => w = v
    BY DEF InvitationsHaveIssuers
  <2>1. v \in invitations /\ v.issuer \notin S /\ v.issuer \in Sockets
    BY DEF removeClients, Inv, TypeOK, Invitation
  <2>2. invitations' \subseteq invitations
    BY DEF removeClients
  <2> QED
    BY <1>1, <2>1, <2>2 DEF Inv, InvitationsHaveIssuers
<1> QED
  BY <1>3, <1>4, <1>5, <1>6, <1>7, <1>8

\* Closing sessions keeps everything.
LEMMA CloseClients ==
  ASSUME Inv, NEW S \in SUBSET Live, closeClients(S),
         issued' = issued, holders' = holders,
         listening' \in BOOLEAN, hung' = hung
  PROVE  Inv'
<1>1. S \subseteq Sockets
  BY DEF Live
<1>2. /\ removeClients(S)
      /\ place' = [s \in Sockets |-> IF s \in S THEN "closing" ELSE place[s]]
      /\ age'   = [s \in Sockets |-> IF s \in S THEN 0 ELSE age[s]]
  BY DEF closeClients
<1>3. \A s \in Sockets : s \in S \/ place'[s] = place[s]
  BY <1>2
<1>4. Held' \subseteq Held
  BY <1>2 DEF Held, Live
<1>5. 0 \in 0..AgeLimit
  BY SessionsAssumption DEF AgeLimit
<1>6. /\ place' \in [Sockets -> {"gone", "live", "closing"}]
      /\ age' \in [Sockets -> 0..AgeLimit]
  BY <1>2, <1>5 DEF Inv, TypeOK
<1>7. TypeOK'
  BY <1>1, <1>2, <1>3, <1>6, RemoveClients DEF Inv, TypeOK
<1> QED
  BY <1>1, <1>2, <1>3, <1>4, <1>7, RemoveClients, FewerPlaces DEF Inv

\* A session that proves an identity nobody has keeps the two invariants,
\* whether or not an invitation is used up.
LEMMA Admit ==
  ASSUME Inv, NEW s \in Live, NEW i \in Identities,
         admit(s, i), ~inUse(i), holders' \subseteq Identities,
         invitations' \subseteq invitations
  PROVE  Inv'
<1>1. s \in Sockets /\ place[s] = "live" /\ i # None
  BY SessionsAssumption DEF Live
<1>2. \A t \in Sockets : identity'[t] = IF t = s THEN i ELSE identity[t]
  BY DEF admit, Inv, TypeOK
<1>3. \A t \in Sockets : identity[t] # i
  BY <1>1 DEF inUse, Inv, IdentitiesLive, Live
<1>4. TypeOK'
  BY <1>1 DEF Inv, TypeOK, admit
<1>5. IdentitiesLive'
  BY <1>1, <1>2 DEF Inv, IdentitiesLive, admit
<1>6. OneSessionEach'
  BY <1>1, <1>2, <1>3 DEF Inv, OneSessionEach
<1>7. InvitationsHaveIssuers'
  BY <1>1, <1>2 DEF Inv, TypeOK, InvitationsHaveIssuers, Invitation, admit
<1>8. WithinPlaces'
  BY FewerPlaces DEF admit, Held
<1> QED
  BY <1>4, <1>5, <1>6, <1>7, <1>8 DEF Inv

\* A new invitation has a token of its own and an issuer with an identity.
LEMMA Invite ==
  ASSUME Inv, NEW s \in Sockets, invite(s)
  PROVE  Inv'
<1>1. PICK t \in Tokens \ issued :
        /\ issued' = issued \cup {t}
        /\ invitations' = invitations \cup {[token |-> t, issuer |-> s, left |-> Lifetime]}
  BY DEF invite
<1>2. [token |-> t, issuer |-> s, left |-> Lifetime] \in Invitation
  BY SessionsAssumption DEF Invitation
<1>3. TypeOK'
  BY <1>1, <1>2 DEF Inv, TypeOK, invite, placeVars
<1>4. IdentitiesLive' /\ OneSessionEach'
  BY DEF Inv, IdentitiesLive, OneSessionEach, invite, placeVars
<1>5. InvitationsHaveIssuers'
  <2>1. identity' = identity /\ identity[s] # None
    BY DEF invite, placeVars
  <2>2. \A v \in invitations : v.token # t
    BY DEF Inv, InvitationsHaveIssuers
  <2> QED
    BY <1>1, <2>1, <2>2 DEF Inv, InvitationsHaveIssuers
<1>6. WithinPlaces'
  BY FewerPlaces DEF invite, placeVars, Held
<1> QED
  BY <1>3, <1>4, <1>5, <1>6 DEF Inv

-----------------------------------------------------------------------------
(* Time.                                                                   *)

\* Time passes.
LEMMA TickKeeps ==
  ASSUME Inv, Tick
  PROVE  Inv'
<1>1. age' \in [Sockets -> 0..AgeLimit]
  BY SessionsAssumption DEF Inv, TypeOK, Tick, Later, AgeLimit
<1>2. pinged' \in [Sockets -> 0..Heartbeat]
  BY SessionsAssumption DEF Inv, TypeOK, Tick, Later
<1>3. \A v \in invitations :
        LET w == [v EXCEPT !.left = IF @ > 0 THEN @ - 1 ELSE 0]
        IN w \in Invitation /\ w.token = v.token /\ w.issuer = v.issuer
  BY SessionsAssumption DEF Inv, TypeOK, Invitation
<1>4. invitations' = {[v EXCEPT !.left = IF @ > 0 THEN @ - 1 ELSE 0] : v \in invitations}
  BY DEF Tick
<1>5. invitations' \subseteq Invitation
  BY <1>3, <1>4
<1>6. TypeOK'
  BY <1>1, <1>2, <1>5 DEF Inv, TypeOK, Tick
<1>7. IdentitiesLive' /\ OneSessionEach'
  BY DEF Inv, IdentitiesLive, OneSessionEach, Tick
<1>8. InvitationsHaveIssuers'
  <2> SUFFICES ASSUME NEW v \in invitations'
               PROVE  /\ identity[v.issuer] # None
                      /\ v.token \in issued
                      /\ \A w \in invitations' : w.token = v.token => w = v
    BY DEF InvitationsHaveIssuers, Tick
  <2>1. PICK u \in invitations : v = [u EXCEPT !.left = IF @ > 0 THEN @ - 1 ELSE 0]
    BY <1>4
  <2>2. v.token = u.token /\ v.issuer = u.issuer
    BY <1>3, <2>1
  <2>3. ASSUME NEW w \in invitations', w.token = v.token
        PROVE  w = v
    <3>1. PICK x \in invitations : w = [x EXCEPT !.left = IF @ > 0 THEN @ - 1 ELSE 0]
      BY <1>4
    <3>2. x.token = u.token
      BY <1>3, <2>2, <2>3, <3>1
    <3>3. x = u
      BY <3>2 DEF Inv, InvitationsHaveIssuers
    <3> QED
      BY <2>1, <3>1, <3>3
  <2> QED
    BY <2>2, <2>3 DEF Inv, InvitationsHaveIssuers
<1>9. WithinPlaces'
  BY FewerPlaces DEF Tick, Held
<1> QED
  BY <1>6, <1>7, <1>8, <1>9 DEF Inv

\* The maintenance pass drops who has been silent for too long.
LEMMA MaintenanceKeeps ==
  ASSUME Inv, maintainConnections
  PROVE  Inv'
<1> DEFINE lost == Unproved \cup (PingDue \cap pending)
           ask  == PingDue \ pending
<1>1. lost \subseteq Live /\ ask \subseteq Live /\ Live \subseteq Sockets
  BY DEF Unproved, PingDue, Live
<1>2. /\ place' = [s \in Sockets |-> IF s \in lost THEN "closing" ELSE place[s]]
      /\ age' = [s \in Sockets |-> IF s \in lost THEN 0 ELSE age[s]]
      /\ identity' = [s \in Sockets |-> IF s \in lost THEN None ELSE identity[s]]
      /\ nonce' = nonce \ lost
      /\ pending' = (pending \ lost) \cup ask
      /\ pinged' = [s \in Sockets |-> IF s \in lost \cup ask THEN 0 ELSE pinged[s]]
      /\ invitations' = {v \in invitations : v.left > 0 /\ v.issuer \notin lost}
      /\ UNCHANGED <<issued, holders, listening, hung>>
  BY DEF maintainConnections
<1> HIDE DEF lost, ask
<1>3. 0 \in 0..AgeLimit /\ 0 \in 0..Heartbeat
  BY SessionsAssumption DEF AgeLimit
<1>4. TypeOK'
  BY <1>1, <1>2, <1>3 DEF Inv, TypeOK
<1>5. IdentitiesLive' /\ OneSessionEach'
  BY <1>2 DEF Inv, IdentitiesLive, OneSessionEach
<1>6. InvitationsHaveIssuers'
  BY <1>2 DEF Inv, TypeOK, Invitation, InvitationsHaveIssuers
<1>7. Held' \subseteq Held
  BY <1>1, <1>2 DEF Held, Live
<1> QED
  BY <1>4, <1>5, <1>6, <1>7, FewerPlaces DEF Inv

-----------------------------------------------------------------------------
(* Every step.                                                             *)

\* No connection is open yet.
LEMMA InitInv == Init => Inv
<1> SUFFICES ASSUME Init PROVE Inv
  OBVIOUS
<1>1. 0 \in 0..AgeLimit /\ 0 \in 0..Heartbeat
  BY SessionsAssumption DEF AgeLimit
<1>2. TypeOK
  BY <1>1, SessionsAssumption DEF Init, TypeOK
<1>3. IdentitiesLive /\ OneSessionEach /\ InvitationsHaveIssuers
  BY DEF Init, IdentitiesLive, OneSessionEach, InvitationsHaveIssuers
<1>4. Held = {}
  BY DEF Init, Held
<1>5. WithinPlaces
  BY <1>4, FS_EmptySet, SessionsAssumption DEF WithinPlaces
<1> QED
  BY <1>2, <1>3, <1>5 DEF Inv

\* Each step keeps the invariant.
LEMMA NextInv ==
  ASSUME Inv, [Next]_vars
  PROVE  Inv'
<1>1. ASSUME NEW s \in Sockets, registerClient(s) PROVE Inv'
  <2>1. 0 \in 0..AgeLimit
    BY SessionsAssumption DEF AgeLimit
  <2>2. TypeOK'
    BY <1>1, <2>1 DEF Inv, TypeOK, registerClient, accessVars
  <2>3. IdentitiesLive' /\ OneSessionEach' /\ InvitationsHaveIssuers'
    BY <1>1 DEF Inv, TypeOK, IdentitiesLive, OneSessionEach, InvitationsHaveIssuers,
                registerClient, accessVars
  <2> QED
    BY <1>1, <2>2, <2>3, OneMorePlace DEF Inv
<1>2. ASSUME NEW s \in Sockets, disconnected(s) PROVE Inv'
  <2>1. 0 \in 0..AgeLimit
    BY SessionsAssumption DEF AgeLimit
  <2>2. \A t \in Sockets : t \in {s} \/ place'[t] = place[t]
    BY <1>2 DEF disconnected, Inv, TypeOK
  <2>3. Held' \subseteq Held
    BY <1>2 DEF disconnected, Held, Inv, TypeOK
  <2>4. /\ place' \in [Sockets -> {"gone", "live", "closing"}]
        /\ age' \in [Sockets -> 0..AgeLimit]
        /\ UNCHANGED <<issued, holders, listening, hung>>
        /\ removeClients({s})
    BY <1>2, <2>1 DEF disconnected, Inv, TypeOK
  <2>5. TypeOK'
    BY <2>2, <2>4, RemoveClients DEF Inv, TypeOK
  <2> QED
    BY <2>2, <2>3, <2>4, <2>5, RemoveClients, FewerPlaces DEF Inv
<1>3. ASSUME NEW s \in Sockets, Hang(s) PROVE Inv'
  BY <1>3, FewerPlaces DEF Hang, placeVars, accessVars, Inv, TypeOK, IdentitiesLive,
     OneSessionEach, InvitationsHaveIssuers, Held
<1>4. ASSUME NEW s \in Live, closeClient(s) PROVE Inv'
  BY <1>4, CloseClients DEF closeClient, Inv, TypeOK
<1>5. ASSUME NEW s \in Sockets, Pong(s) PROVE Inv'
  BY <1>5, FewerPlaces DEF Pong, accessVars, Inv, TypeOK, IdentitiesLive,
     OneSessionEach, InvitationsHaveIssuers, Held
<1>6. ASSUME NEW s \in Sockets, CloseTimer(s) PROVE Inv'
  <2>1. 0 \in 0..AgeLimit
    BY SessionsAssumption DEF AgeLimit
  <2>2. TypeOK'
    BY <1>6, <2>1 DEF Inv, TypeOK, CloseTimer, accessVars
  <2>3. IdentitiesLive' /\ OneSessionEach' /\ InvitationsHaveIssuers'
    BY <1>6 DEF Inv, TypeOK, IdentitiesLive, OneSessionEach, InvitationsHaveIssuers,
                CloseTimer, abort, accessVars
  <2>4. Held' \subseteq Held
    BY <1>6 DEF Inv, TypeOK, CloseTimer, Held
  <2> QED
    BY <2>2, <2>3, <2>4, FewerPlaces DEF Inv
<1>7. ASSUME NEW s \in Sockets, NEW i \in Identities, NEW holds \in BOOLEAN,
             Authenticate(s, i, holds)
      PROVE  Inv'
  <2>1. s \in Live
    BY <1>7 DEF Authenticate, speaks
  <2>2. CASE mayProve(s) /\ holds /\ ~inUse(i)
    <3>1. admit(s, i) /\ UNCHANGED <<invitations, holders>>
      BY <1>7, <2>2 DEF Authenticate
    <3> QED
      BY <2>1, <2>2, <3>1, Admit DEF Inv, TypeOK
  <2>3. CASE ~(mayProve(s) /\ holds /\ ~inUse(i))
    BY <1>4, <1>7, <2>1, <2>3 DEF Authenticate
  <2> QED
    BY <2>2, <2>3
<1>8. ASSUME NEW s \in Sockets, NEW i \in Identities, Redeem(s, i) PROVE Inv'
  <2>1. s \in Live
    BY <1>8 DEF Redeem, speaks
  <2>2. CASE closeClient(s)
    BY <1>4, <2>1, <2>2
  <2>3. CASE \E v \in invitations : v.left > 0 /\ redeem(s, i, v)
    <3>1. PICK v \in invitations : redeem(s, i, v)
      BY <2>3
    <3>2. CASE inUse(i)
      BY <1>4, <2>1, <3>1, <3>2 DEF redeem
    <3>3. CASE ~inUse(i)
      <4>1. /\ admit(s, i)
            /\ invitations' \subseteq invitations
            /\ holders' \subseteq Identities
        BY <3>1, <3>3 DEF redeem, Inv, TypeOK
      <4> QED
        BY <2>1, <3>3, <4>1, Admit
    <3> QED
      BY <3>2, <3>3
  <2> QED
    BY <1>8, <2>2, <2>3 DEF Redeem
<1>9. CASE close
  <2>1. Live \in SUBSET Live
    OBVIOUS
  <2>2. /\ closeClients(Live) /\ listening' \in BOOLEAN
        /\ UNCHANGED <<issued, holders, hung>>
    BY <1>9 DEF close
  <2> QED
    BY <2>1, <2>2, CloseClients
<1>10. CASE UNCHANGED vars
  BY <1>10, FewerPlaces DEF vars, placeVars, accessVars, Inv, TypeOK, IdentitiesLive,
     OneSessionEach, InvitationsHaveIssuers, Held
<1>11. ASSUME NEW s \in Sockets, SendFails(s) \/ Refuse(s) PROVE Inv'
  BY <1>4, <1>11 DEF SendFails, Refuse, speaks
<1> QED
  BY <1>1, <1>2, <1>3, <1>5, <1>6, <1>7, <1>8, <1>9, <1>10, <1>11,
     Invite, TickKeeps, MaintenanceKeeps DEF Next

\* The invariant holds in every reachable state.
LEMMA SpecInv == Spec => []Inv
<1>1. Init => Inv
  BY InitInv
<1>2. Inv /\ [Next]_vars => Inv'
  BY NextInv
<1> QED
  BY <1>1, <1>2, PTL DEF Spec

-----------------------------------------------------------------------------
(* The theorems.                                                           *)

\* No two sessions ever share an identity, so the rule PresenceRegistry takes
\* for granted (one session to an identity) is one the server keeps.
THEOREM OneSessionEachHolds == Spec => []OneSessionEach
<1>1. Inv => OneSessionEach
  BY DEF Inv
<1> QED
  BY <1>1, SpecInv, PTL

\* Access invitations never outlive the session that issued them, and no two
\* carry one token.
THEOREM InvitationsHaveIssuersHolds == Spec => []InvitationsHaveIssuers
<1>1. Inv => InvitationsHaveIssuers
  BY DEF Inv
<1> QED
  BY <1>1, SpecInv, PTL

\* The server holds at most MaxSessions sockets, closing ones included.
THEOREM WithinPlacesHolds == Spec => []WithinPlaces
<1>1. Inv => WithinPlaces
  BY DEF Inv
<1> QED
  BY <1>1, SpecInv, PTL

\* The state keeps its shape.
THEOREM SessionsTypeCorrect == Spec => []TypeOK
<1>1. Inv => TypeOK
  BY DEF Inv
<1> QED
  BY <1>1, SpecInv, PTL

\* A session's identity changes only by the session ending: one proof a
\* socket.
THEOREM IdentityStandsHolds == Spec => IdentityStands
<1> DEFINE A == \A s \in Sockets : identity[s] # None => identity'[s] \in {identity[s], None}
<1>1. ASSUME Inv, [Next]_vars PROVE A
  <2>1. ASSUME NEW S, removeClients(S) PROVE A
    BY <2>1 DEF removeClients
  <2>2. ASSUME NEW s \in Sockets, closeClient(s) PROVE A
    BY <2>1, <2>2 DEF closeClient, closeClients
  <2>3. ASSUME NEW s \in Sockets, NEW i, mayProve(s), admit(s, i) PROVE A
    BY <1>1, <2>3 DEF mayProve, admit, Inv, TypeOK
  <2>4. ASSUME NEW s \in Sockets, NEW i \in Identities, NEW holds \in BOOLEAN,
               Authenticate(s, i, holds)
        PROVE  A
    BY <2>2, <2>3, <2>4 DEF Authenticate
  <2>5. ASSUME NEW s \in Sockets, NEW i \in Identities, Redeem(s, i) PROVE A
    BY <2>2, <2>3, <2>5 DEF Redeem, redeem
  <2>6. ASSUME NEW s \in Sockets,
               \/ registerClient(s) \/ disconnected(s) \/ Hang(s) \/ SendFails(s)
               \/ Pong(s) \/ CloseTimer(s) \/ Refuse(s) \/ invite(s)
        PROVE  A
    BY <2>1, <2>2, <2>6 DEF registerClient, disconnected, Hang, SendFails, Pong,
       CloseTimer, Refuse, invite, placeVars
  <2>7. CASE close \/ Tick \/ maintainConnections \/ UNCHANGED vars
    BY <2>1, <2>7 DEF close, closeClients, Tick, maintainConnections, vars, placeVars
  <2> QED
    BY <1>1, <2>4, <2>5, <2>6, <2>7 DEF Next
<1>2. Inv /\ [Next]_vars => [A]_vars
  BY <1>1
<1>3. Spec => []Inv
  BY SpecInv
<1> QED
  BY <1>2, <1>3, PTL DEF Spec, IdentityStands

\* A live session has proved an identity or has its nonce still, never both and
\* never neither.
LEMMA ProofPendingPreserved ==
  ASSUME Inv, ProofPending, [Next]_vars
  PROVE  ProofPending'
<1>1. ASSUME NEW S \in SUBSET Live, closeClients(S) PROVE ProofPending'
  BY <1>1 DEF closeClients, removeClients, ProofPending, Live
<1>2. ASSUME NEW s \in Live, closeClient(s) PROVE ProofPending'
  BY <1>1, <1>2 DEF closeClient
<1>3. ASSUME NEW s \in Live, NEW i \in Identities, admit(s, i) PROVE ProofPending'
  BY <1>3, SessionsAssumption DEF admit, ProofPending, Live, Inv, TypeOK
<1>4. ASSUME NEW s \in Sockets, registerClient(s) PROVE ProofPending'
  <2>1. identity[s] = None
    BY <1>4 DEF registerClient, Inv, IdentitiesLive
  <2> QED
    BY <1>4, <2>1 DEF registerClient, ProofPending, Live, Inv, TypeOK
<1>5. ASSUME NEW s \in Sockets, disconnected(s) \/ CloseTimer(s) PROVE ProofPending'
  BY <1>5 DEF disconnected, removeClients, CloseTimer, ProofPending, Live, Inv, TypeOK
<1>6. ASSUME NEW s \in Sockets, Hang(s) \/ Pong(s) \/ invite(s) PROVE ProofPending'
  BY <1>6 DEF Hang, Pong, invite, placeVars, ProofPending, Live
<1>7. ASSUME NEW s \in Sockets, NEW i \in Identities, NEW holds \in BOOLEAN,
             Authenticate(s, i, holds)
      PROVE  ProofPending'
  <2>1. s \in Live
    BY <1>7 DEF Authenticate, speaks
  <2> QED
    BY <1>2, <1>3, <1>7, <2>1 DEF Authenticate
<1>8. ASSUME NEW s \in Sockets, NEW i \in Identities, Redeem(s, i) PROVE ProofPending'
  <2>1. s \in Live
    BY <1>8 DEF Redeem, speaks
  <2> QED
    BY <1>2, <1>3, <1>8, <2>1 DEF Redeem, redeem
<1>9. CASE close
  <2>1. Live \in SUBSET Live
    OBVIOUS
  <2> QED
    BY <1>1, <1>9, <2>1 DEF close
<1>10. ASSUME NEW s \in Sockets, SendFails(s) \/ Refuse(s) PROVE ProofPending'
  BY <1>2, <1>10 DEF SendFails, Refuse, speaks
<1>11. CASE Tick \/ UNCHANGED vars
  BY <1>11 DEF Tick, vars, placeVars, ProofPending, Live
<1>12. CASE maintainConnections
  BY <1>12 DEF maintainConnections, ProofPending, Live
<1> QED
  BY <1>4, <1>5, <1>6, <1>7, <1>8, <1>9, <1>10, <1>11, <1>12 DEF Next

\* The server's tables fit: identities, invitations, places and nonces, however
\* many sockets open, prove, close and are cut off.
THEOREM SessionsSound == Spec => []SessionsAreSound
<1>1. Init => ProofPending
  BY DEF Init, ProofPending, Live
<1>2. Inv /\ ProofPending /\ [Next]_vars => ProofPending'
  BY ProofPendingPreserved
<1>3. Inv /\ ProofPending => SessionsAreSound
  BY DEF Inv, SessionsAreSound
<1> QED
  BY <1>1, <1>2, <1>3, SpecInv, PTL DEF Spec

-----------------------------------------------------------------------------
(* What becomes of an invitation.                                          *)

\* The sessions that get an identity in a step, and the invitations that go in
\* it without having lost their time or their issuer.
Proved == {s \in Sockets : identity[s] = None /\ identity'[s] # None}
Ended  == {v \in invitations :
             /\ v.left > 0 /\ identity'[v.issuer] # None
             /\ \A w \in invitations' : w.token # v.token}

AdmitsOnce ==
  /\ Cardinality(Ended) <= Cardinality(Proved)
  /\ \A s \in Proved : identity'[s] \in holders \/ Ended # {}

\* A step in which no invitation goes and whoever is admitted holds a grant.
LEMMA NothingEnds ==
  ASSUME Inv, Ended = {}, \A s \in Proved : identity'[s] \in holders
  PROVE  AdmitsOnce
<1>1. IsFiniteSet(Proved)
  BY SessionsAssumption, FS_Subset DEF Proved
<1>2. Cardinality(Proved) \in Nat /\ Cardinality(Ended) = 0
  BY <1>1, FS_CardinalityType, FS_EmptySet
<1> QED
  BY <1>2 DEF AdmitsOnce

\* The invitations of a session that goes do not end before their issuer.
LEMMA LossEndsNothing ==
  ASSUME Inv, NEW S, removeClients(S)
  PROVE  AdmitsOnce
<1>1. \A s \in Sockets : identity'[s] = IF s \in S THEN None ELSE identity[s]
  BY DEF removeClients
<1>2. Proved = {}
  BY <1>1 DEF Proved
<1>3. Ended = {}
  BY <1>1 DEF Ended, removeClients, Inv, TypeOK, Invitation
<1> QED
  BY <1>2, <1>3, NothingEnds

\* A redemption that succeeds uses up its invitation and no other.
LEMMA RedeemEndsOne ==
  ASSUME Inv, NEW s \in Sockets, NEW i \in Identities, mayProve(s), ~inUse(i),
         NEW v \in invitations, v.left > 0, redeem(s, i, v)
  PROVE  AdmitsOnce
<1>1. \A t \in Sockets : identity'[t] = IF t = s THEN i ELSE identity[t]
  BY DEF redeem, admit, Inv, TypeOK
<1>2. identity[s] = None /\ i # None /\ invitations' = invitations \ {v}
  BY SessionsAssumption DEF mayProve, redeem
<1>3. Proved = {s}
  BY <1>1, <1>2 DEF Proved
<1>4. Ended = {v}
  <2>1. \A w \in invitations : /\ identity[w.issuer] # None /\ w.issuer \in Sockets
                               /\ w.token = v.token => w = v
    BY DEF Inv, InvitationsHaveIssuers, TypeOK, Invitation
  <2> QED
    BY <1>1, <1>2, <2>1 DEF Ended
<1>5. Cardinality(Ended) = 1 /\ Cardinality(Proved) = 1
  BY <1>3, <1>4, FS_Singleton
<1> QED
  BY <1>4, <1>5 DEF AdmitsOnce

\* Each step uses up at most the invitation of whom it admits.
LEMMA StepAdmitsOnce ==
  ASSUME Inv, [Next]_vars
  PROVE  AdmitsOnce
<1>1. ASSUME identity' = identity, invitations \subseteq invitations' PROVE AdmitsOnce
  <2>1. Proved = {} /\ Ended = {}
    BY <1>1 DEF Proved, Ended
  <2> QED
    BY <2>1, NothingEnds
<1>2. ASSUME NEW s \in Sockets, closeClient(s) PROVE AdmitsOnce
  BY <1>2, LossEndsNothing DEF closeClient, closeClients
<1>3. ASSUME NEW s \in Sockets, NEW i \in Identities, NEW holds \in BOOLEAN,
             Authenticate(s, i, holds)
      PROVE  AdmitsOnce
  <2>1. CASE mayProve(s) /\ holds /\ ~inUse(i)
    <3>1. admit(s, i) /\ invitations' = invitations /\ i \in holders
      BY <1>3, <2>1 DEF Authenticate
    <3>2. \A t \in Sockets : identity'[t] = IF t = s THEN i ELSE identity[t]
      BY <3>1 DEF admit, Inv, TypeOK
    <3>3. Ended = {} /\ \A t \in Proved : identity'[t] \in holders
      BY <3>1, <3>2 DEF Ended, Proved
    <3> QED
      BY <3>3, NothingEnds
  <2>2. CASE ~(mayProve(s) /\ holds /\ ~inUse(i))
    BY <1>2, <1>3, <2>2 DEF Authenticate
  <2> QED
    BY <2>1, <2>2
<1>4. ASSUME NEW s \in Sockets, NEW i \in Identities, Redeem(s, i) PROVE AdmitsOnce
  <2>1. CASE closeClient(s)
    BY <1>2, <2>1
  <2>2. CASE mayProve(s) /\ \E v \in invitations : v.left > 0 /\ redeem(s, i, v)
    <3>1. PICK v \in invitations : v.left > 0 /\ redeem(s, i, v)
      BY <2>2
    <3>2. CASE inUse(i)
      BY <1>2, <3>1, <3>2 DEF redeem
    <3>3. CASE ~inUse(i)
      BY <2>2, <3>1, <3>3, RedeemEndsOne
    <3> QED
      BY <3>2, <3>3
  <2> QED
    BY <1>4, <2>1, <2>2 DEF Redeem
<1>5. CASE Tick
  <2>1. identity' = identity
    BY <1>5 DEF Tick
  <2>2. \A v \in invitations : \E w \in invitations' : w.token = v.token
    <3> TAKE v \in invitations
    <3>1. [v EXCEPT !.left = IF @ > 0 THEN @ - 1 ELSE 0] \in invitations'
      BY <1>5 DEF Tick
    <3>2. [v EXCEPT !.left = IF @ > 0 THEN @ - 1 ELSE 0].token = v.token
      BY DEF Inv, TypeOK, Invitation
    <3> QED
      BY <3>1, <3>2
  <2>3. Proved = {} /\ Ended = {}
    BY <2>1, <2>2 DEF Proved, Ended
  <2> QED
    BY <2>3, NothingEnds
<1>6. CASE maintainConnections
  <2> DEFINE lost == Unproved \cup (PingDue \cap pending)
  <2>1. /\ identity' = [s \in Sockets |-> IF s \in lost THEN None ELSE identity[s]]
        /\ invitations' = {v \in invitations : v.left > 0 /\ v.issuer \notin lost}
    BY <1>6 DEF maintainConnections
  <2> HIDE DEF lost
  <2>2. Proved = {} /\ Ended = {}
    BY <2>1 DEF Proved, Ended, Inv, TypeOK, Invitation
  <2> QED
    BY <2>2, NothingEnds
<1>7. ASSUME NEW s \in Sockets,
             registerClient(s) \/ Hang(s) \/ Pong(s) \/ CloseTimer(s) \/ invite(s)
      PROVE  AdmitsOnce
  BY <1>1, <1>7 DEF registerClient, Hang, Pong, CloseTimer, invite, placeVars, accessVars
<1>8. ASSUME NEW s \in Sockets, disconnected(s) \/ SendFails(s) \/ Refuse(s) PROVE AdmitsOnce
  BY <1>2, <1>8, LossEndsNothing DEF disconnected, SendFails, Refuse
<1>9. CASE close
  BY <1>9, LossEndsNothing DEF close, closeClients
<1>10. CASE UNCHANGED vars
  BY <1>1, <1>10 DEF vars, placeVars, accessVars
<1> QED
  BY <1>3, <1>4, <1>5, <1>6, <1>7, <1>8, <1>9, <1>10 DEF Next

\* An access invitation admits one session, and is not lost by a redemption
\* that is refused.
THEOREM InvitationsAdmitOnceHolds == Spec => InvitationsAdmitOnce
<1>1. Inv /\ [Next]_vars => AdmitsOnce
  BY StepAdmitsOnce
<1>2. [][AdmitsOnce]_vars => InvitationsAdmitOnce
  BY DEF AdmitsOnce, Proved, Ended, InvitationsAdmitOnce
<1> QED
  BY <1>1, <1>2, SpecInv, PTL DEF Spec
=============================================================================
