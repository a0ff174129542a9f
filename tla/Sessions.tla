------------------------------ MODULE Sessions ------------------------------
(***************************************************************************)
(* The signaling server's sockets and its access control                   *)
(* (server/src/signaling_server.cpp): who gets a place, who proves which   *)
(* identity, what an access invitation is good for and how a place is      *)
(* given back.                                                             *)
(*                                                                         *)
(* A socket is in sockets_ while its place is not "gone", and in clients_  *)
(* while it is "live".  The values of Sockets are reused: a socket that    *)
(* was gone comes back as a new session.  A proof is a signature over the  *)
(* challenge of the socket it is sent on, so it is right or wrong there    *)
(* and nowhere else; tokens are random, hence never issued twice.          *)
(*                                                                         *)
(* The requests of an authenticated session other than access.invite go to *)
(* the two registries (SignalingServer, PresenceRegistry) and leave this   *)
(* state alone.  Clocks stop counting once past every limit they meet.     *)
(***************************************************************************)
EXTENDS Integers, FiniteSets

CONSTANTS
  Sockets, Identities, Tokens,
  None,
  Granted,               \* identities holding a grant from an earlier time
  MaxSessions,           \* 128 in the code
  PerSession,            \* MaxAccessInvitationsPerSession: 8
  MaxAccessInvitations,  \* 128
  Lifetime,              \* InvitationLifetimeSeconds
  AuthenticationTimeout, \* 15 s
  Heartbeat,             \* 30 s
  CloseTimeout           \* CloseHandshakeTimeoutMs: 5 s

ASSUME SessionsAssumption ==
  /\ None \notin Identities
  /\ Granted \subseteq Identities
  /\ IsFiniteSet(Sockets)
  /\ {MaxSessions, PerSession, MaxAccessInvitations, Lifetime} \subseteq Nat
  /\ {AuthenticationTimeout, Heartbeat, CloseTimeout} \subseteq Nat

VARIABLES
  place,        \* [Sockets -> "gone", "live" or "closing"]
  identity,     \* [Sockets -> None, or the identity it proved]: identityId
  nonce,        \* sockets whose challenge nobody has answered yet
  age,          \* [Sockets -> time since it opened, or since it was closed]
  pinged,       \* [Sockets -> time since the last ping]
  pending,      \* sockets with a ping nobody answered: pendingPing
  invitations,  \* set of [token, issuer, left]: accessInvitations_
  issued,       \* tokens ever issued
  holders,      \* identities that hold a grant
  listening,
  hung          \* sockets whose client will not send another byte

placeVars  == <<place, identity, nonce, age, pinged, pending>>
accessVars == <<invitations, issued, holders>>
vars       == <<placeVars, accessVars, listening, hung>>

Live       == {s \in Sockets : place[s] = "live"}
Held       == {s \in Sockets : place[s] # "gone"}
Invitation == [token : Tokens, issuer : Sockets, left : 0..Lifetime]

Later(n, limit) == IF n < limit THEN n + 1 ELSE n
AgeLimit        == AuthenticationTimeout + CloseTimeout

-----------------------------------------------------------------------------
(* Losing a session.                                                       *)

\* Faulty: keeps the invitations of a session that is gone.
removeClients_KeepsInvitations(S) ==
  /\ identity' = [s \in Sockets |-> IF s \in S THEN None ELSE identity[s]]
  /\ nonce'    = nonce \ S
  /\ pending'  = pending \ S
  /\ pinged'   = [s \in Sockets |-> IF s \in S THEN 0 ELSE pinged[s]]
  /\ invitations' = invitations

\* The sessions of S leave clients_, their access invitations with them.
removeClients(S) ==
  /\ identity' = [s \in Sockets |-> IF s \in S THEN None ELSE identity[s]]
  /\ nonce'    = nonce \ S
  /\ pending'  = pending \ S
  /\ pinged'   = [s \in Sockets |-> IF s \in S THEN 0 ELSE pinged[s]]
  /\ invitations' = {v \in invitations : v.issuer \notin S}

\* closeClient: the place is kept until the other end or the timer closes it.
closeClients(S) ==
  /\ removeClients(S)
  /\ place' = [s \in Sockets |-> IF s \in S THEN "closing" ELSE place[s]]
  /\ age'   = [s \in Sockets |-> IF s \in S THEN 0 ELSE age[s]]

closeClient(s) == closeClients({s}) /\ UNCHANGED <<issued, holders, listening, hung>>

-----------------------------------------------------------------------------
(* Sockets.                                                                *)

\* Faulty: counts the sessions, not the sockets.
hasPlace_Sessions == Cardinality(Live) < MaxSessions

hasPlace == Cardinality(Held) < MaxSessions

\* A socket that finds no place is aborted and never was a session.
registerClient(s) ==
  /\ listening
  /\ place[s] = "gone"
  /\ hasPlace
  /\ place' = [place EXCEPT ![s] = "live"]
  /\ nonce' = nonce \cup {s}
  /\ age'   = [age EXCEPT ![s] = 0]
  /\ hung'  = hung \ {s}
  /\ UNCHANGED <<identity, pinged, pending, accessVars, listening>>

\* The other end goes away, or completes the close handshake.
disconnected(s) ==
  /\ place[s] # "gone"
  /\ s \notin hung
  /\ removeClients({s})
  /\ place' = [place EXCEPT ![s] = "gone"]
  /\ age'   = [age EXCEPT ![s] = 0]
  /\ UNCHANGED <<issued, holders, listening, hung>>

\* The client's machine freezes or drops off the network without a word.
Hang(s) ==
  /\ place[s] # "gone"
  /\ s \notin hung
  /\ hung' = hung \cup {s}
  /\ UNCHANGED <<placeVars, accessVars, listening>>

\* A message can be neither validated nor queued: the session is closed.
SendFails(s) ==
  /\ s \in Live
  /\ closeClient(s)

\* The client's pong carries the payload of the ping that is pending.
Pong(s) ==
  /\ s \in pending \ hung
  /\ pending' = pending \ {s}
  /\ UNCHANGED <<place, identity, nonce, age, pinged, accessVars, listening, hung>>

\* Faulty: leaves closing sockets to their client.
abort_Never(s) == FALSE

\* The timer of closeClient.
abort(s) ==
  /\ place[s] = "closing"
  /\ age[s] >= CloseTimeout

CloseTimer(s) ==
  /\ abort(s)
  /\ place' = [place EXCEPT ![s] = "gone"]
  /\ age'   = [age EXCEPT ![s] = 0]
  /\ UNCHANGED <<identity, nonce, pinged, pending, accessVars, listening, hung>>

\* close(): every session goes at once and nothing is accepted any more.
close ==
  /\ listening
  /\ listening' = FALSE
  /\ closeClients(Live)
  /\ UNCHANGED <<issued, holders, hung>>

-----------------------------------------------------------------------------
(* handleAccess.                                                           *)

speaks(s) == s \in Live \ hung

\* A text message, an envelope that does not decode, a request other than
\* auth.* and access.redeem from a session without an identity.
Refuse(s) ==
  /\ speaks(s)
  /\ closeClient(s)

invite(s) ==
  /\ speaks(s) /\ identity[s] # None
  /\ Cardinality({v \in invitations : v.issuer = s}) < PerSession
  /\ Cardinality(invitations) < MaxAccessInvitations
  /\ \E t \in Tokens \ issued :
       /\ issued' = issued \cup {t}
       /\ invitations' = invitations \cup {[token |-> t, issuer |-> s, left |-> Lifetime]}
  /\ UNCHANGED <<placeVars, holders, listening, hung>>

\* Faulty: a proof is good for any nonce the session ever had.
mayProve_Again(s) == age[s] < AuthenticationTimeout

\* What is asked of a session before its proof is looked at.
mayProve(s) ==
  /\ identity[s] = None
  /\ s \in nonce
  /\ age[s] < AuthenticationTimeout

\* Faulty: the last session to prove an identity has it.
inUse_Never(i) == FALSE

inUse(i) == \E s \in Live : identity[s] = i

admit(s, i) ==
  /\ identity' = [identity EXCEPT ![s] = i]
  /\ nonce'    = nonce \ {s}
  /\ UNCHANGED <<place, age, pinged, pending, issued, listening, hung>>

\* auth.authenticate: "holds" says whether the grant and the signature do.
Authenticate(s, i, holds) ==
  /\ speaks(s)
  /\ holds => i \in holders
  /\ IF mayProve(s) /\ holds /\ ~inUse(i)
     THEN admit(s, i) /\ UNCHANGED <<invitations, holders>>
     ELSE closeClient(s)

\* Faulty: uses the invitation up, then finds the identity in use.
redeem_Consumes(s, i, v) ==
  /\ admit(s, IF inUse(i) THEN None ELSE i)
  /\ invitations' = invitations \ {v}
  /\ holders'     = IF inUse(i) THEN holders ELSE holders \cup {i}

\* A proof that holds and comes with an invitation that does: the identity is
\* looked for before the invitation is used up.
redeem(s, i, v) ==
  IF inUse(i)
  THEN closeClient(s)
  ELSE /\ admit(s, i)
       /\ invitations' = invitations \ {v}
       /\ holders'     = holders \cup {i}

\* access.redeem, with a proof and a token that hold, or with one that does not.
Redeem(s, i) ==
  /\ speaks(s)
  /\ \/ /\ mayProve(s)
        /\ \E v \in invitations : v.left > 0 /\ redeem(s, i, v)
     \/ closeClient(s)

-----------------------------------------------------------------------------
(* Time.                                                                   *)

Tick ==
  /\ age' = [s \in Sockets |->
               IF s \in Held THEN Later(age[s], AgeLimit) ELSE 0]
  /\ pinged' = [s \in Sockets |->
                  IF s \in Live THEN Later(pinged[s], Heartbeat) ELSE 0]
  /\ invitations' = {[v EXCEPT !.left = IF @ > 0 THEN @ - 1 ELSE 0] : v \in invitations}
  /\ UNCHANGED <<place, identity, nonce, pending, issued, holders, listening, hung>>

Unproved == {s \in Live : identity[s] = None /\ age[s] >= AuthenticationTimeout}
PingDue  == {s \in Live : pinged[s] >= Heartbeat} \ Unproved

\* maintainConnections: late proofs and unanswered pings close, the others
\* are asked again.
maintainConnections ==
  LET lost == Unproved \cup (PingDue \cap pending)
      ask  == PingDue \ pending
  IN
  /\ listening
  /\ place'    = [s \in Sockets |-> IF s \in lost THEN "closing" ELSE place[s]]
  /\ age'      = [s \in Sockets |-> IF s \in lost THEN 0 ELSE age[s]]
  /\ identity' = [s \in Sockets |-> IF s \in lost THEN None ELSE identity[s]]
  /\ nonce'    = nonce \ lost
  /\ pending'  = (pending \ lost) \cup ask
  /\ pinged'   = [s \in Sockets |-> IF s \in lost \cup ask THEN 0 ELSE pinged[s]]
  /\ invitations' = {v \in invitations : v.left > 0 /\ v.issuer \notin lost}
  /\ UNCHANGED <<issued, holders, listening, hung>>

-----------------------------------------------------------------------------
Init ==
  /\ place       = [s \in Sockets |-> "gone"]
  /\ identity    = [s \in Sockets |-> None]
  /\ nonce       = {}
  /\ age         = [s \in Sockets |-> 0]
  /\ pinged      = [s \in Sockets |-> 0]
  /\ pending     = {}
  /\ invitations = {}
  /\ issued      = {}
  /\ holders     = Granted
  /\ listening   = TRUE
  /\ hung        = {}

Next ==
  \/ \E s \in Sockets :
       \/ registerClient(s) \/ disconnected(s) \/ Hang(s) \/ SendFails(s)
       \/ Pong(s) \/ CloseTimer(s)
       \/ Refuse(s) \/ invite(s)
       \/ \E i \in Identities : \/ \E holds \in BOOLEAN : Authenticate(s, i, holds)
                                \/ Redeem(s, i)
  \/ close
  \/ Tick
  \/ maintainConnections

Spec == Init /\ [][Next]_vars

\* Timers are served: the event loop runs and the clock goes on.
FairSpec ==
  /\ Spec
  /\ WF_vars(Tick)
  /\ WF_vars(maintainConnections)
  /\ \A s \in Sockets : WF_vars(CloseTimer(s))

-----------------------------------------------------------------------------
(* Properties.                                                             *)

\* The state has the shape the code's declarations give it.
TypeOK ==
  /\ place \in [Sockets -> {"gone", "live", "closing"}]
  /\ identity \in [Sockets -> Identities \cup {None}]
  /\ nonce \subseteq Sockets
  /\ age \in [Sockets -> 0..AgeLimit]
  /\ pinged \in [Sockets -> 0..Heartbeat]
  /\ pending \subseteq Sockets
  /\ invitations \subseteq Invitation
  /\ issued \subseteq Tokens
  /\ holders \subseteq Identities
  /\ listening \in BOOLEAN
  /\ hung \subseteq Sockets

\* No identity has two sessions, whatever order sockets open, prove and close
\* in (signaling_server.cpp:309): the registries and every client address a
\* peer by its identity alone.
OneSessionEach ==
  \A s, t \in Sockets : s # t /\ identity[s] # None => identity[s] # identity[t]

\* An invitation stands only while the session that issued it does, never for
\* the session that comes after it on the same socket, and no token opens two
\* (signaling_server.cpp:404).
InvitationsHaveIssuers ==
  \A v \in invitations :
    /\ identity[v.issuer] # None
    /\ v.token \in issued
    /\ \A w \in invitations : w.token = v.token => w = v

\* Closing sockets hold their places until they are freed, so the server
\* never has more than MaxSessions sockets (signaling_server.cpp:134).
WithinPlaces == Cardinality(Held) <= MaxSessions

\* A session without an identity can still prove one: a failed proof leaves
\* no session behind that has neither (signaling_server.cpp:283).
ProofPending == \A s \in Live : (s \in nonce) <=> (identity[s] = None)

\* However sockets open, prove, close and are cut off, the server's tables fit:
\* one session for an identity, no invitation without its issuer, no socket
\* beyond MaxSessions and none that is neither a session nor able to become one.
SessionsAreSound ==
  TypeOK /\ OneSessionEach /\ InvitationsHaveIssuers /\ WithinPlaces /\ ProofPending

\* A session keeps the identity it proved until it ends: a second proof on the
\* same socket is refused, whatever it says (signaling_server.cpp:276).
IdentityStands ==
  [][\A s \in Sockets : identity[s] # None => identity'[s] \in {identity[s], None}]_vars

\* An access invitation is used up by exactly one new session, and otherwise
\* ends only with its issuer or its lifetime: a redemption that is refused
\* leaves it for the next (signaling_server.cpp:309).
InvitationsAdmitOnce ==
  [][LET proved == {s \in Sockets : identity[s] = None /\ identity'[s] # None}
         ended  == {v \in invitations :
                      /\ v.left > 0 /\ identity'[v.issuer] # None
                      /\ \A w \in invitations' : w.token # v.token}
     IN /\ Cardinality(ended) <= Cardinality(proved)
        /\ \A s \in proved : identity'[s] \in holders \/ ended # {}]_vars

\* The client that falls silent loses its place, however it got there: before
\* its proof, as a session or while it was being closed. A full server is full
\* only for a time (signaling_server.cpp:443, :452, :422).
SilentSocketsGo ==
  \A s \in Sockets : s \in hung /\ place[s] # "gone" ~> place[s] = "gone"
=============================================================================
