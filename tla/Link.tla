-------------------------------- MODULE Link --------------------------------
(***************************************************************************)
(* One direct connection, seen from both of its ends: ConnectionManager's  *)
(* Link (client/src/app/connection_manager.cpp) over PeerConnection        *)
(* (client/src/network/peer_connection.cpp), the signed hello and the      *)
(* audio negotiation NetworkSession runs on it.                            *)
(*                                                                         *)
(* A link is a record with the fields of struct Link, and a handler of the *)
(* code that changes it is an operator from links to links.  The WebRTC    *)
(* library is external: its callbacks are posted to the client's thread,   *)
(* so each of them is a step of its own, in any order the library allows.  *)
(* The control channel keeps its packets in order; what is in flight when  *)
(* an end closes is lost.  Offers and answers may be lost on their way.    *)
(*                                                                         *)
(* Packets that touch neither the handshake nor the audio negotiation are  *)
(* left out, and so are sends refused because a queue is full (TextQueue). *)
(***************************************************************************)
EXTENDS Integers, Sequences

CONSTANTS
  Offerer, Answerer,  \* the two ends
  None,
  MaxTroubles         \* renamings, routes and channels lost, errors, lost signals:
                      \* how many in all, at both ends

Ends     == {Offerer, Answerer}
Other(e) == IF e = Offerer THEN Answerer ELSE Offerer

ASSUME LinkAssumption ==
  /\ Offerer # Answerer
  /\ MaxTroubles \in Nat
  /\ None \notin Nat

VARIABLES
  links,        \* [Ends -> Link]
  transport,    \* [Ends -> "new", "connected" or "disconnected"], as last reported
  deadline,     \* [Ends -> None, or the stage the running deadline was set for]
  graces,       \* [Ends -> generations of the grace timers not yet fired]
  signals,      \* session descriptions under way: "offer", "answer"
  wire,         \* [Ends -> packets under way to this end on the control channel]
  name,         \* [Ends -> the display name, as the number of times it changed]
  nonces,       \* ends that chose a nonce: localHelloNonces_
  heard,        \* [Ends -> None, or the name in the last hello]: remoteHellos_
  audio,        \* [Ends -> AudioNegotiationState]
  described,    \* [Ends -> None, "offer" or "answer": a description is posted]
  negotiation,  \* [Ends -> audioNegotiations_]
  meshManaged,  \* whether the link is kept by the mesh or by hand
  initiator,    \* the end shouldInitiateNegotiation names
  troubles,
  faults,       \* whether one of them was an exception or an error
  suspicion,    \* [Ends -> the generation of the last suspicion]
  renamedEarly  \* some user changed names while an end was shaking hands

linkVars  == <<links, deadline, graces, suspicion>>
helloVars == <<name, nonces, heard, renamedEarly>>
audioVars == <<audio, described, negotiation>>
netVars   == <<transport, signals>>
fixed     == <<meshManaged, initiator>>
budget    == <<troubles, faults>>
vars == <<linkVars, helloVars, audioVars, netVars, wire, fixed, budget>>

-----------------------------------------------------------------------------
(* Links.                                                                  *)

\* discard leaves a connected link "Connected" as it goes: here "Closed".
Over    == {"TimedOut", "Failed", "Cancelled", "Closed"}
Waiting == {"Gathering", "AwaitingAnswer", "AwaitingConnection", "Connecting",
            "AwaitingHello"}
Stages  == {"gathering", "signaling", "manual", "connection", "hello"}

ASSUME NoneAssumption ==
  /\ None \notin Stages /\ None \notin {"offer", "answer"}
  /\ None \notin {"deadline", "grace", "transport", "liveness", "key", "user"}

Link == [state : {"none", "Connected", "Suspect"} \cup Waiting \cup Over,
         signalingProduced : BOOLEAN, answerApplied : BOOLEAN,
         control : BOOLEAN, chat : BOOLEAN,
         transportOpen : BOOLEAN, hello : BOOLEAN, open : BOOLEAN,
         generation : Nat,   \* disconnectGeneration
         lastError : {None, "deadline", "grace", "transport", "liveness", "key", "user"}]

NoLink == [state |-> "none", signalingProduced |-> FALSE, answerApplied |-> FALSE,
           control |-> FALSE, chat |-> FALSE,
           transportOpen |-> FALSE, hello |-> FALSE, open |-> FALSE,
           generation |-> 0, lastError |-> None]

Gone(l) == l.state \in Over
Up(l)   == l.state \notin Over \cup {"none"}

\* updateTransportReadiness, up to the hello it has sent.
TransportReady(l) == ~l.transportOpen /\ l.control /\ l.chat
TransportOpened(l) ==
  IF TransportReady(l) THEN [l EXCEPT !.transportOpen = TRUE, !.state = "AwaitingHello"] ELSE l

\* updateHandshakeReadiness.
HandshakeOpened(l) ==
  IF ~l.open /\ l.transportOpen /\ l.hello
  THEN [l EXCEPT !.open = TRUE, !.state = "Connected"]
  ELSE l

\* What recentAttempts_ keeps of a link.
Removed(state, why) == [NoLink EXCEPT !.state = state, !.lastError = why]

\* The deadline a link needs next: cancelled once open, restarted with a stage.
setLink(e, l, stage) ==
  /\ links'    = [links EXCEPT ![e] = l]
  /\ deadline' = [deadline EXCEPT ![e] = stage]

\* remove: the link leaves links_ and its transport is destroyed; timers that
\* still hold it find it gone.  NetworkSession forgets its handshake.
remove(e, state, why) ==
  /\ setLink(e, Removed(state, why), None)
  /\ nonces'      = nonces \ {e}
  /\ heard'       = [heard EXCEPT ![e] = None]
  /\ audio'       = [audio EXCEPT ![e] = "Idle"]
  /\ described'   = [described EXCEPT ![e] = None]
  /\ negotiation' = [negotiation EXCEPT ![e] = 0]
  /\ wire'        = [wire EXCEPT ![e] = <<>>]
  /\ transport'   = [transport EXCEPT ![e] = "new"]
  /\ suspicion'   = [suspicion EXCEPT ![e] = 0]
  /\ UNCHANGED <<name, renamedEarly, signals, fixed>>

noTimers(e) == graces' = [graces EXCEPT ![e] = {}]

fail(e, state, why) == remove(e, state, why) /\ noTimers(e)

discard(e, why) ==
  fail(e, IF links[e].state = "Connected" THEN "Closed" ELSE "Cancelled", why)

NoTrouble == UNCHANGED budget
Trouble   == troubles < MaxTroubles /\ troubles' = troubles + 1 /\ faults' = faults
Fault     == troubles < MaxTroubles /\ troubles' = troubles + 1 /\ faults' = TRUE

unchangedButLink == <<helloVars, audioVars, netVars, wire, fixed>>

-----------------------------------------------------------------------------
(* Signaling.                                                              *)

startOffer ==
  /\ links[Offerer].state = "none"
  /\ setLink(Offerer, [links[Offerer] EXCEPT !.state = "Gathering"], "gathering")
  /\ UNCHANGED <<graces, suspicion, unchangedButLink, budget>>

\* Also how a repeated offer is treated: an answerer that has a link keeps it.
acceptOffer ==
  /\ "offer" \in signals
  /\ links[Answerer].state = "none"
  /\ setLink(Answerer, [links[Answerer] EXCEPT !.state = "Gathering"], "gathering")
  /\ UNCHANGED <<graces, suspicion, unchangedButLink, budget>>

\* createOffer or acceptOffer throws.
StartFails(e) ==
  /\ Fault
  /\ links[e].state = "Gathering" /\ ~links[e].signalingProduced
  /\ fail(e, "Failed", "transport")

\* Faulty: the deadline of the gathering is left to run.
localDescriptionReady_Keeps(e) ==
  setLink(e, [links[e] EXCEPT !.signalingProduced = TRUE,
                              !.state = IF e = Offerer THEN "AwaitingAnswer" ELSE "Connecting"],
          None)

\* All candidates are in.  The answerer's transport reports Connecting at once.
localDescriptionReady(e) ==
  setLink(e, [links[e] EXCEPT !.signalingProduced = TRUE,
                              !.state = IF e = Offerer THEN "AwaitingAnswer" ELSE "Connecting"],
          IF meshManaged THEN "signaling" ELSE "manual")

GatheringCompletes(e) ==
  /\ Up(links[e]) /\ ~links[e].signalingProduced
  /\ localDescriptionReady(e)
  /\ signals' = signals \cup {IF e = Offerer THEN "offer" ELSE "answer"}
  /\ UNCHANGED <<graces, suspicion, transport, helloVars, audioVars, wire,
                 fixed, budget>>

acceptAnswer ==
  /\ "answer" \in signals
  /\ Up(links[Offerer]) /\ ~links[Offerer].answerApplied
  /\ setLink(Offerer, [links[Offerer] EXCEPT !.answerApplied = TRUE, !.state = "Connecting"],
             "connection")
  /\ UNCHANGED <<graces, suspicion, unchangedButLink, budget>>

\* The transport rejects the answer it is given: the mesh gives up, an answer
\* brought by hand may be brought again.
AnswerFails ==
  /\ Fault
  /\ Up(links[Offerer]) /\ links[Offerer].signalingProduced /\ ~links[Offerer].answerApplied
  /\ IF meshManaged
     THEN fail(Offerer, "Failed", "transport")
     ELSE /\ setLink(Offerer, [links[Offerer] EXCEPT !.state = "AwaitingAnswer"], "manual")
          /\ UNCHANGED <<graces, suspicion, unchangedButLink>>

\* An offer or an answer that does not arrive.
SignalLost ==
  /\ \E s \in signals : signals' = signals \ {s}
  /\ UNCHANGED <<linkVars, helloVars, audioVars, transport, wire, fixed, budget>>

-----------------------------------------------------------------------------
(* The handshake.                                                          *)

Hello(n)      == [type |-> "hello", name |-> n]
Proof(n)      == [type |-> "proof", name |-> n]
Offer(k)      == [type |-> "offer", negotiation |-> k]
Answer(k)     == [type |-> "answer", negotiation |-> k]

\* Faulty: hello alone; the proof is left to the answer to the other's hello.
helloAndProof_HelloOnly(e, n) == <<Hello(n)>>

\* sendHello, with the proof if the other end's hello is already known.
helloAndProof(e, n) == <<Hello(n)>> \o IF heard[e] # None THEN <<Proof(n)>> ELSE <<>>

\* sendControl: nothing is sent on a channel that is not open.
sendTo(e, packets) == IF Up(links[Other(e)]) THEN wire[Other(e)] \o packets ELSE <<>>
send(e, packets)   == wire' = [wire EXCEPT ![Other(e)] = sendTo(e, packets)]

\* A channel opens; with the second, transportOpened sends our first hello, and
\* a proof that came early opens the link.
ChannelOpens(e, channel) ==
  LET l == [links[e] EXCEPT ![channel] = TRUE]
      t == TransportOpened(l)
  IN
  /\ Up(links[e]) /\ ~links[e][channel] /\ ~links[e].transportOpen
  /\ links[Offerer].answerApplied /\ links[Answerer].signalingProduced
  /\ Up(links[Other(e)])
  /\ IF TransportReady(l)
     THEN /\ setLink(e, HandshakeOpened(t), IF HandshakeOpened(t).open THEN None ELSE "hello")
          /\ nonces' = nonces \cup {e}
          /\ send(e, helloAndProof(e, name[e]))
     ELSE /\ setLink(e, l, deadline[e])
          /\ UNCHANGED <<nonces, wire>>
  /\ UNCHANGED <<graces, suspicion, name, heard, renamedEarly, audioVars, netVars,
                 fixed, budget>>

\* Faulty: proves itself with its own hello only.
proofFor_Never(e) == <<>>

\* sendPeerProof on the other end's hello.
proofFor(e) == IF e \in nonces THEN <<Proof(name[e])>> ELSE <<>>

Receive(e, type) ==
  /\ Up(links[e]) /\ links[e].control
  /\ wire[e] # <<>>
  /\ Head(wire[e]).type = type

\* The packet is read and "packets" are the reply.
read(e, packets) ==
  wire' = [wire EXCEPT ![e] = Tail(@), ![Other(e)] = sendTo(e, packets)]

handlePeerHello(e) ==
  /\ Receive(e, "hello")
  /\ heard' = [heard EXCEPT ![e] = Head(wire[e]).name]
  /\ read(e, proofFor(e))
  /\ UNCHANGED <<linkVars, name, nonces, renamedEarly, audioVars, netVars,
                 fixed, budget>>

\* The link opens with a proof of the name in the last hello; the initiator
\* then starts the negotiation of the audio track.
handlePeerProof(e) ==
  LET l == HandshakeOpened([links[e] EXCEPT !.hello = TRUE])
      opens == l.open /\ ~links[e].open
  IN
  /\ Receive(e, "proof")
  /\ \/ /\ heard[e] = None \/ e \notin nonces
        /\ read(e, <<>>)
        /\ UNCHANGED <<linkVars, helloVars, audioVars, netVars, fixed>>
     \/ /\ heard[e] # None /\ e \in nonces
        /\ Head(wire[e]).name = heard[e]
        /\ setLink(e, l, IF opens THEN None ELSE deadline[e])
        /\ audio' = [audio EXCEPT ![e] = IF opens /\ e = initiator THEN "CreatingOffer" ELSE @]
        /\ read(e, <<>>)
        /\ UNCHANGED <<graces, suspicion, helloVars, described, negotiation, netVars, fixed>>
     \/ /\ heard[e] # None /\ e \in nonces
        /\ Head(wire[e]).name # heard[e]
        /\ discard(e, "key")
  /\ NoTrouble

\* Faulty: signs the name the user had before.
renameTo_Old(e) == <<Hello(name[e] + 1), Proof(name[e])>>

renameTo(e) == <<Hello(name[e] + 1), Proof(name[e] + 1)>>

\* displayNameChanged: an open link is told with a new hello and a new proof.
Rename(e) ==
  /\ Up(links[e])
  /\ Trouble
  /\ name' = [name EXCEPT ![e] = @ + 1]
  /\ renamedEarly' = (renamedEarly \/ (e \in nonces /\ ~links[e].open))
  /\ wire' = IF links[e].open /\ links[e].control
             THEN [wire EXCEPT ![Other(e)] = sendTo(e, renameTo(e))]
             ELSE wire
  /\ UNCHANGED <<linkVars, nonces, heard, audioVars, netVars, fixed>>

-----------------------------------------------------------------------------
(* The audio track.                                                        *)

\* onLocalDescription, on a thread of the library.
AudioDescribed(e) ==
  /\ audio[e] \in {"CreatingOffer", "CreatingAnswer"}
  /\ LET offer == audio[e] = "CreatingOffer" IN
       /\ audio'     = [audio EXCEPT ![e] = IF offer THEN "AwaitingAnswer" ELSE "Idle"]
       /\ described' = [described EXCEPT ![e] = IF offer THEN "offer" ELSE "answer"]
  /\ UNCHANGED <<linkVars, helloVars, negotiation, netVars, wire, fixed, budget>>

\* The negotiation fails before its description is made.
AudioFails(e) ==
  /\ Fault
  /\ audio[e] \in {"CreatingOffer", "CreatingAnswer"}
  /\ audio'  = [audio EXCEPT ![e] = "Idle"]
  /\ UNCHANGED <<linkVars, helloVars, described, negotiation, netVars, wire, fixed>>

audioDescriptionReady(e) ==
  LET offer == described[e] = "offer"
      k     == negotiation[e] + 1
  IN
  /\ described[e] # None
  /\ described' = [described EXCEPT ![e] = None]
  /\ negotiation' = [negotiation EXCEPT ![e] = IF offer THEN k ELSE @]
  /\ IF links[e].control
     THEN send(e, <<IF offer THEN Offer(k) ELSE Answer(negotiation[e])>>)
     ELSE wire' = wire
  /\ UNCHANGED <<linkVars, helloVars, audio, netVars, fixed, budget>>

\* Faulty: does not note which offer it answers.
noteNegotiation_Skips(e) == negotiation' = negotiation

noteNegotiation(e) == negotiation' = [negotiation EXCEPT ![e] = Head(wire[e]).negotiation]

\* Before the key is proved only hello and proof are looked at.
handleSessionOffer(e) ==
  /\ Receive(e, "offer")
  /\ read(e, <<>>)
  /\ IF links[e].open
     THEN /\ noteNegotiation(e)
          /\ audio' = [audio EXCEPT ![e] = IF @ = "Idle" THEN "CreatingAnswer" ELSE @]
     ELSE UNCHANGED <<negotiation, audio>>
  /\ UNCHANGED <<linkVars, helloVars, described, netVars, fixed, budget>>

handleSessionAnswer(e) ==
  /\ Receive(e, "answer")
  /\ read(e, <<>>)
  /\ audio' = [audio EXCEPT ![e] =
                 IF links[e].open /\ @ = "AwaitingAnswer"
                    /\ Head(wire[e]).negotiation = negotiation[e]
                 THEN "Idle" ELSE @]
  /\ UNCHANGED <<linkVars, helloVars, described, negotiation, netVars, fixed, budget>>

-----------------------------------------------------------------------------
(* The transport.                                                          *)

\* The transport is back: with both channels, the grace timer that may be
\* running is void and the suspicion over.
recovered(l) ==
  IF l.control /\ l.chat
  THEN [l EXCEPT !.generation = @ + 1,
                 !.state = IF l.open /\ @ = "Suspect" THEN "Connected" ELSE @]
  ELSE l

\* Either end's transport says it is connected, first or again.
TransportConnects(e) ==
  /\ Up(links[e]) /\ transport[e] # "connected"
  /\ links[Offerer].answerApplied /\ links[Answerer].signalingProduced
  /\ Up(links[Other(e)])
  /\ transport' = [transport EXCEPT ![e] = "connected"]
  /\ links'     = [links EXCEPT ![e] = recovered(@)]
  /\ UNCHANGED <<deadline, graces, suspicion, helloVars, audioVars, signals, wire,
                 fixed, budget>>

\* suspect: an open link gets a grace period unless it is in one.
suspect(e, l) ==
  IF l.open /\ l.state # "Suspect"
  THEN LET g == l.generation + 1 IN
       /\ links'     = [links EXCEPT ![e] = [l EXCEPT !.state = "Suspect", !.generation = g]]
       /\ graces'    = [graces EXCEPT ![e] = @ \cup {g}]
       /\ suspicion' = [suspicion EXCEPT ![e] = g]
       /\ deadline'  = deadline
  ELSE /\ links' = [links EXCEPT ![e] = l]
       /\ UNCHANGED <<graces, suspicion, deadline>>

TransportDisconnects(e) ==
  /\ Up(links[e]) /\ transport[e] = "connected"
  /\ Trouble
  /\ transport' = [transport EXCEPT ![e] = "disconnected"]
  /\ suspect(e, links[e])
  /\ UNCHANGED <<helloVars, audioVars, signals, wire, fixed>>

\* The library reports the failure of the transport, or an error before the
\* link is open; an error on an open link is only shown.
TransportFails(e) ==
  /\ Up(links[e])
  /\ Fault
  /\ fail(e, "Failed", "transport")

\* A channel is lost by itself, or because the other end is gone.
ChannelCloses(e, channel) ==
  /\ Up(links[e]) /\ links[e][channel]
  /\ \/ Gone(links[Other(e)]) /\ NoTrouble
     \/ Fault
  /\ IF links[e].open
     THEN /\ suspect(e, [links[e] EXCEPT ![channel] = FALSE])
          /\ UNCHANGED unchangedButLink
     ELSE fail(e, "Failed", "transport")

\* The file channel closes, which also puts the link in doubt.
TransferChannelCloses(e) ==
  /\ Up(links[e]) /\ links[e].open
  /\ Fault
  /\ suspect(e, links[e])
  /\ UNCHANGED unchangedButLink

-----------------------------------------------------------------------------
(* Timers and the user.                                                    *)

DeadlinePasses(e) ==
  /\ deadline[e] # None
  /\ NoTrouble
  /\ fail(e, "TimedOut", "deadline")

\* Faulty: any grace timer ends a suspect link.
graceCounts_Any(e, g) == links[e].state = "Suspect"

graceCounts(e, g) == links[e].state = "Suspect" /\ links[e].generation = g

GracePasses(e) ==
  /\ Up(links[e])
  /\ \E g \in graces[e] :
       /\ graces' = [graces EXCEPT ![e] = @ \ {g}]
       /\ IF graceCounts(e, g)
          THEN remove(e, "Failed", "grace")
          ELSE UNCHANGED <<links, deadline, suspicion, helloVars, audioVars, netVars, wire, fixed>>
  /\ NoTrouble

\* The keepalive finds an open link that has been silent for too long.
markTimedOut(e) ==
  /\ links[e].open
  /\ Gone(links[Other(e)]) \/ transport[e] = "disconnected"
  /\ NoTrouble
  /\ fail(e, "TimedOut", "liveness")

\* The user leaves or cancels.
Discard(e) ==
  /\ Up(links[e])
  /\ discard(e, "user")
  /\ NoTrouble

-----------------------------------------------------------------------------
Init ==
  /\ links       = [e \in Ends |-> NoLink]
  /\ transport   = [e \in Ends |-> "new"]
  /\ deadline    = [e \in Ends |-> None]
  /\ graces      = [e \in Ends |-> {}]
  /\ suspicion   = [e \in Ends |-> 0]
  /\ signals     = {}
  /\ wire        = [e \in Ends |-> <<>>]
  /\ name        = [e \in Ends |-> 0]
  /\ nonces      = {}
  /\ heard       = [e \in Ends |-> None]
  /\ renamedEarly = FALSE
  /\ audio       = [e \in Ends |-> "Idle"]
  /\ described   = [e \in Ends |-> None]
  /\ negotiation = [e \in Ends |-> 0]
  /\ meshManaged \in BOOLEAN
  /\ initiator \in Ends
  /\ troubles    = 0
  /\ faults      = FALSE

Next ==
  \/ startOffer \/ acceptOffer \/ acceptAnswer \/ AnswerFails \/ SignalLost
  \/ \E e \in Ends :
       \/ StartFails(e) \/ GatheringCompletes(e)
       \/ \E channel \in {"control", "chat"} : ChannelOpens(e, channel) \/ ChannelCloses(e, channel)
       \/ handlePeerHello(e) \/ handlePeerProof(e) \/ Rename(e)
       \/ AudioDescribed(e) \/ AudioFails(e) \/ audioDescriptionReady(e)
       \/ handleSessionOffer(e) \/ handleSessionAnswer(e)
       \/ TransportConnects(e) \/ TransportDisconnects(e) \/ TransportFails(e)
       \/ TransferChannelCloses(e)
       \/ DeadlinePasses(e) \/ GracePasses(e) \/ markTimedOut(e) \/ Discard(e)

Spec == Init /\ [][Next]_vars

-----------------------------------------------------------------------------
(* Properties.                                                             *)

Packets == [type : {"hello", "proof"}, name : Nat]
           \cup [type : {"offer", "answer"}, negotiation : Nat]

\* The state has the shape the code's declarations give it.
TypeOK ==
  /\ links \in [Ends -> Link]
  /\ transport \in [Ends -> {"new", "connected", "disconnected"}]
  /\ deadline \in [Ends -> Stages \cup {None}]
  /\ graces \in [Ends -> SUBSET Nat]
  /\ suspicion \in [Ends -> Nat]
  /\ signals \subseteq {"offer", "answer"}
  /\ wire \in [Ends -> Seq(Packets)]
  /\ name \in [Ends -> Nat]
  /\ nonces \subseteq Ends
  /\ heard \in [Ends -> Nat \cup {None}]
  /\ renamedEarly \in BOOLEAN
  /\ audio \in [Ends -> {"Idle", "CreatingOffer", "CreatingAnswer", "AwaitingAnswer"}]
  /\ described \in [Ends -> {None, "offer", "answer"}]
  /\ negotiation \in [Ends -> Nat]
  /\ meshManaged \in BOOLEAN
  /\ initiator \in Ends
  /\ troubles \in 0..MaxTroubles
  /\ faults \in BOOLEAN

\* A link is never without a clock that ends it: one that is not open has a
\* deadline, a suspect one the grace timer of this very suspicion, and an open
\* one no deadline that an earlier stage left (connection_manager.cpp:607-657).
EveryWaitHasItsTimer ==
  \A e \in Ends :
    /\ links[e].state \in Waiting <=> deadline[e] # None
    /\ links[e].state = "Suspect" => links[e].generation = suspicion[e]
                                     /\ suspicion[e] \in graces[e]

\* A grace timer ends the link only in the suspicion it was set for: a link
\* that recovered and fell again gets its grace period in full
\* (connection_manager.cpp:648-656).
GraceIsWhole ==
  [][\A e \in Ends : links[e].lastError = None /\ links'[e].lastError = "grace" =>
       suspicion[e] \in graces[e] \ graces'[e]]_vars

Has(packets, type) == \E i \in 1..Len(packets) : packets[i].type = type

\* Once both transports are open, an end that has no proof yet is sent one or
\* has its hello answered with one, in whatever order the channels opened
\* (network_session_packets.cpp:127-129).
ProofIsComing ==
  \A e \in Ends :
    LET o == Other(e) IN
    Up(links[e]) /\ Up(links[o]) /\ links[e].transportOpen /\ links[o].transportOpen
    /\ links[o].control /\ ~links[e].hello
    => Has(wire[e], "proof") \/ Has(wire[o], "hello")

\* Renaming does not break a link that is open at both ends, and a handshake
\* breaks only on a user renamed while it lasts (network_session_packets.cpp:158).
KeysStand ==
  \A e \in Ends : links[e].lastError = "key" => renamedEarly

\* An end that waits for the answer to its audio offer is not forgotten: the
\* offer, or the answer to that very offer, is on its way
\* (network_session.cpp:65, network_session_packets.cpp:378-407).
AudioAnswerIsComing ==
  \A e \in Ends :
    LET o == Other(e) IN
    audio[e] = "AwaitingAnswer" /\ ~faults /\ Up(links[o]) =>
      \/ described[e] = "offer"
      \/ \E i \in 1..Len(wire[o]) : wire[o][i] = Offer(negotiation[e])
      \/ negotiation[o] = negotiation[e]
         /\ (audio[o] = "CreatingAnswer" \/ described[o] = "answer")
      \/ \E i \in 1..Len(wire[e]) : wire[e][i] = Answer(negotiation[e])

\* Whoever is connected comes to know whom it is connected to, and keeps knowing
\* it: no handshake lacks a proof, and none breaks but on a new name.
HandshakeEnds == TypeOK /\ ProofIsComing /\ KeysStand
=============================================================================
