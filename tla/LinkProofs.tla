----------------------------- MODULE LinkProofs -----------------------------
(***************************************************************************)
(* One direct connection and its two ends, for any number of troubles: no  *)
(* wait is without its timer, a grace period is whole, the handshake does  *)
(* not get stuck and an audio offer is answered.                           *)
(***************************************************************************)
EXTENDS Link, SequenceTheorems, TLAPS

\* What a channel needs before it opens: the end has the other's description.
Established(e) ==
  IF e = Offerer THEN links[Offerer].answerApplied ELSE links[Answerer].signalingProduced

\* A link in the stages it goes through.
Staged(e) ==
  LET l == links[e] IN
  /\ l.state \in Waiting <=> deadline[e] # None
  /\ l.open <=> l.state \in {"Connected", "Suspect"}
  /\ l.open <=> l.hello
  /\ l.hello => l.transportOpen
  /\ l.transportOpen <=> e \in nonces
  /\ l.control \/ l.chat \/ l.transportOpen => Established(e) /\ Up(l)
  /\ l.answerApplied => l.signalingProduced /\ e = Offerer
  /\ l.transportOpen => l.state \in {"AwaitingHello", "Connected", "Suspect"}
  /\ l.transportOpen /\ ~l.open => l.control /\ l.chat
  /\ l.lastError # None => Gone(l)
  /\ ~Up(l) => ~l.open /\ ~l.answerApplied /\ ~l.signalingProduced

\* A suspect link and the grace timer of its suspicion.
Graced(e) ==
  links[e].state = "Suspect" =>
    links[e].generation = suspicion[e] /\ suspicion[e] \in graces[e]

\* Channels open only between two links.
Paired(e) == links[e].transportOpen => links[Other(e)].state # "none"

OfferMade == links[Offerer].signalingProduced \/ Gone(links[Offerer])

\* Descriptions follow one another.
SignalsCome ==
  /\ "offer" \in signals => OfferMade
  /\ links[Answerer].state # "none" => OfferMade
  /\ "answer" \in signals => links[Answerer].state # "none"

Stand ==
  /\ TypeOK
  /\ SignalsCome
  /\ \A e \in Ends : Staged(e) /\ Graced(e) /\ Paired(e)

-----------------------------------------------------------------------------
(* The timers.                                                             *)

\* The two ends are each other's other end.
LEMMA TwoEnds ==
  /\ Offerer \in Ends /\ Answerer \in Ends /\ Offerer # Answerer
  /\ \A e \in Ends : Other(e) \in Ends /\ Other(e) # e /\ Other(Other(e)) = e
  /\ \A e, u \in Ends : u # e <=> u = Other(e)
  BY LinkAssumption DEF Ends, Other

\* The packets one end sends.
LEMMA PacketTypes ==
  /\ \A n \in Nat : Hello(n) \in Packets /\ Proof(n) \in Packets
  /\ \A k \in Nat : Offer(k) \in Packets /\ Answer(k) \in Packets
  BY DEF Hello, Proof, Offer, Answer, Packets

\* The first state.
LEMMA InitStand == Init => Stand
<1> SUFFICES ASSUME Init PROVE Stand OBVIOUS
<1>1. NoLink \in Link BY DEF NoLink, Link
<1>2. TypeOK
  <2>1. <<>> \in Seq(Packets) /\ 0 \in 0..MaxTroubles BY LinkAssumption
  <2>2. wire \in [Ends -> Seq(Packets)] /\ links \in [Ends -> Link]
    BY <1>1, <2>1, Zenon DEF Init
  <2> QED BY <2>1, <2>2 DEF Init, TypeOK
<1>3. \A e \in Ends : links[e] = NoLink /\ deadline[e] = None /\ nonces = {}
  BY DEF Init
<1>4. SignalsCome BY <1>3, TwoEnds DEF Init, SignalsCome, NoLink
<1>5. \A e \in Ends : Staged(e) /\ Graced(e) /\ Paired(e)
  BY <1>3 DEF Staged, Graced, Paired, NoLink, Waiting, Up, Over, Gone
<1> QED BY <1>2, <1>4, <1>5 DEF Stand

\* A step of one end, as the other end's link sees it.
OnlyAt(e) ==
  /\ \A u \in Ends : u # e =>
       /\ links'[u] = links[u] /\ deadline'[u] = deadline[u]
       /\ graces'[u] = graces[u] /\ suspicion'[u] = suspicion[u]
       /\ u \in nonces' <=> u \in nonces
  /\ links'[e].state = "none" => links[e].state = "none"

\* So the other end stands as it stood, and this one is what is left to show.
LEMMA OtherStands ==
  ASSUME Stand, NEW e \in Ends, OnlyAt(e), TypeOK', SignalsCome',
         Staged(e)', Graced(e)', links'[e].transportOpen => links[Other(e)].state # "none"
  PROVE  Stand'
<1>1. ASSUME NEW u \in Ends, u # e PROVE Staged(u)' /\ Graced(u)' /\ Paired(u)'
  <2>1. links'[u] = links[u] /\ (Established(u)' <=> Established(u))
    BY <1>1, TwoEnds DEF OnlyAt, Established, Ends
  <2>2. Staged(u)' BY <1>1, <2>1 DEF Stand, OnlyAt, Staged, Up, Gone
  <2>3. Graced(u)' BY <1>1 DEF Stand, OnlyAt, Graced
  <2>4. Other(u) = e BY <1>1, TwoEnds
  <2>5. Paired(u)' BY <1>1, <2>1, <2>4 DEF Stand, OnlyAt, Paired
  <2> QED BY <2>2, <2>3, <2>5
<1>2. Paired(e)' BY TwoEnds DEF OnlyAt, Paired
<1> QED BY <1>1, <1>2 DEF Stand

\* The end of a link.
LEMMA RemovedStands ==
  ASSUME Stand, NEW e \in Ends, NEW state \in Over,
         NEW why \in {"deadline", "grace", "transport", "liveness", "key", "user"},
         Up(links[e]), remove(e, state, why), graces' \in [Ends -> SUBSET Nat],
         \A u \in Ends : u # e => graces'[u] = graces[u],
         troubles' \in 0..MaxTroubles, faults' \in BOOLEAN
  PROVE  Stand'
<1>1. Removed(state, why) \in Link BY DEF Removed, NoLink, Link
<1>2. /\ links' = [links EXCEPT ![e] = Removed(state, why)]
      /\ deadline' = [deadline EXCEPT ![e] = None]
      /\ nonces' = nonces \ {e}
      /\ suspicion' = [suspicion EXCEPT ![e] = 0]
      /\ UNCHANGED <<name, renamedEarly, signals, meshManaged, initiator>>
  BY DEF remove, setLink, fixed
<1>3. /\ heard'       = [heard EXCEPT ![e] = None]
      /\ audio'       = [audio EXCEPT ![e] = "Idle"]
      /\ described'   = [described EXCEPT ![e] = None]
      /\ negotiation' = [negotiation EXCEPT ![e] = 0]
      /\ wire'        = [wire EXCEPT ![e] = <<>>]
      /\ transport'   = [transport EXCEPT ![e] = "new"]
  BY DEF remove
<1>4. TypeOK' BY <1>1, <1>2, <1>3 DEF Stand, TypeOK
<1>5. OnlyAt(e) BY <1>2, <1>1 DEF OnlyAt, Stand, TypeOK, Removed, NoLink, Over
<1>6. Staged(e)' /\ Graced(e)' /\ ~links'[e].transportOpen
  BY <1>2 DEF Stand, TypeOK, Staged, Graced, Removed, NoLink, Up, Gone, Over, Waiting
<1>7. SignalsCome'
  <2>1. links[e].state # "none" /\ Gone(links'[e]) /\ links'[e].state # "none"
    BY <1>2 DEF Up, Stand, TypeOK, Removed, NoLink, Gone, Over
  <2>2. CASE e = Offerer
    BY <2>1, <2>2, <1>2, TwoEnds DEF Stand, TypeOK, SignalsCome, OfferMade
  <2>3. CASE e = Answerer
    BY <2>1, <2>3, <1>2, TwoEnds DEF Stand, TypeOK, SignalsCome, OfferMade
  <2> QED BY <2>2, <2>3 DEF Ends
<1> QED BY <1>4, <1>5, <1>6, <1>7, OtherStands

\* What the steps that change little change.
LEMMA BudgetTypes ==
  ASSUME TypeOK, NoTrouble \/ Trouble \/ Fault
  PROVE  troubles' \in 0..MaxTroubles /\ faults' \in BOOLEAN /\ (faults => faults')
<1>1. troubles \in Int /\ MaxTroubles \in Int /\ 0 <= troubles /\ troubles <= MaxTroubles
  BY LinkAssumption DEF TypeOK
<1>2. CASE NoTrouble BY <1>2 DEF NoTrouble, budget, TypeOK
<1>3. CASE Trouble BY <1>1, <1>3 DEF Trouble, TypeOK
<1>4. CASE Fault BY <1>1, <1>4 DEF Fault
<1> QED BY <1>2, <1>3, <1>4

\* fail: whatever ends a link, its timers go with it.
LEMMA FailedStands ==
  ASSUME Stand, NEW e \in Ends, NEW state \in Over,
         NEW why \in {"deadline", "grace", "transport", "liveness", "key", "user"},
         Up(links[e]), fail(e, state, why), NoTrouble \/ Trouble \/ Fault
  PROVE  Stand'
<1>1. graces' = [graces EXCEPT ![e] = {}] /\ remove(e, state, why)
  BY DEF fail, noTimers
<1>2. graces' \in [Ends -> SUBSET Nat] /\ \A u \in Ends : u # e => graces'[u] = graces[u]
  BY <1>1 DEF Stand, TypeOK
<1> QED BY <1>1, <1>2, BudgetTypes, RemovedStands DEF Stand

\* A link that goes on to its next stage.
LEMMA StagedStands ==
  ASSUME Stand, NEW e \in Ends, NEW l \in Link, NEW stage \in Stages \cup {None},
         setLink(e, l, stage), l.state # "none",
         signals' \subseteq {"offer", "answer"}, UNCHANGED <<graces, suspicion, helloVars, fixed>>,
         UNCHANGED <<audioVars, transport, wire>>,
         troubles' \in 0..MaxTroubles, faults' \in BOOLEAN,
         SignalsCome', Staged(e)', Graced(e)',
         l.transportOpen => links[Other(e)].state # "none"
  PROVE  Stand'
<1>1. links' = [links EXCEPT ![e] = l] /\ deadline' = [deadline EXCEPT ![e] = stage]
  BY DEF setLink
<1>2. TypeOK' BY <1>1 DEF Stand, TypeOK, helloVars, audioVars, fixed
<1>3. OnlyAt(e) /\ links'[e] = l BY <1>1 DEF OnlyAt, Stand, TypeOK, helloVars
<1> QED BY <1>2, <1>3, OtherStands

-----------------------------------------------------------------------------
(* The steps of a link.                                                    *)

\* The two ends gather: first the one that offers, then the one that answers.
LEMMA StartStands == Stand /\ (startOffer \/ acceptOffer) => Stand'
<1> SUFFICES ASSUME Stand, NEW e \in Ends, links[e].state = "none",
                    setLink(e, [links[e] EXCEPT !.state = "Gathering"], "gathering"),
                    e = Answerer => OfferMade,
                    UNCHANGED <<graces, suspicion, unchangedButLink, budget>>
             PROVE  Stand'
  BY TwoEnds DEF startOffer, acceptOffer, Stand, SignalsCome
<1> DEFINE l == [links[e] EXCEPT !.state = "Gathering"]
<1>0. links[e] \in Link BY DEF Stand, TypeOK
<1>1. l \in Link /\ l.state = "Gathering" BY <1>0 DEF Link, Waiting
<1>2. links' = [links EXCEPT ![e] = l] /\ deadline' = [deadline EXCEPT ![e] = "gathering"]
  BY DEF setLink
<1>3. Staged(e)' /\ Graced(e)' /\ ~l.transportOpen
  BY <1>2, NoneAssumption
  DEF Stand, TypeOK, Link, Staged, Graced, Established, Up, Gone, Over, Waiting, Stages, unchangedButLink,
      helloVars, Ends
<1>4. SignalsCome'
  BY <1>2, TwoEnds
  DEF Stand, TypeOK, Link, SignalsCome, OfferMade, Gone, Over, unchangedButLink, netVars, Ends
<1> QED
  BY <1>1, <1>3, <1>4, StagedStands
  DEF Stand, TypeOK, Stages, unchangedButLink, netVars, budget

\* The description is made and sent.
LEMMA GatheringStands == \A e \in Ends : Stand /\ GatheringCompletes(e) => Stand'
<1> SUFFICES ASSUME NEW e \in Ends, Stand, GatheringCompletes(e) PROVE Stand' OBVIOUS
<1> DEFINE l == [links[e] EXCEPT !.signalingProduced = TRUE,
                   !.state = IF e = Offerer THEN "AwaitingAnswer" ELSE "Connecting"]
           stage == IF meshManaged THEN "signaling" ELSE "manual"
<1>1. setLink(e, l, stage) BY DEF GatheringCompletes, localDescriptionReady
<1>0. links[e] \in Link BY DEF Stand, TypeOK
<1>2. l \in Link /\ l.state \in Waiting BY <1>0 DEF Link, Waiting
<1>3. stage \in Stages BY DEF Stages
<1> HIDE DEF stage
<1>4. links' = [links EXCEPT ![e] = l] /\ deadline' = [deadline EXCEPT ![e] = stage]
  BY <1>1 DEF setLink
<1>5. ~links[e].signalingProduced /\ Up(links[e]) BY DEF GatheringCompletes
<1>6. ~links[e].transportOpen /\ ~links[e].control /\ ~links[e].chat /\ ~links[e].answerApplied
  BY <1>5 DEF Stand, Staged, Established, Ends
<1>7. Staged(e)' /\ Graced(e)' /\ ~l.transportOpen
  BY <1>2, <1>3, <1>4, <1>5, <1>6, NoneAssumption
  DEF Stand, TypeOK, Link, Staged, Graced, Up, Gone, Over, Waiting, GatheringCompletes,
      helloVars
<1>8. signals' = signals \cup {IF e = Offerer THEN "offer" ELSE "answer"}
  BY DEF GatheringCompletes
<1>9. SignalsCome'
  <2>1. CASE e = Offerer
    BY <2>1, <1>4, <1>8, TwoEnds DEF Stand, TypeOK, Link, SignalsCome, OfferMade, Gone, Over
  <2>2. CASE e = Answerer
    BY <2>2, <1>2, <1>4, <1>5, <1>8, TwoEnds, SMTT(30)
    DEF Stand, TypeOK, Link, SignalsCome, OfferMade, Gone, Over, Up, Waiting
  <2> QED BY <2>1, <2>2 DEF Ends
<1>10. l.state # "none" BY <1>2 DEF Waiting
<1>11. signals' \subseteq {"offer", "answer"} BY <1>8 DEF Stand, TypeOK
<1> QED
  BY <1>1, <1>2, <1>3, <1>7, <1>9, <1>10, <1>11, StagedStands
  DEF Stand, TypeOK, GatheringCompletes, budget

\* The answer is applied, or it is not and waited for again.
LEMMA AnswerStands == Stand /\ (acceptAnswer \/ AnswerFails) => Stand'
<1> SUFFICES ASSUME Stand, acceptAnswer \/ AnswerFails PROVE Stand' OBVIOUS
<1>0. CASE AnswerFails /\ meshManaged
  BY <1>0, TwoEnds, FailedStands DEF AnswerFails, Over
<1>1. CASE ~(AnswerFails /\ meshManaged)
  <2> PICK l \in Link, stage \in Stages :
        /\ setLink(Offerer, l, stage)
        /\ Up(links[Offerer]) /\ ~links[Offerer].answerApplied
        /\ links[Offerer].signalingProduced
        /\ \/ l = [links[Offerer] EXCEPT !.answerApplied = TRUE, !.state = "Connecting"]
           \/ l = [links[Offerer] EXCEPT !.state = "AwaitingAnswer"]
    <3>1. links[Offerer] \in Link BY TwoEnds DEF Stand, TypeOK
    <3>2. /\ [links[Offerer] EXCEPT !.answerApplied = TRUE, !.state = "Connecting"] \in Link
          /\ [links[Offerer] EXCEPT !.state = "AwaitingAnswer"] \in Link
      BY <3>1 DEF Link, Waiting
    <3>3. "connection" \in Stages /\ "manual" \in Stages BY DEF Stages
    <3>4. acceptAnswer => links[Offerer].signalingProduced
      BY DEF acceptAnswer, Stand, SignalsCome, OfferMade, Gone, Up
    <3> QED BY <1>1, <3>2, <3>3, <3>4 DEF acceptAnswer, AnswerFails
  <2>2. UNCHANGED <<graces, suspicion, unchangedButLink>> /\ (NoTrouble \/ Trouble \/ Fault)
    BY <1>1 DEF acceptAnswer, AnswerFails, NoTrouble
  <2>3. links' = [links EXCEPT ![Offerer] = l] /\ deadline' = [deadline EXCEPT ![Offerer] = stage]
    BY DEF setLink
  <2>4. l.state \in {"Connecting", "AwaitingAnswer"} /\ l.signalingProduced
    BY TwoEnds DEF Stand, TypeOK, Link
  <2>5. ~links[Offerer].transportOpen /\ ~links[Offerer].control /\ ~links[Offerer].chat
    BY TwoEnds DEF Stand, Staged, Established
  <2>8. /\ l.open = links[Offerer].open /\ l.hello = links[Offerer].hello
        /\ ~l.transportOpen /\ ~l.control /\ ~l.chat
        /\ l.lastError = links[Offerer].lastError
    <3>1. links[Offerer] \in Link BY TwoEnds DEF Stand, TypeOK
    <3> QED BY <2>5, <3>1 DEF Link
  <2>9. links'[Offerer] = l /\ deadline'[Offerer] = stage /\ stage # None
    BY <2>3, NoneAssumption, TwoEnds DEF Stand, TypeOK
  <2>10. Staged(Offerer)
    BY TwoEnds DEF Stand
  <2>11. Offerer \in nonces' <=> Offerer \in nonces
    BY <2>2 DEF unchangedButLink, helloVars
  <2>12. l.state \in Waiting /\ l.state \notin Over /\ Up(l)
    BY <2>4 DEF Waiting, Over, Up
  <2>13. Staged(Offerer)'
    BY <2>4, <2>5, <2>8, <2>9, <2>10, <2>11, <2>12 DEF Staged, Up, Gone
  <2>6. Graced(Offerer)' /\ ~l.transportOpen
    BY <2>4, <2>8, <2>9 DEF Graced
  <2>7. SignalsCome'
    BY <2>2, <2>3, <2>4, TwoEnds
    DEF Stand, TypeOK, SignalsCome, OfferMade, unchangedButLink, netVars
  <2> QED
    BY <2>2, <2>4, <2>6, <2>13, <2>7, StagedStands, BudgetTypes, TwoEnds
    DEF Stand, TypeOK, Stages, unchangedButLink, netVars
<1> QED BY <1>0, <1>1

\* A channel opens; the second one opens the transport, and the link if the
\* other end's proof was here first.
LEMMA ChannelStands ==
  \A e \in Ends, channel \in {"control", "chat"} : Stand /\ ChannelOpens(e, channel) => Stand'
<1> SUFFICES ASSUME NEW e \in Ends, NEW channel \in {"control", "chat"},
                    Stand, ChannelOpens(e, channel)
             PROVE  Stand'
  OBVIOUS
<1> DEFINE l == [links[e] EXCEPT ![channel] = TRUE]
           t == TransportOpened(l)
           h == HandshakeOpened(t)
<1>1. /\ Up(links[e]) /\ ~links[e].transportOpen /\ Up(links[Other(e)])
      /\ links[Offerer].answerApplied /\ links[Answerer].signalingProduced
      /\ UNCHANGED <<graces, suspicion, name, heard, renamedEarly, audioVars, netVars,
                     fixed, budget>>
  BY DEF ChannelOpens
<1>2. links[e] \in Link BY DEF Stand, TypeOK
<1>3. /\ l \in Link /\ ~l.transportOpen /\ ~l.open /\ ~l.hello
      /\ l.state = links[e].state /\ l.lastError = links[e].lastError
      /\ l.answerApplied = links[e].answerApplied
      /\ l.signalingProduced = links[e].signalingProduced
  BY <1>1, <1>2 DEF Link, Stand, Staged
<1>4. Established(e)' <=> \/ links'[e].answerApplied /\ e = Offerer
                          \/ links'[e].signalingProduced /\ e = Answerer
  BY TwoEnds DEF Established, Ends
<1>5. \/ links[e].answerApplied /\ e = Offerer
      \/ links[e].signalingProduced /\ e = Answerer
  BY <1>1 DEF Ends
<1>6. links[Other(e)].state # "none" BY <1>1 DEF Up
<1>7. CASE TransportReady(l)
  <2>1. /\ setLink(e, h, IF h.open THEN None ELSE "hello")
        /\ nonces' = nonces \cup {e}
        /\ send(e, helloAndProof(e, name[e]))
    BY <1>7 DEF ChannelOpens
  <2>2. t = [l EXCEPT !.transportOpen = TRUE, !.state = "AwaitingHello"]
    BY <1>7 DEF TransportOpened
  <2>3. /\ t \in Link /\ t.state = "AwaitingHello" /\ t.transportOpen /\ ~t.open /\ ~t.hello
        /\ t.control /\ t.chat /\ t.lastError = links[e].lastError
        /\ t.answerApplied = links[e].answerApplied
        /\ t.signalingProduced = links[e].signalingProduced
    BY <2>2, <1>3, <1>7 DEF Link, Waiting, TransportReady
  <2>4. h = t BY <2>3 DEF HandshakeOpened
  <2>5. links'[e] = t /\ deadline'[e] = "hello" /\ e \in nonces'
    BY <2>1, <2>3, <2>4 DEF setLink, Stand, TypeOK
  <2>6. Staged(e)' /\ Graced(e)'
    BY <2>3, <2>5, <1>4, <1>5, <1>1, NoneAssumption
    DEF Stand, Staged, Graced, Up, Gone, Over, Waiting, Stages
  <2>7. links' = [links EXCEPT ![e] = t] /\ deadline' = [deadline EXCEPT ![e] = "hello"]
    BY <2>1, <2>3, <2>4 DEF setLink
  <2>8. OnlyAt(e)
    BY <2>1, <2>3, <2>7, <1>1 DEF OnlyAt, Stand, TypeOK
  <2>9. SignalsCome'
    <3>1. /\ links'[Offerer].signalingProduced = links[Offerer].signalingProduced
          /\ links'[Answerer].state # "none"
      BY <2>3, <2>7, <1>1, TwoEnds DEF Stand, TypeOK, Up, Ends
    <3>2. links[Offerer].signalingProduced BY <1>1, TwoEnds DEF Stand, Staged
    <3> QED BY <3>1, <3>2 DEF SignalsCome, OfferMade
  <2>10. wire' \in [Ends -> Seq(Packets)]
    <3>1. helloAndProof(e, name[e]) \in Seq(Packets)
      <4>1. <<Hello(name[e])>> \in Seq(Packets) /\ <<Proof(name[e])>> \in Seq(Packets)
        BY PacketTypes DEF Stand, TypeOK
      <4> QED BY <4>1 DEF helloAndProof
    <3>2. wire[Other(e)] \in Seq(Packets) BY TwoEnds DEF Stand, TypeOK
    <3>3. sendTo(e, helloAndProof(e, name[e])) \in Seq(Packets) BY <3>1, <3>2 DEF sendTo
    <3> QED BY <2>1, <3>3, TwoEnds DEF send, Stand, TypeOK
  <2>11. TypeOK'
    BY <2>1, <2>3, <2>7, <2>10, <1>1, NoneAssumption
    DEF Stand, TypeOK, Stages, audioVars, netVars, fixed, budget
  <2> QED BY <2>5, <2>6, <2>8, <2>9, <2>11, <1>6, OtherStands
<1>8. CASE ~TransportReady(l)
  <2>1. setLink(e, l, deadline[e]) /\ UNCHANGED <<nonces, wire>>
    BY <1>8 DEF ChannelOpens
  <2>2. links'[e] = l /\ deadline'[e] = deadline[e]
    BY <2>1 DEF setLink, Stand, TypeOK
  <2>3. Staged(e)' /\ Graced(e)'
    BY <2>1, <2>2, <1>1, <1>3, <1>4, <1>5, ZenonT(30) DEF Stand, Staged, Graced, Up, Gone
  <2>4. SignalsCome'
    <3>1. /\ links'[Offerer].signalingProduced = links[Offerer].signalingProduced
          /\ links'[Answerer].state = links[Answerer].state
      BY <2>1, <1>3, TwoEnds DEF setLink, Stand, TypeOK, Ends
    <3>2. links[Offerer].signalingProduced BY <1>1, TwoEnds DEF Stand, Staged
    <3> QED BY <3>1, <3>2, <1>1 DEF Stand, SignalsCome, OfferMade, netVars
  <2>5. l.state # "none" /\ ~l.transportOpen BY <1>1, <1>3 DEF Up
  <2> QED
    BY <2>1, <2>3, <2>4, <2>5, <1>1, <1>3, StagedStands
    DEF Stand, TypeOK, helloVars, netVars, budget
<1> QED BY <1>7, <1>8

\* Reading a packet and replying keeps packets packets.
LEMMA WireTypes ==
  ASSUME TypeOK, NEW e \in Ends, NEW packets \in Seq(Packets)
  PROVE  /\ sendTo(e, packets) \in Seq(Packets)
         /\ send(e, packets) => wire' \in [Ends -> Seq(Packets)]
         /\ read(e, packets) /\ wire[e] # <<>> =>
              /\ wire' \in [Ends -> Seq(Packets)]
              /\ Head(wire[e]) \in Packets
              /\ wire'[e] = Tail(wire[e]) /\ wire'[Other(e)] = sendTo(e, packets)
<1>1. wire[e] \in Seq(Packets) /\ wire[Other(e)] \in Seq(Packets) BY TwoEnds DEF TypeOK
<1>2. sendTo(e, packets) \in Seq(Packets) BY <1>1 DEF sendTo
<1>3. wire[e] # <<>> => Tail(wire[e]) \in Seq(Packets) /\ Head(wire[e]) \in Packets
  BY <1>1, HeadTailProperties
<1>4. send(e, packets) => wire' \in [Ends -> Seq(Packets)]
  BY <1>2, TwoEnds, SMTT(30) DEF send, TypeOK
<1>5. ASSUME read(e, packets), wire[e] # <<>>
      PROVE  /\ wire' \in [Ends -> Seq(Packets)]
             /\ wire'[e] = Tail(wire[e]) /\ wire'[Other(e)] = sendTo(e, packets)
  <2>1. wire' = [wire EXCEPT ![e] = Tail(wire[e]), ![Other(e)] = sendTo(e, packets)]
    BY <1>5 DEF read
  <2> QED BY <2>1, <1>2, <1>3, <1>5, TwoEnds, ZenonT(30) DEF TypeOK
<1> QED BY <1>2, <1>3, <1>4, <1>5

\* A step that leaves the links alone.
LEMMA LinksUntouched ==
  ASSUME Stand, UNCHANGED <<linkVars, nonces>>, signals' \subseteq signals, TypeOK'
  PROVE  Stand'
<1>1. /\ UNCHANGED <<links, deadline, graces, suspicion, nonces>> BY DEF linkVars
<1>2. ASSUME NEW e \in Ends PROVE Staged(e)' /\ Graced(e)' /\ Paired(e)'
  BY <1>1 DEF Stand, Staged, Graced, Paired, Established
<1>3. SignalsCome' BY <1>1 DEF Stand, SignalsCome, OfferMade
<1> QED BY <1>2, <1>3 DEF Stand

\* A hello is read.
LEMMA HelloStands == \A e \in Ends : Stand /\ handlePeerHello(e) => Stand'
<1> SUFFICES ASSUME NEW e \in Ends, Stand, handlePeerHello(e) PROVE Stand' OBVIOUS
<1>1. /\ wire[e] # <<>> /\ Head(wire[e]).type = "hello" /\ read(e, proofFor(e))
      /\ heard' = [heard EXCEPT ![e] = Head(wire[e]).name]
      /\ UNCHANGED <<linkVars, name, nonces, renamedEarly, audioVars, netVars, fixed, budget>>
  BY DEF handlePeerHello, Receive
<1>2. proofFor(e) \in Seq(Packets)
  BY PacketTypes DEF proofFor, Stand, TypeOK
<1>3. wire' \in [Ends -> Seq(Packets)] /\ Head(wire[e]) \in Packets
  BY <1>1, <1>2, WireTypes DEF Stand
<1>4. Head(wire[e]).name \in Nat BY <1>1, <1>3 DEF Packets
<1>5. TypeOK'
  BY <1>1, <1>3, <1>4
  DEF Stand, TypeOK, linkVars, audioVars, netVars, fixed, budget
<1> QED BY <1>1, <1>5, LinksUntouched DEF netVars

\* A proof opens the link, is too early, or ends the link.
LEMMA ProofStands == \A e \in Ends : Stand /\ handlePeerProof(e) => Stand'
<1> SUFFICES ASSUME NEW e \in Ends, Stand, handlePeerProof(e) PROVE Stand' OBVIOUS
<1> DEFINE p == [links[e] EXCEPT !.hello = TRUE]
           l == HandshakeOpened(p)
           opens == l.open /\ ~links[e].open
<1>1. /\ wire[e] # <<>> /\ Up(links[e]) /\ links[e].control /\ NoTrouble
  BY DEF handlePeerProof, Receive
<1>2. <<>> \in Seq(Packets) OBVIOUS
<1>3. links[e] \in Link BY DEF Stand, TypeOK
<1>4. CASE /\ read(e, <<>>)
           /\ UNCHANGED <<linkVars, helloVars, audioVars, netVars, fixed>>
  <2>1. wire' \in [Ends -> Seq(Packets)] BY <1>1, <1>2, <1>4, WireTypes DEF Stand
  <2>2. TypeOK'
    BY <1>1, <1>4, <2>1
    DEF Stand, TypeOK, linkVars, helloVars, audioVars, netVars, fixed, NoTrouble, budget
  <2> QED BY <1>4, <2>2, LinksUntouched DEF helloVars, netVars
<1>5. CASE /\ heard[e] # None /\ e \in nonces
           /\ setLink(e, l, IF opens THEN None ELSE deadline[e])
           /\ audio' = [audio EXCEPT ![e] =
                          IF opens /\ e = initiator THEN "CreatingOffer" ELSE @]
           /\ read(e, <<>>)
           /\ UNCHANGED <<graces, suspicion, helloVars, described, negotiation, netVars, fixed>>
  <2>1. links[e].transportOpen /\ links[Other(e)].state # "none"
    BY <1>5 DEF Stand, Staged, Paired
  <2>2. p \in Link /\ p.hello /\ p.transportOpen /\ p.open = links[e].open
    BY <1>3, <2>1 DEF Link
  <2>3. l = IF ~links[e].open THEN [p EXCEPT !.open = TRUE, !.state = "Connected"] ELSE p
    BY <2>2 DEF HandshakeOpened
  <2>4. /\ l \in Link /\ l.hello /\ l.open /\ l.transportOpen
        /\ l.control = links[e].control /\ l.chat = links[e].chat
        /\ l.generation = links[e].generation /\ l.lastError = links[e].lastError
        /\ l.signalingProduced = links[e].signalingProduced
        /\ l.answerApplied = links[e].answerApplied
        /\ l.state = IF ~links[e].open THEN "Connected" ELSE links[e].state
    <3>1. CASE links[e].open BY <1>3, <2>2, <2>3, <3>1 DEF Link
    <3>2. CASE ~links[e].open
      <4>1. l = [p EXCEPT !.open = TRUE, !.state = "Connected"] BY <2>3, <3>2
      <4>2. /\ p.control = links[e].control /\ p.chat = links[e].chat
            /\ p.generation = links[e].generation /\ p.lastError = links[e].lastError
            /\ p.signalingProduced = links[e].signalingProduced
            /\ p.answerApplied = links[e].answerApplied
        BY <1>3 DEF Link
      <4> HIDE DEF l, p
      <4> QED BY <2>2, <3>2, <4>1, <4>2 DEF Link
    <3> QED BY <3>1, <3>2
  <2> HIDE DEF l
  <2>5. /\ links' = [links EXCEPT ![e] = l]
        /\ deadline' = [deadline EXCEPT ![e] = IF ~links[e].open THEN None ELSE deadline[e]]
    BY <1>5, <2>4 DEF setLink
  <2>6. /\ links'[e] = l
        /\ deadline'[e] = IF ~links[e].open THEN None ELSE deadline[e]
    BY <2>5 DEF Stand, TypeOK
  <2>7. Established(e)' <=> Established(e)
    BY <2>4, <2>5, TwoEnds DEF Stand, TypeOK, Established, Ends
  <2>8. Staged(e)' /\ Graced(e)'
    BY <1>1, <1>5, <2>1, <2>4, <2>6, <2>7
    DEF Stand, Staged, Graced, Up, Gone, Over, Waiting, helloVars
  <2>9. SignalsCome'
    <3>1. /\ links'[Offerer].signalingProduced = links[Offerer].signalingProduced
          /\ links'[Answerer].state = "none" <=> links[Answerer].state = "none"
          /\ Gone(links[Offerer]) => Gone(links'[Offerer])
      BY <1>1, <2>4, <2>5, TwoEnds DEF Stand, TypeOK, Ends, Gone, Up
    <3> QED BY <3>1, <1>5 DEF Stand, SignalsCome, OfferMade, netVars
  <2>10. OnlyAt(e)
    BY <1>1, <1>5, <2>4, <2>5 DEF OnlyAt, Stand, TypeOK, helloVars, Up
  <2>11. wire' \in [Ends -> Seq(Packets)] BY <1>1, <1>2, <1>5, WireTypes DEF Stand
  <2>12. TypeOK'
    BY <1>1, <1>5, <2>4, <2>5, <2>11
    DEF Stand, TypeOK, helloVars, netVars, fixed, NoTrouble, budget
  <2> QED BY <2>1, <2>8, <2>9, <2>10, <2>12, OtherStands
<1>6. CASE discard(e, "key")
  BY <1>1, <1>6, FailedStands DEF discard, Over
<1> QED BY <1>4, <1>5, <1>6 DEF handlePeerProof

\* A new name is told over the control channel.
LEMMA RenameStands == \A e \in Ends : Stand /\ Rename(e) => Stand'
<1> SUFFICES ASSUME NEW e \in Ends, Stand, Rename(e) PROVE Stand' OBVIOUS
<1>1. name[e] + 1 \in Nat BY DEF Stand, TypeOK
<1>2. renameTo(e) \in Seq(Packets) BY <1>1, PacketTypes DEF renameTo
<1>3. wire' \in [Ends -> Seq(Packets)]
  BY <1>2, WireTypes, TwoEnds DEF Rename, Stand, TypeOK
<1>4. renamedEarly' \in BOOLEAN BY DEF Rename
<1>5. TypeOK'
  BY <1>1, <1>3, <1>4, BudgetTypes
  DEF Rename, Stand, TypeOK, linkVars, audioVars, netVars, fixed
<1> QED BY <1>5, LinksUntouched DEF Rename, netVars

\* The audio negotiation leaves the links alone.
LEMMA AudioStands ==
  \A e \in Ends :
    Stand /\ \/ AudioDescribed(e) \/ AudioFails(e) \/ audioDescriptionReady(e)
             \/ handleSessionOffer(e) \/ handleSessionAnswer(e)
    => Stand'
<1> SUFFICES ASSUME NEW e \in Ends, Stand,
                    \/ AudioDescribed(e) \/ AudioFails(e) \/ audioDescriptionReady(e)
                    \/ handleSessionOffer(e) \/ handleSessionAnswer(e)
             PROVE  Stand'
  OBVIOUS
<1>1. UNCHANGED <<links, deadline, graces, suspicion, helloVars, netVars, fixed>>
  BY DEF AudioDescribed, AudioFails, audioDescriptionReady, handleSessionOffer,
     handleSessionAnswer, linkVars
<1>0. <<>> \in Seq(Packets) OBVIOUS
<1>2. negotiation[e] \in Nat /\ negotiation[e] + 1 \in Nat BY DEF Stand, TypeOK
<1>3. /\ wire' \in [Ends -> Seq(Packets)]
      /\ audio' \in [Ends -> {"Idle", "CreatingOffer", "CreatingAnswer", "AwaitingAnswer"}]
      /\ described' \in [Ends -> {None, "offer", "answer"}]
      /\ negotiation' \in [Ends -> Nat]
      /\ troubles' \in 0..MaxTroubles /\ faults' \in BOOLEAN
  <2>1. CASE AudioDescribed(e) BY <2>1 DEF AudioDescribed, Stand, TypeOK, budget
  <2>2. CASE AudioFails(e) BY <2>2, BudgetTypes DEF AudioFails, Stand, TypeOK
  <2>3. CASE audioDescriptionReady(e)
    <3>1. /\ <<Offer(negotiation[e] + 1)>> \in Seq(Packets)
          /\ <<Answer(negotiation[e])>> \in Seq(Packets)
      BY <1>2, PacketTypes
    <3>2. wire' \in [Ends -> Seq(Packets)]
      BY <2>3, <3>1, WireTypes DEF audioDescriptionReady, Stand, TypeOK
    <3> QED BY <2>3, <3>2, <1>2 DEF audioDescriptionReady, Stand, TypeOK, budget
  <2>4. CASE handleSessionOffer(e)
    <3>1. /\ wire' \in [Ends -> Seq(Packets)] /\ Head(wire[e]) \in Packets
          /\ Head(wire[e]).type = "offer"
      BY <1>0, <2>4, WireTypes DEF handleSessionOffer, Receive, Stand
    <3>2. Head(wire[e]).negotiation \in Nat BY <3>1 DEF Packets
    <3> QED BY <2>4, <3>1, <3>2, ZenonT(30) DEF handleSessionOffer, noteNegotiation, Stand, TypeOK, budget
  <2>5. CASE handleSessionAnswer(e)
    <3>1. wire' \in [Ends -> Seq(Packets)]
      BY <1>0, <2>5, WireTypes DEF handleSessionAnswer, Receive, Stand
    <3> QED BY <2>5, <3>1 DEF handleSessionAnswer, Stand, TypeOK, budget
  <2> QED BY <2>1, <2>2, <2>3, <2>4, <2>5
<1>4. TypeOK' BY <1>1, <1>3 DEF Stand, TypeOK, helloVars, netVars, fixed
<1> QED BY <1>1, <1>4, LinksUntouched DEF linkVars, helloVars, netVars

\* The timers of the other end run on.
OthersWait(e) ==
  \A u \in Ends : u # e => graces'[u] = graces[u] /\ suspicion'[u] = suspicion[u]

\* A step that changes the channels, the generation or the suspicion of a link
\* that is up.
LEMMA RestatedStands ==
  ASSUME Stand, NEW e \in Ends, NEW l \in Link, Up(links[e]),
         links' = [links EXCEPT ![e] = l], deadline' = deadline,
         graces' \in [Ends -> SUBSET Nat], suspicion' \in [Ends -> Nat],
         OthersWait(e),
         transport' \in [Ends -> {"new", "connected", "disconnected"}],
         UNCHANGED <<helloVars, audioVars, signals, wire, fixed>>,
         troubles' \in 0..MaxTroubles, faults' \in BOOLEAN,
         \/ l.state = links[e].state
         \/ links[e].open /\ l.state \in {"Connected", "Suspect"},
         l.signalingProduced = links[e].signalingProduced,
         l.answerApplied = links[e].answerApplied,
         l.control => links[e].control, l.chat => links[e].chat,
         links[e].open \/ (l.control = links[e].control /\ l.chat = links[e].chat),
         l.transportOpen = links[e].transportOpen, l.hello = links[e].hello,
         l.open = links[e].open, l.lastError = links[e].lastError,
         l.state = "Suspect" => l.generation = suspicion'[e] /\ suspicion'[e] \in graces'[e]
  PROVE  Stand'
<1>1. links'[e] = l /\ deadline'[e] = deadline[e] BY DEF Stand, TypeOK
<1>2. Established(e)' <=> Established(e)
  BY TwoEnds DEF Stand, TypeOK, Established, Ends
<1>3. Up(l) /\ (Gone(l) <=> Gone(links[e]))
  BY DEF Up, Gone, Over
<1>4. l.state \in Waiting <=> links[e].state \in Waiting
  BY DEF Stand, Staged, Waiting
<1>5. Staged(e)
  BY DEF Stand
<1>6. e \in nonces' <=> e \in nonces BY DEF helloVars
<1>7. l.open <=> l.state \in {"Connected", "Suspect"}
  BY <1>5 DEF Staged
<1>8. l.transportOpen => l.state \in {"AwaitingHello", "Connected", "Suspect"}
  BY <1>5 DEF Staged
<1>9. Staged(e)' BY <1>1, <1>2, <1>3, <1>4, <1>5, <1>6, <1>7, <1>8 DEF Staged
<1>10. Graced(e)' BY <1>1 DEF Graced
<1>11. SignalsCome'
  <2>1. /\ links'[Offerer].signalingProduced = links[Offerer].signalingProduced
        /\ links'[Answerer].state = "none" <=> links[Answerer].state = "none"
        /\ Gone(links[Offerer]) => Gone(links'[Offerer])
    BY <1>3, TwoEnds DEF Stand, TypeOK, Ends, Up, Gone
  <2> QED BY <2>1 DEF Stand, SignalsCome, OfferMade
<1>12. OnlyAt(e) BY <1>3 DEF OnlyAt, OthersWait, Stand, TypeOK, helloVars, Up
<1>13. TypeOK' BY DEF Stand, TypeOK, helloVars, audioVars, fixed
<1>14. l.transportOpen => links[Other(e)].state # "none" BY DEF Stand, Paired
<1> QED BY <1>1, <1>9, <1>10, <1>11, <1>12, <1>13, <1>14, OtherStands

\* A suspicion sets its own grace timer.
LEMMA SuspectStands ==
  ASSUME Stand, NEW e \in Ends, NEW l \in Link, Up(links[e]), suspect(e, l),
         \/ l = links[e]
         \/ /\ links[e].open
            /\ \E channel \in {"control", "chat"} : l = [links[e] EXCEPT ![channel] = FALSE],
         transport' \in [Ends -> {"new", "connected", "disconnected"}],
         UNCHANGED <<helloVars, audioVars, signals, wire, fixed>>,
         NoTrouble \/ Trouble \/ Fault
  PROVE  Stand'
<1>1. links[e] \in Link /\ links[e].generation \in Nat BY DEF Stand, TypeOK, Link
<1>2. /\ l.state = links[e].state /\ l.generation = links[e].generation
      /\ l.signalingProduced = links[e].signalingProduced
      /\ l.answerApplied = links[e].answerApplied
      /\ (l.control => links[e].control) /\ (l.chat => links[e].chat)
      /\ links[e].open \/ (l.control = links[e].control /\ l.chat = links[e].chat)
      /\ l.transportOpen = links[e].transportOpen /\ l.hello = links[e].hello
      /\ l.open = links[e].open /\ l.lastError = links[e].lastError
  BY <1>1 DEF Link
<1>3. troubles' \in 0..MaxTroubles /\ faults' \in BOOLEAN BY BudgetTypes DEF Stand
<1>4. CASE l.open /\ l.state # "Suspect"
  <2> DEFINE g == l.generation + 1
             m == [l EXCEPT !.state = "Suspect", !.generation = g]
  <2>1. /\ links' = [links EXCEPT ![e] = m]
        /\ graces' = [graces EXCEPT ![e] = @ \cup {g}]
        /\ suspicion' = [suspicion EXCEPT ![e] = g]
        /\ deadline' = deadline
    BY <1>4 DEF suspect
  <2>2. g \in Nat BY <1>1, <1>2
  <2>3. /\ m \in Link /\ m.state = "Suspect" /\ m.generation = g
        /\ m.signalingProduced = l.signalingProduced /\ m.answerApplied = l.answerApplied
        /\ m.control = l.control /\ m.chat = l.chat
        /\ m.transportOpen = l.transportOpen /\ m.hello = l.hello
        /\ m.open = l.open /\ m.lastError = l.lastError
    BY <2>2 DEF Link
  <2> HIDE DEF m, g
  <2>4. /\ graces' \in [Ends -> SUBSET Nat] /\ suspicion' \in [Ends -> Nat]
        /\ OthersWait(e)
        /\ suspicion'[e] = g /\ g \in graces'[e]
    BY <2>1, <2>2 DEF Stand, TypeOK, OthersWait
  <2> QED BY <1>2, <1>3, <1>4, <2>1, <2>3, <2>4, RestatedStands
<1>5. CASE ~(l.open /\ l.state # "Suspect")
  <2>1. links' = [links EXCEPT ![e] = l] /\ UNCHANGED <<graces, suspicion, deadline>>
    BY <1>5 DEF suspect
  <2>2. l.state = "Suspect" => l.generation = suspicion[e] /\ suspicion[e] \in graces[e]
    BY <1>2 DEF Stand, Graced
  <2>3. graces' \in [Ends -> SUBSET Nat] /\ suspicion' \in [Ends -> Nat] /\ OthersWait(e)
    BY <2>1 DEF Stand, TypeOK, OthersWait
  <2> QED BY <1>2, <1>3, <2>1, <2>2, <2>3, RestatedStands
<1> QED BY <1>4, <1>5

\* The transport connects and disconnects, channels are lost.
LEMMA TransportStands ==
  \A e \in Ends :
    Stand /\ \/ TransportConnects(e) \/ TransportDisconnects(e) \/ TransportFails(e)
             \/ TransferChannelCloses(e)
             \/ \E channel \in {"control", "chat"} : ChannelCloses(e, channel)
    => Stand'
<1> SUFFICES ASSUME NEW e \in Ends, Stand PROVE
       \/ TransportConnects(e) \/ TransportDisconnects(e) \/ TransportFails(e)
       \/ TransferChannelCloses(e)
       \/ \E channel \in {"control", "chat"} : ChannelCloses(e, channel)
       => Stand'
  OBVIOUS
<1>1. links[e] \in Link BY DEF Stand, TypeOK
<1>2. ASSUME TransportConnects(e) PROVE Stand'
  <2> DEFINE l == recovered(links[e])
  <2>1. links[e].generation + 1 \in Nat BY <1>1 DEF Link
  <2>2. /\ l \in Link
        /\ l.signalingProduced = links[e].signalingProduced
        /\ l.answerApplied = links[e].answerApplied
        /\ l.control = links[e].control /\ l.chat = links[e].chat
        /\ l.transportOpen = links[e].transportOpen /\ l.hello = links[e].hello
        /\ l.open = links[e].open /\ l.lastError = links[e].lastError
    <3>1. CASE ~(links[e].control /\ links[e].chat) BY <1>1, <3>1 DEF recovered
    <3>2. CASE links[e].control /\ links[e].chat /\ links[e].open /\ links[e].state = "Suspect"
      <4>1. l = [links[e] EXCEPT !.generation = links[e].generation + 1, !.state = "Connected"]
        BY <1>1, <3>2 DEF recovered, Link
      <4> HIDE DEF l
      <4> QED BY <4>1, <1>1, <2>1 DEF Link
    <3>3. CASE /\ links[e].control /\ links[e].chat
               /\ ~(links[e].open /\ links[e].state = "Suspect")
      <4>1. l = [links[e] EXCEPT !.generation = links[e].generation + 1]
        BY <1>1, <3>3 DEF recovered, Link
      <4> HIDE DEF l
      <4> QED BY <4>1, <1>1, <2>1 DEF Link
    <3> QED BY <3>1, <3>2, <3>3
  <2>3. \/ l = links[e]
        \/ l.state = "Connected" /\ links[e].open
        \/ l.state = links[e].state /\ l.state # "Suspect"
    BY <1>1, <2>1 DEF recovered, Link, Stand, Staged
  <2>4. /\ links' = [links EXCEPT ![e] = l]
        /\ transport' = [transport EXCEPT ![e] = "connected"]
        /\ UNCHANGED <<deadline, graces, suspicion, helloVars, audioVars, signals, wire,
                       fixed, budget>>
        /\ Up(links[e])
    BY <1>2 DEF TransportConnects
  <2> HIDE DEF l
  <2>5. l.state = "Suspect" => l.generation = suspicion[e] /\ suspicion[e] \in graces[e]
    BY <2>3 DEF Stand, Graced
  <2>7. OthersWait(e) BY <2>4 DEF OthersWait
  <2>6. \/ l.state = links[e].state
        \/ links[e].open /\ l.state \in {"Connected", "Suspect"}
    BY <2>3
  <2> QED BY <2>2, <2>4, <2>5, <2>6, <2>7, RestatedStands DEF Stand, TypeOK, budget
<1>3. ASSUME TransportDisconnects(e) PROVE Stand'
  BY <1>1, <1>3, SuspectStands DEF TransportDisconnects, Stand, TypeOK
<1>4. ASSUME TransportFails(e) PROVE Stand'
  BY <1>4, FailedStands DEF TransportFails, Over
<1>5. ASSUME TransferChannelCloses(e) PROVE Stand'
  BY <1>1, <1>5, SuspectStands
  DEF TransferChannelCloses, Stand, TypeOK, unchangedButLink, netVars
<1>6. ASSUME NEW channel \in {"control", "chat"}, ChannelCloses(e, channel) PROVE Stand'
  <2>1. Up(links[e]) /\ (NoTrouble \/ Trouble \/ Fault) BY <1>6 DEF ChannelCloses
  <2>2. CASE links[e].open
    <3>1. [links[e] EXCEPT ![channel] = FALSE] \in Link BY <1>1 DEF Link
    <3> QED
      BY <2>1, <2>2, <3>1, <1>6, SuspectStands
      DEF ChannelCloses, Stand, TypeOK, unchangedButLink, netVars
  <2>3. CASE ~links[e].open BY <2>1, <2>3, <1>6, FailedStands DEF ChannelCloses, Over
  <2> QED BY <2>2, <2>3
<1> QED BY <1>2, <1>3, <1>4, <1>5, <1>6

\* The timers and the user end a link, or find that they are too late.
LEMMA GraceStands == \A e \in Ends : Stand /\ GracePasses(e) => Stand'
<1> SUFFICES ASSUME NEW e \in Ends, Stand, GracePasses(e) PROVE Stand' OBVIOUS
<1>1. NoTrouble /\ Up(links[e]) BY DEF GracePasses
<1>2. PICK g \in graces[e] :
        /\ graces' = [graces EXCEPT ![e] = @ \ {g}]
        /\ IF graceCounts(e, g)
           THEN remove(e, "Failed", "grace")
           ELSE UNCHANGED <<links, deadline, suspicion, helloVars, audioVars, netVars, wire,
                            fixed>>
  BY DEF GracePasses
<1>3. graces' \in [Ends -> SUBSET Nat] /\ \A u \in Ends : u # e => graces'[u] = graces[u]
  BY <1>2 DEF Stand, TypeOK
<1>4. CASE graceCounts(e, g)
  BY <1>1, <1>2, <1>3, <1>4, BudgetTypes, RemovedStands DEF Over, Stand
<1>5. CASE ~graceCounts(e, g)
  <2>1. UNCHANGED <<links, deadline, suspicion, helloVars, audioVars, netVars, wire, fixed>>
    BY <1>2, <1>5
  <2>2. links[e].state = "Suspect" => suspicion[e] # g
    BY <1>5 DEF graceCounts, Stand, Graced
  <2>3. graces'[e] = graces[e] \ {g} BY <1>2 DEF Stand, TypeOK
  <2>4. ASSUME NEW u \in Ends PROVE Staged(u)' /\ Graced(u)' /\ Paired(u)'
    <3>1. Staged(u)' /\ Paired(u)'
      BY <2>1 DEF Stand, Staged, Paired, Established, helloVars
    <3>2. Graced(u)' BY <2>1, <2>2, <2>3, <1>3 DEF Stand, Graced
    <3> QED BY <3>1, <3>2
  <2>5. SignalsCome' BY <2>1 DEF Stand, SignalsCome, OfferMade, netVars
  <2>6. TypeOK'
    BY <1>1, <1>3, <2>1
    DEF Stand, TypeOK, helloVars, audioVars, netVars, fixed, NoTrouble, budget
  <2> QED BY <2>4, <2>5, <2>6 DEF Stand
<1> QED BY <1>4, <1>5

\* The timers and the user end a link.
LEMMA EndingStands ==
  \A e \in Ends :
    Stand /\ (DeadlinePasses(e) \/ markTimedOut(e) \/ Discard(e) \/ StartFails(e)) => Stand'
<1> SUFFICES ASSUME NEW e \in Ends, Stand,
                    DeadlinePasses(e) \/ markTimedOut(e) \/ Discard(e) \/ StartFails(e)
             PROVE  Stand'
  OBVIOUS
<1>1. CASE DeadlinePasses(e)
  <2>1. Up(links[e]) BY <1>1 DEF DeadlinePasses, Stand, Staged, Up, Waiting, Over
  <2> QED BY <1>1, <2>1, FailedStands DEF DeadlinePasses, Over
<1>2. CASE markTimedOut(e)
  <2>1. Up(links[e]) BY <1>2 DEF markTimedOut, Stand, Staged
  <2> QED BY <1>2, <2>1, FailedStands DEF markTimedOut, Over
<1>3. CASE Discard(e) BY <1>3, FailedStands DEF Discard, discard, Over
<1>4. CASE StartFails(e)
  <2>1. Up(links[e]) BY <1>4 DEF StartFails, Up, Over
  <2> QED BY <1>4, <2>1, FailedStands DEF StartFails, Over
<1> QED BY <1>1, <1>2, <1>3, <1>4

\* A signal is lost.
LEMMA SignalLostStands == Stand /\ SignalLost => Stand'
<1> SUFFICES ASSUME Stand, SignalLost PROVE Stand' OBVIOUS
<1>1. signals' \subseteq signals /\ UNCHANGED <<linkVars, nonces>>
  BY DEF SignalLost, helloVars
<1>2. TypeOK'
  BY <1>1 DEF SignalLost, Stand, TypeOK, linkVars, helloVars, audioVars, fixed, budget
<1> QED BY <1>1, <1>2, LinksUntouched

\* Every step keeps the links in their stages.
LEMMA StandStep == Stand /\ [Next]_vars => Stand'
<1> SUFFICES ASSUME Stand, [Next]_vars PROVE Stand' OBVIOUS
<1>1. CASE startOffer \/ acceptOffer BY <1>1, StartStands
<1>2. CASE acceptAnswer \/ AnswerFails BY <1>2, AnswerStands
<1>3. CASE SignalLost BY <1>3, SignalLostStands
<1>4. ASSUME NEW e \in Ends,
             StartFails(e) \/ DeadlinePasses(e) \/ markTimedOut(e) \/ Discard(e)
      PROVE  Stand'
  BY <1>4, EndingStands
<1>5. ASSUME NEW e \in Ends, GatheringCompletes(e) PROVE Stand' BY <1>5, GatheringStands
<1>6. ASSUME NEW e \in Ends, NEW channel \in {"control", "chat"}, ChannelOpens(e, channel)
      PROVE  Stand'
  BY <1>6, ChannelStands
<1>7. ASSUME NEW e \in Ends, handlePeerHello(e) PROVE Stand' BY <1>7, HelloStands
<1>8. ASSUME NEW e \in Ends, handlePeerProof(e) PROVE Stand' BY <1>8, ProofStands
<1>9. ASSUME NEW e \in Ends, Rename(e) PROVE Stand' BY <1>9, RenameStands
<1>10. ASSUME NEW e \in Ends,
              \/ AudioDescribed(e) \/ AudioFails(e) \/ audioDescriptionReady(e)
              \/ handleSessionOffer(e) \/ handleSessionAnswer(e)
       PROVE  Stand'
  BY <1>10, AudioStands
<1>11. ASSUME NEW e \in Ends,
              \/ TransportConnects(e) \/ TransportDisconnects(e) \/ TransportFails(e)
              \/ TransferChannelCloses(e)
              \/ \E channel \in {"control", "chat"} : ChannelCloses(e, channel)
       PROVE  Stand'
  BY <1>11, TransportStands
<1>12. ASSUME NEW e \in Ends, GracePasses(e) PROVE Stand' BY <1>12, GraceStands
<1>13. CASE UNCHANGED vars
  <2>1. TypeOK'
    BY <1>13
    DEF vars, Stand, TypeOK, linkVars, helloVars, audioVars, netVars, fixed, budget
  <2> QED BY <1>13, <2>1, LinksUntouched DEF vars, helloVars, netVars
<1> QED
  BY <1>1, <1>2, <1>3, <1>4, <1>5, <1>6, <1>7, <1>8, <1>9, <1>10, <1>11, <1>12, <1>13
  DEF Next

\* The timers, the stages and the descriptions are right in every state.
LEMMA AlwaysStand == Spec => []Stand
<1>1. Init => Stand BY InitStand
<1>2. Stand /\ [Next]_vars => Stand' BY StandStep
<1> QED BY <1>1, <1>2, PTL DEF Spec

\* EveryWaitHasItsTimer: whatever fails, recovers or comes too late, a link
\* that is not open has a deadline, an open one has none left over from an
\* earlier stage, and a suspect one has the grace timer of this very suspicion.
THEOREM NoWaitIsEndless == Spec => []EveryWaitHasItsTimer
<1>1. Stand => EveryWaitHasItsTimer
  BY DEF Stand, Staged, Graced, EveryWaitHasItsTimer
<1> QED BY <1>1, AlwaysStand, PTL

\* GraceIsWhole: a grace timer that was set for an earlier suspicion finds
\* another disconnectGeneration and does nothing.
THEOREM GraceAlwaysWhole == Spec => GraceIsWhole
<1> DEFINE Whole ==
      \A e \in Ends : links[e].lastError = None /\ links'[e].lastError = "grace" =>
        suspicion[e] \in graces[e] \ graces'[e]
<1>1. Stand /\ [Next]_vars => Whole
  <2> SUFFICES ASSUME Stand, [Next]_vars PROVE Whole OBVIOUS
  <2> USE NoneAssumption
  <2> DEFINE Told(e) == links'[e].lastError \in {links[e].lastError} \cup
                          {"deadline", "transport", "liveness", "key", "user"}
  <2>0. (\A e \in Ends : Told(e)) => Whole OBVIOUS
  <2> HIDE DEF Whole
  <2>1. ASSUME NEW e \in Ends, NEW state,
               NEW why \in {"deadline", "transport", "liveness", "key", "user"},
               fail(e, state, why)
        PROVE  Whole
    <3>1. \A u \in Ends : Told(u)
      BY <2>1 DEF fail, remove, setLink, Removed, NoLink, Stand, TypeOK
    <3> QED BY <2>0, <3>1
  <2>17. ASSUME NEW e \in Ends, NEW l, l.lastError = links[e].lastError,
                links' = [links EXCEPT ![e] = l]
         PROVE  Whole
    <3>1. \A u \in Ends : Told(u) BY <2>17 DEF Stand, TypeOK
    <3> QED BY <3>1, <2>0
  <2>18. ASSUME NEW e \in Ends
         PROVE  /\ [links[e] EXCEPT !.state = "Gathering"].lastError = links[e].lastError
                /\ [links[e] EXCEPT !.state = "AwaitingAnswer"].lastError = links[e].lastError
                /\ [links[e] EXCEPT !.answerApplied = TRUE, !.state = "Connecting"].lastError
                     = links[e].lastError
                /\ \A g : [links[e] EXCEPT !.state = "Suspect", !.generation = g].lastError
                           = links[e].lastError
    <3>1. links[e] \in Link BY DEF Stand, TypeOK
    <3> QED BY <3>1 DEF Link
  <2>2. CASE startOffer \/ acceptOffer \/ acceptAnswer
    <3>1. CASE startOffer BY <3>1, <2>17, <2>18, TwoEnds DEF startOffer, setLink
    <3>2. CASE acceptOffer BY <3>2, <2>17, <2>18, TwoEnds DEF acceptOffer, setLink
    <3>3. CASE acceptAnswer BY <3>3, <2>17, <2>18, TwoEnds DEF acceptAnswer, setLink
    <3> QED BY <2>2, <3>1, <3>2, <3>3
  <2>3. CASE AnswerFails
    <3>1. CASE meshManaged BY <2>1, <2>3, <3>1, TwoEnds DEF AnswerFails
    <3>2. CASE ~meshManaged
      BY <2>3, <3>2, <2>17, <2>18, TwoEnds DEF AnswerFails, setLink
    <3> QED BY <3>1, <3>2
  <2>4. ASSUME UNCHANGED links PROVE Whole BY <2>0, <2>4
  <2>5. ASSUME NEW e \in Ends,
               StartFails(e) \/ DeadlinePasses(e) \/ markTimedOut(e) \/ TransportFails(e)
               \/ Discard(e)
        PROVE  Whole
    BY <2>1, <2>5
    DEF StartFails, DeadlinePasses, markTimedOut, TransportFails, Discard, discard
  <2>6. ASSUME NEW e \in Ends, GatheringCompletes(e) PROVE Whole
    BY <2>6, <2>0 DEF GatheringCompletes, localDescriptionReady, setLink, Stand, TypeOK, Link
  <2>7. ASSUME NEW e \in Ends, NEW channel \in {"control", "chat"}, ChannelOpens(e, channel)
        PROVE  Whole
    <3> DEFINE l == [links[e] EXCEPT ![channel] = TRUE]
    <3>1. links[e] \in Link BY DEF Stand, TypeOK
    <3>2. l \in Link /\ l.lastError = links[e].lastError BY <3>1 DEF Link
    <3>3. /\ TransportOpened(l).lastError = l.lastError
          /\ HandshakeOpened(TransportOpened(l)).lastError = l.lastError
      BY <3>2 DEF TransportOpened, HandshakeOpened, Link
    <3>4. \/ links' = [links EXCEPT ![e] = l]
          \/ links' = [links EXCEPT ![e] = HandshakeOpened(TransportOpened(l))]
      BY <2>7 DEF ChannelOpens, setLink
    <3> HIDE DEF l
    <3>5. \A u \in Ends : Told(u) BY <3>2, <3>3, <3>4 DEF Stand, TypeOK
    <3> QED BY <3>5, <2>0
  <2>8. ASSUME NEW e \in Ends, handlePeerProof(e) PROVE Whole
    <3> DEFINE p == [links[e] EXCEPT !.hello = TRUE]
               l == HandshakeOpened(p)
    <3>1. links[e] \in Link BY DEF Stand, TypeOK
    <3>2. p \in Link /\ p.lastError = links[e].lastError BY <3>1 DEF Link
    <3>3. l.lastError = links[e].lastError BY <3>2 DEF HandshakeOpened, Link
    <3>4. \/ UNCHANGED links
          \/ links' = [links EXCEPT ![e] = l]
          \/ fail(e, IF links[e].state = "Connected" THEN "Closed" ELSE "Cancelled", "key")
      BY <2>8 DEF handlePeerProof, setLink, linkVars, discard
    <3>5. CASE links' = [links EXCEPT ![e] = l]
      <4>1. \A u \in Ends : Told(u) BY <3>3, <3>5 DEF Stand, TypeOK
      <4> QED BY <4>1, <2>0
    <3> QED BY <3>4, <3>5, <2>1, <2>4
  <2>9. ASSUME NEW e \in Ends, NEW l, suspect(e, l), l.lastError = links[e].lastError,
               l \in Link
        PROVE  Whole
    <3>1. [l EXCEPT !.state = "Suspect", !.generation = l.generation + 1].lastError
            = links[e].lastError
      BY <2>9 DEF Link
    <3> QED BY <3>1, <2>9, <2>17 DEF suspect
  <2>10. ASSUME NEW e \in Ends, TransportConnects(e) PROVE Whole
    <3>1. links[e] \in Link /\ links' = [links EXCEPT ![e] = recovered(links[e])]
      BY <2>10 DEF TransportConnects, Stand, TypeOK
    <3>2. recovered(links[e]).lastError = links[e].lastError BY <3>1 DEF recovered, Link
    <3>3. \A u \in Ends : Told(u) BY <3>1, <3>2 DEF Stand, TypeOK
    <3> QED BY <3>3, <2>0
  <2>11. ASSUME NEW e \in Ends, TransportDisconnects(e) \/ TransferChannelCloses(e)
         PROVE  Whole
    BY <2>9, <2>11 DEF TransportDisconnects, TransferChannelCloses, Stand, TypeOK
  <2>12. ASSUME NEW e \in Ends, NEW channel \in {"control", "chat"}, ChannelCloses(e, channel)
         PROVE  Whole
    <3>1. links[e] \in Link BY DEF Stand, TypeOK
    <3>2. /\ [links[e] EXCEPT ![channel] = FALSE] \in Link
          /\ [links[e] EXCEPT ![channel] = FALSE].lastError = links[e].lastError
      BY <3>1 DEF Link
    <3> QED BY <3>2, <2>1, <2>9, <2>12 DEF ChannelCloses
  <2>13. ASSUME NEW e \in Ends, GracePasses(e) PROVE Whole
    <3>1. PICK g \in graces[e] :
            /\ graces' = [graces EXCEPT ![e] = @ \ {g}]
            /\ graceCounts(e, g) => remove(e, "Failed", "grace")
            /\ ~graceCounts(e, g) => UNCHANGED links
      BY <2>13 DEF GracePasses
    <3>2. CASE graceCounts(e, g)
      <4>1. \A u \in Ends : u # e => links'[u] = links[u]
        BY <3>1, <3>2 DEF remove, setLink, Stand, TypeOK
      <4>2. suspicion[e] = g BY <3>2 DEF graceCounts, Stand, Graced
      <4>3. suspicion[e] \in graces[e] \ graces'[e] BY <4>2, <3>1 DEF Stand, TypeOK
      <4> QED BY <4>1, <4>3 DEF Whole
    <3> QED BY <3>1, <3>2, <2>4
  <2>14. CASE UNCHANGED vars BY <2>4, <2>14 DEF vars, linkVars
  <2>15. CASE SignalLost BY <2>4, <2>15 DEF SignalLost, linkVars
  <2>16. ASSUME NEW e \in Ends,
                \/ handlePeerHello(e) \/ Rename(e) \/ AudioDescribed(e) \/ AudioFails(e)
                \/ audioDescriptionReady(e) \/ handleSessionOffer(e) \/ handleSessionAnswer(e)
         PROVE  Whole
    BY <2>4, <2>16
    DEF handlePeerHello, Rename, AudioDescribed, AudioFails, audioDescriptionReady,
        handleSessionOffer, handleSessionAnswer, linkVars
  <2> QED
    BY <2>2, <2>3, <2>5, <2>6, <2>7, <2>8, <2>10, <2>11, <2>12, <2>13, <2>14, <2>15, <2>16
    DEF Next
<1> QED BY <1>1, AlwaysStand, PTL DEF Spec, GraceIsWhole

-----------------------------------------------------------------------------
(* What one end is told, as the packets s under way to it and the name h in *)
(* the last hello it heard.                                                 *)

\* By the i-th packet the other end has said a hello.
Knows(s, h, i) == h # None \/ \E j \in 1..i : s[j].type = "hello"

\* The name in the last hello up to the i-th packet.
LastIn(s, h, i, n) ==
  \/ \E j \in 1..i : /\ s[j].type = "hello" /\ s[j].name = n
                     /\ \A k \in j+1..i : s[k].type # "hello"
  \/ h = n /\ \A k \in 1..i : s[k].type # "hello"

\* No proof comes before a hello, and there has been one.
Introduced(s, h) == \A i \in 1..Len(s) : s[i].type = "proof" => Knows(s, h, i)
Told(s, h)       == Knows(s, h, Len(s))

\* Every proof is for the name in the hello before it; the last hello says n.
Named(s, h)     == \A i \in 1..Len(s) : s[i].type = "proof" => LastIn(s, h, i, s[i].name)
Latest(s, h, n) == LastIn(s, h, Len(s), n)

\* One offer at most, the first; after a proof; and answers to that offer only.
OneOffer(s)   == \A j \in 1..Len(s) : s[j].type = "offer" =>
                   s[j] = Offer(1) /\ \A k \in 1..Len(s) : s[k].type = "offer" => k = j
AfterProof(s) == \A j \in 1..Len(s) : s[j].type = "offer" =>
                   \E k \in 1..j-1 : s[k].type = "proof"
AnswersOne(s) == \A j \in 1..Len(s) : s[j].type = "answer" => s[j] = Answer(1)

\* What an end has been told, and what it can still expect to be told.
Talk(e) ==
  LET o == Other(e) IN
  /\ wire[e] # <<>> \/ heard[e] # None => Up(links[e]) /\ (o \in nonces \/ Gone(links[o]))
  /\ Has(wire[e], "proof") => e \in nonces
  /\ links[e].hello => heard[e] # None
  /\ Introduced(wire[e], heard[e])
  /\ o \in nonces /\ Up(links[e]) => Told(wire[e], heard[e])
  /\ o \in nonces /\ heard[o] # None /\ Up(links[e]) => links[e].hello \/ Has(wire[e], "proof")

\* What it has been told is what the other end is called.
Names(e) ==
  LET o == Other(e) IN
  /\ ~renamedEarly =>
       /\ Named(wire[e], heard[e])
       /\ o \in nonces /\ Up(links[e]) /\ links[o].control =>
            Latest(wire[e], heard[e], name[o])
  /\ links[e].lastError = "key" => renamedEarly

\* The audio negotiation of the initiator i with the other end o, once.
AudioRoles ==
  LET i == initiator
      o == Other(i) IN
  /\ audio[i] # "CreatingAnswer" /\ described[i] \in {None, "offer"}
  /\ audio[o] \in {"Idle", "CreatingAnswer"} /\ described[o] \in {None, "answer"}
  /\ ~Has(wire[i], "offer") /\ ~Has(wire[o], "answer")
  /\ negotiation[i] \in {0, 1} /\ negotiation[o] \in {0, 1}
  /\ \A e \in Ends :
       /\ audio[e] # "Idle" \/ described[e] # None \/ negotiation[e] # 0 => links[e].open
       /\ ~faults /\ links[e].transportOpen /\ ~links[e].control => Gone(links[Other(e)])

AudioOffer ==
  LET i == initiator
      o == Other(i) IN
  /\ audio[i] = "CreatingOffer" => negotiation[i] = 0 /\ described[i] = None
  /\ described[i] = "offer" => negotiation[i] = 0
  /\ OneOffer(wire[o])
  /\ links[o].open \/ AfterProof(wire[o])
  /\ Has(wire[o], "offer") => /\ audio[o] = "Idle" /\ described[o] = None
                              /\ negotiation[o] = 0
                              /\ negotiation[i] = 1 \/ Gone(links[i])

AudioAnswer ==
  LET i == initiator
      o == Other(i) IN
  /\ negotiation[o] = 1 => negotiation[i] = 1 \/ Gone(links[i])
  /\ audio[o] = "CreatingAnswer" \/ described[o] = "answer" => negotiation[o] = 1
  /\ AnswersOne(wire[i])
  /\ Has(wire[i], "answer") => negotiation[i] = 1
  /\ audio[i] = "AwaitingAnswer" /\ ~faults /\ Up(links[o]) =>
       \/ described[i] = "offer"
       \/ Has(wire[o], "offer")
       \/ negotiation[o] = 1 /\ (audio[o] = "CreatingAnswer" \/ described[o] = "answer")
       \/ Has(wire[i], "answer")

Inv == /\ Stand
       /\ \A e \in Ends : Talk(e) /\ Names(e)
       /\ AudioRoles /\ AudioOffer /\ AudioAnswer

-----------------------------------------------------------------------------
(* One packet more and one packet less.                                    *)

\* A packet is appended.
LEMMA OneMore ==
  ASSUME NEW s \in Seq(Packets), NEW p \in Packets
  PROVE  /\ Append(s, p) \in Seq(Packets)
         /\ Len(s) \in Nat /\ Len(Append(s, p)) = Len(s) + 1
         /\ \A i \in 1..Len(s) : Append(s, p)[i] = s[i]
         /\ Append(s, p)[Len(s) + 1] = p
  OBVIOUS

\* The first packet is read.
LEMMA OneLess ==
  ASSUME NEW s \in Seq(Packets), s # <<>>
  PROVE  /\ Tail(s) \in Seq(Packets) /\ Head(s) \in Packets
         /\ Len(s) \in Nat /\ Len(s) >= 1 /\ Len(Tail(s)) = Len(s) - 1
         /\ \A i \in 1..Len(s) - 1 : Tail(s)[i] = s[i + 1]
         /\ Head(s) = s[1]
  OBVIOUS

\* Which kinds of packets there are.
LEMMA HasFacts ==
  /\ \A t : ~Has(<<>>, t)
  /\ \A t : \A s \in Seq(Packets), p \in Packets :
       Has(Append(s, p), t) <=> Has(s, t) \/ p.type = t
  /\ \A t : \A s \in Seq(Packets) : s # <<>> =>
       (Has(s, t) <=> Head(s).type = t \/ Has(Tail(s), t))
<1>1. \A t : ~Has(<<>>, t) BY DEF Has
<1>2. ASSUME NEW s \in Seq(Packets), NEW p \in Packets, NEW t
      PROVE  Has(Append(s, p), t) <=> Has(s, t) \/ p.type = t
  <2> DEFINE s2 == Append(s, p)
  <2>1. PICK m \in Nat : m = Len(s) BY OneMore
  <2>2. /\ Len(s2) = m + 1 /\ s2[m + 1] = p
        /\ \A i \in 1..m : s2[i] = s[i]
    BY <2>1, OneMore
  <2> HIDE DEF s2
  <2>3. Has(s2, t) <=> \E i \in 1..m + 1 : s2[i].type = t BY <2>2 DEF Has
  <2>4. Has(s, t) <=> \E i \in 1..m : s[i].type = t BY <2>1 DEF Has
  <2>5. \A i : i \in 1..m + 1 <=> i \in 1..m \/ i = m + 1 BY <2>1
  <2>6. Has(s2, t) <=> Has(s, t) \/ p.type = t BY <2>2, <2>3, <2>4, <2>5, Zenon
  <2> QED BY <2>6 DEF s2
<1>3. ASSUME NEW s \in Seq(Packets), NEW t, s # <<>>
      PROVE  Has(s, t) <=> Head(s).type = t \/ Has(Tail(s), t)
  <2> DEFINE r == Tail(s)
  <2>1. PICK m \in Nat : m + 1 = Len(s) BY <1>3, OneLess
  <2>2. /\ Len(r) = m /\ Head(s) = s[1]
        /\ \A i \in 1..m : r[i] = s[i + 1]
    BY <1>3, <2>1, OneLess
  <2> HIDE DEF r
  <2>3. Has(r, t) <=> \E i \in 1..m : r[i].type = t BY <2>2 DEF Has
  <2>4. Has(s, t) <=> \E i \in 1..m + 1 : s[i].type = t BY <2>1 DEF Has
  <2>5. ASSUME NEW i \in 1..m + 1, s[i].type = t PROVE Head(s).type = t \/ Has(r, t)
    <3>1. i = 1 \/ (i - 1 \in 1..m /\ i - 1 + 1 = i) BY <2>1
    <3> QED BY <3>1, <2>2, <2>3, <2>5
  <2>6. ASSUME NEW i \in 1..m, r[i].type = t PROVE Has(s, t)
    <3>1. i + 1 \in 1..m + 1 BY <2>1
    <3> QED BY <3>1, <2>2, <2>4, <2>6
  <2>7. 1 \in 1..m + 1 BY <2>1
  <2>8. Has(s, t) <=> Head(s).type = t \/ Has(r, t) BY <2>2, <2>3, <2>4, <2>5, <2>6, <2>7
  <2> QED BY <2>8 DEF r
<1> QED BY <1>1, <1>2, <1>3

\* What a prefix tells does not depend on what follows.
LEMMA SamePrefix ==
  ASSUME NEW s, NEW r, NEW i \in Nat, \A j \in 1..i : s[j] = r[j], NEW h
  PROVE  \A n : LastIn(s, h, i, n) <=> LastIn(r, h, i, n)
<1>1. \A j \in 1..i : \A k \in j + 1..i : k \in 1..i OBVIOUS
<1>2. ASSUME NEW n, LastIn(s, h, i, n) PROVE LastIn(r, h, i, n)
  BY <1>1, <1>2 DEF LastIn
<1>3. ASSUME NEW n, LastIn(r, h, i, n) PROVE LastIn(s, h, i, n)
  BY <1>1, <1>3 DEF LastIn
<1> QED BY <1>2, <1>3

\* What is told when a packet is appended.
LEMMA MoreIsTold ==
  ASSUME NEW s \in Seq(Packets), NEW p \in Packets, NEW h
  PROVE  /\ Introduced(s, h) /\ (p.type = "proof" => Told(s, h)) => Introduced(Append(s, p), h)
         /\ Told(s, h) \/ p.type = "hello" => Told(Append(s, p), h)
         /\ p.type = "hello" => Latest(Append(s, p), h, p.name)
         /\ \A n : Latest(s, h, n) /\ p.type # "hello" => Latest(Append(s, p), h, n)
         /\ Named(s, h) /\ (p.type = "proof" => Latest(s, h, p.name)) => Named(Append(s, p), h)
<1> DEFINE s2 == Append(s, p)
<1>1. PICK m \in Nat : m = Len(s) BY OneMore
<1>2. /\ Len(s2) = m + 1 /\ s2[m + 1] = p
      /\ \A i \in 1..m : s2[i] = s[i]
  BY <1>1, OneMore
<1> HIDE DEF s2
<1>3. \A i : i \in 1..m + 1 <=> i \in 1..m \/ i = m + 1 BY <1>1
<1>4. ASSUME NEW i \in 0..m
      PROVE  /\ Knows(s, h, i) <=> Knows(s2, h, i)
             /\ \A n : LastIn(s, h, i, n) <=> LastIn(s2, h, i, n)
  <2>1. \A j \in 1..i : s2[j] = s[j] BY <1>1, <1>2
  <2>2. i \in Nat BY <1>1
  <2> QED BY <2>1, <2>2, SamePrefix DEF Knows
<1>5. m \in 0..m /\ 1..m \subseteq 0..m BY <1>1
<1>6. Told(s, h) <=> Knows(s2, h, m) BY <1>1, <1>4, <1>5 DEF Told
<1>7. \A n : Latest(s, h, n) <=> LastIn(s2, h, m, n) BY <1>1, <1>4, <1>5 DEF Latest
<1>8. Knows(s2, h, m) \/ p.type = "hello" => Knows(s2, h, m + 1)
  BY <1>2, <1>3 DEF Knows
<1>9. p.type = "hello" => LastIn(s2, h, m + 1, p.name)
  <2>1. m + 1 \in 1..m + 1 /\ \A k : k \notin m + 1 + 1..m + 1 BY <1>1
  <2> QED BY <2>1, <1>2 DEF LastIn
<1>10. ASSUME NEW n, LastIn(s2, h, m, n), p.type # "hello" PROVE LastIn(s2, h, m + 1, n)
  <2>1. \A j \in 1..m : \A k \in j + 1..m + 1 : k \in j + 1..m \/ k = m + 1 BY <1>1
  <2> QED BY <2>1, <1>2, <1>3, <1>10 DEF LastIn
<1>11. Introduced(s, h) /\ (p.type = "proof" => Told(s, h)) => Introduced(s2, h)
  BY <1>1, <1>2, <1>3, <1>4, <1>5, <1>6, <1>8 DEF Introduced
<1>12. Told(s, h) \/ p.type = "hello" => Told(s2, h) BY <1>2, <1>6, <1>8 DEF Told
<1>13. p.type = "hello" => Latest(s2, h, p.name) BY <1>2, <1>9 DEF Latest
<1>14. \A n : Latest(s, h, n) /\ p.type # "hello" => Latest(s2, h, n)
  BY <1>2, <1>7, <1>10 DEF Latest
<1>15. Named(s, h) /\ (p.type = "proof" => Latest(s, h, p.name)) => Named(s2, h)
  <2> SUFFICES ASSUME Named(s, h), p.type = "proof" => Latest(s, h, p.name),
                      NEW i \in 1..m + 1, s2[i].type = "proof"
               PROVE  LastIn(s2, h, i, s2[i].name)
    BY <1>2 DEF Named
  <2>1. CASE i \in 1..m BY <2>1, <1>1, <1>2, <1>4, <1>5 DEF Named
  <2>2. CASE i = m + 1 BY <2>2, <1>2, <1>7, <1>10
  <2> QED BY <2>1, <2>2, <1>3
<1> QED BY <1>11, <1>12, <1>13, <1>14, <1>15 DEF s2

\* What is told when a packet is read.
LEMMA LessIsTold ==
  ASSUME NEW s \in Seq(Packets), s # <<>>, NEW h, NEW g,
         g = IF Head(s).type = "hello" THEN Head(s).name ELSE h, None \notin Nat
  PROVE  /\ Introduced(s, h) => Introduced(Tail(s), g)
         /\ Told(s, h) => Told(Tail(s), g)
         /\ \A n : Latest(s, h, n) => Latest(Tail(s), g, n)
         /\ Named(s, h) => Named(Tail(s), g)
         /\ Introduced(s, h) /\ Head(s).type = "proof" => h # None
         /\ Named(s, h) /\ Head(s).type = "proof" => Head(s).name = h
<1> DEFINE r == Tail(s)
<1>1. PICK m \in Nat : m + 1 = Len(s) BY OneLess
<1>2. /\ Len(r) = m /\ Head(s) = s[1] /\ Head(s) \in Packets
      /\ \A i \in 1..m : r[i] = s[i + 1]
  BY <1>1, OneLess
<1> HIDE DEF r
<1>3. s[1].type = "hello" => g # None /\ g = s[1].name BY <1>2 DEF Packets
<1>4. s[1].type # "hello" => g = h BY <1>2
<1>5. ASSUME NEW i \in 0..m, Knows(s, h, i + 1) PROVE Knows(r, g, i)
  <2>1. CASE h # None BY <2>1, <1>3, <1>4 DEF Knows
  <2>2. ASSUME NEW j \in 1..i + 1, s[j].type = "hello" PROVE Knows(r, g, i)
    <3>1. CASE j = 1 BY <3>1, <2>2, <1>3 DEF Knows
    <3>2. CASE j # 1
      <4>1. j - 1 \in 1..i /\ j - 1 \in 1..m /\ (j - 1) + 1 = j BY <3>2, <1>1
      <4> QED BY <4>1, <2>2, <1>2 DEF Knows
    <3> QED BY <3>1, <3>2
  <2> QED BY <2>1, <2>2, <1>5 DEF Knows
<1>6. ASSUME NEW i \in 0..m, NEW n, LastIn(s, h, i + 1, n) PROVE LastIn(r, g, i, n)
  <2>1. \A k \in 1..i : r[k] = s[k + 1] /\ k + 1 \in 2..i + 1 BY <1>1, <1>2
  <2>2. ASSUME NEW j \in 1..i + 1, s[j].type = "hello", s[j].name = n,
               \A k \in j + 1..i + 1 : s[k].type # "hello"
        PROVE  LastIn(r, g, i, n)
    <3>1. CASE j = 1
      <4>1. \A k \in 1..i : k + 1 \in j + 1..i + 1 BY <3>1, <1>1
      <4>2. \A k \in 1..i : r[k].type # "hello" BY <4>1, <2>1, <2>2
      <4> QED BY <4>2, <3>1, <2>2, <1>3 DEF LastIn
    <3>2. CASE j # 1
      <4>1. j - 1 \in 1..i /\ (j - 1) + 1 = j BY <3>2, <1>1
      <4>2. \A k \in (j - 1) + 1..i : k \in 1..i /\ k + 1 \in j + 1..i + 1 BY <3>2, <1>1
      <4>3. r[j - 1] = s[j] BY <4>1, <2>1
      <4>4. \A k \in (j - 1) + 1..i : r[k].type # "hello" BY <4>2, <2>1, <2>2
      <4> QED BY <4>1, <4>3, <4>4, <2>2 DEF LastIn
    <3> QED BY <3>1, <3>2
  <2>3. ASSUME h = n, \A k \in 1..i + 1 : s[k].type # "hello" PROVE LastIn(r, g, i, n)
    <3>1. 1 \in 1..i + 1 /\ \A k \in 1..i : k + 1 \in 1..i + 1 BY <1>1
    <3>2. g = n BY <3>1, <2>3, <1>4
    <3>3. \A k \in 1..i : r[k].type # "hello" BY <3>1, <2>1, <2>3
    <3> QED BY <3>2, <3>3 DEF LastIn
  <2> QED BY <2>2, <2>3, <1>6 DEF LastIn
<1>7. \A i \in 1..m : i \in 0..m /\ i + 1 \in 1..m + 1 BY <1>1
<1>8. m \in 0..m /\ 1 \in 1..m + 1 BY <1>1
<1>9. Introduced(s, h) => Introduced(r, g)
  <2> SUFFICES ASSUME Introduced(s, h), NEW i \in 1..m, r[i].type = "proof"
               PROVE  Knows(r, g, i)
    BY <1>2 DEF Introduced
  <2>1. i + 1 \in 1..m + 1 /\ s[i + 1].type = "proof" BY <1>2, <1>7
  <2>2. Knows(s, h, i + 1) BY <2>1, <1>1 DEF Introduced
  <2> QED BY <2>2, <1>5, <1>7
<1>10. Told(s, h) => Told(r, g) BY <1>1, <1>2, <1>5, <1>8 DEF Told
<1>11. \A n : Latest(s, h, n) => Latest(r, g, n) BY <1>1, <1>2, <1>6, <1>8 DEF Latest
<1>12. Named(s, h) => Named(r, g)
  <2> SUFFICES ASSUME Named(s, h), NEW i \in 1..m, r[i].type = "proof"
               PROVE  LastIn(r, g, i, r[i].name)
    BY <1>2 DEF Named
  <2>1. i + 1 \in 1..m + 1 /\ s[i + 1] = r[i] BY <1>2, <1>7
  <2>2. LastIn(s, h, i + 1, s[i + 1].name) BY <2>1, <1>1 DEF Named
  <2> QED BY <2>1, <2>2, <1>6, <1>7
<1>13. \A j : j \in 1..1 <=> j = 1 OBVIOUS
<1>14. Introduced(s, h) /\ Head(s).type = "proof" => h # None
  BY <1>1, <1>2, <1>8, <1>13 DEF Introduced, Knows
<1>15. Named(s, h) /\ Head(s).type = "proof" => Head(s).name = h
  BY <1>1, <1>2, <1>8, <1>13 DEF Named, LastIn
<1> QED BY <1>9, <1>10, <1>11, <1>12, <1>14, <1>15 DEF r

\* The offer and its answers when a packet is appended.
LEMMA MoreIsOffered ==
  ASSUME NEW s \in Seq(Packets), NEW p \in Packets
  PROVE  /\ OneOffer(s) /\ (p.type = "offer" => p = Offer(1) /\ ~Has(s, "offer"))
              => OneOffer(Append(s, p))
         /\ AfterProof(s) /\ (p.type = "offer" => Has(s, "proof")) => AfterProof(Append(s, p))
         /\ AnswersOne(s) /\ (p.type = "answer" => p = Answer(1)) => AnswersOne(Append(s, p))
<1> DEFINE s2 == Append(s, p)
<1>1. PICK m \in Nat : m = Len(s) BY OneMore
<1>2. /\ Len(s2) = m + 1 /\ s2[m + 1] = p
      /\ \A i \in 1..m : s2[i] = s[i]
  BY <1>1, OneMore
<1> HIDE DEF s2
<1>3. \A i : i \in 1..m + 1 <=> i \in 1..m \/ i = m + 1 BY <1>1
<1>4. \A t : Has(s, t) <=> \E i \in 1..m : s[i].type = t BY <1>1 DEF Has
<1>5. OneOffer(s) /\ (p.type = "offer" => p = Offer(1) /\ ~Has(s, "offer")) => OneOffer(s2)
  BY <1>1, <1>2, <1>3, <1>4 DEF OneOffer
<1>6. AfterProof(s) /\ (p.type = "offer" => Has(s, "proof")) => AfterProof(s2)
  <2> SUFFICES ASSUME AfterProof(s), p.type = "offer" => Has(s, "proof"),
                      NEW j \in 1..m + 1, s2[j].type = "offer"
               PROVE  \E k \in 1..j-1 : s2[k].type = "proof"
    BY <1>2 DEF AfterProof
  <2>1. CASE j \in 1..m
    <3>1. PICK k \in 1..j-1 : s[k].type = "proof" BY <2>1, <1>1, <1>2 DEF AfterProof
    <3>2. k \in 1..m BY <2>1, <1>1
    <3> QED BY <3>1, <3>2, <1>2
  <2>2. CASE j = m + 1
    <3>1. PICK k \in 1..m : s[k].type = "proof" BY <2>2, <1>2, <1>4
    <3>2. j - 1 = m BY <2>2, <1>1
    <3> QED BY <3>1, <3>2, <1>2
  <2> QED BY <2>1, <2>2, <1>3
<1>7. AnswersOne(s) /\ (p.type = "answer" => p = Answer(1)) => AnswersOne(s2)
  BY <1>1, <1>2, <1>3 DEF AnswersOne
<1> QED BY <1>5, <1>6, <1>7 DEF s2

\* The offer and its answers when a packet is read.
LEMMA LessIsOffered ==
  ASSUME NEW s \in Seq(Packets), s # <<>>
  PROVE  /\ OneOffer(s) => OneOffer(Tail(s))
         /\ OneOffer(s) /\ Head(s).type = "offer" =>
              Head(s) = Offer(1) /\ ~Has(Tail(s), "offer")
         /\ AfterProof(s) => Head(s).type # "offer"
         /\ AfterProof(s) /\ Head(s).type # "proof" => AfterProof(Tail(s))
         /\ AnswersOne(s) => AnswersOne(Tail(s))
         /\ AnswersOne(s) /\ Head(s).type = "answer" => Head(s) = Answer(1)
<1> DEFINE r == Tail(s)
<1>1. PICK m \in Nat : m + 1 = Len(s) BY OneLess
<1>2. /\ Len(r) = m /\ Head(s) = s[1]
      /\ \A i \in 1..m : r[i] = s[i + 1]
  BY <1>1, OneLess
<1> HIDE DEF r
<1>3. \A i \in 1..m : i + 1 \in 1..m + 1 /\ i + 1 # 1 BY <1>1
<1>4. 1 \in 1..m + 1 BY <1>1
<1>5. ASSUME OneOffer(s) PROVE OneOffer(r)
  <2>1. ASSUME NEW j \in 1..m, NEW k \in 1..m, r[j].type = "offer", r[k].type = "offer"
        PROVE  r[j] = Offer(1) /\ k = j
    <3>1. s[j + 1] = Offer(1) /\ k + 1 = j + 1
      BY <2>1, <1>1, <1>2, <1>3, <1>5 DEF OneOffer
    <3> QED BY <3>1, <1>2
  <2> QED BY <2>1, <1>2 DEF OneOffer
<1>6. ASSUME OneOffer(s), s[1].type = "offer" PROVE s[1] = Offer(1) /\ ~Has(r, "offer")
  <2>1. s[1] = Offer(1) /\ \A k \in 1..m + 1 : s[k].type = "offer" => k = 1
    BY <1>1, <1>4, <1>6 DEF OneOffer
  <2>2. \A k \in 1..m : r[k].type # "offer" BY <2>1, <1>2, <1>3
  <2> QED BY <2>1, <2>2, <1>2 DEF Has
<1>7. AfterProof(s) => s[1].type # "offer"
  <2>1. \A k : k \notin 1..1-1 OBVIOUS
  <2> QED BY <2>1, <1>1, <1>4 DEF AfterProof
<1>8. ASSUME AfterProof(s), s[1].type # "proof", NEW j \in 1..m, r[j].type = "offer"
      PROVE  \E k \in 1..j-1 : r[k].type = "proof"
  <2>1. j + 1 \in 1..m + 1 /\ (j + 1) - 1 = j BY <1>1
  <2>2. PICK k \in 1..j : s[k].type = "proof" BY <2>1, <1>1, <1>2, <1>8 DEF AfterProof
  <2>3. k # 1 BY <2>2, <1>8
  <2>4. k - 1 \in 1..j-1 /\ k - 1 \in 1..m /\ (k - 1) + 1 = k BY <2>3, <1>1
  <2> QED BY <2>2, <2>4, <1>2
<1>9. AnswersOne(s) => AnswersOne(r) BY <1>1, <1>2, <1>3 DEF AnswersOne
<1>10. AnswersOne(s) /\ s[1].type = "answer" => s[1] = Answer(1)
  BY <1>1, <1>4 DEF AnswersOne
<1>11. AfterProof(s) /\ s[1].type # "proof" => AfterProof(r) BY <1>2, <1>8 DEF AfterProof
<1> QED BY <1>2, <1>5, <1>6, <1>7, <1>9, <1>10, <1>11 DEF r

-----------------------------------------------------------------------------
(* Steps that say nothing.                                                 *)

\* A channel that closes closes for a reason.
Lost(e) == links[e].control /\ ~links'[e].control

\* A link goes from stage to stage, and nothing is said.
QuietAt(e) ==
  /\ Up(links[e]) => Up(links'[e])
  /\ Up(links'[e]) /\ ~Up(links[e]) => links[e].state = "none"
  /\ Gone(links'[e]) <=> Gone(links[e])
  /\ links'[e].hello = links[e].hello
  /\ links'[e].open = links[e].open
  /\ links'[e].transportOpen = links[e].transportOpen
  /\ links'[e].lastError = links[e].lastError
  /\ links[e].transportOpen /\ links'[e].control => links[e].control
  /\ links[e].transportOpen /\ Lost(e) => faults' \/ Gone(links[Other(e)])

Quiet ==
  /\ UNCHANGED <<helloVars, audioVars, wire, fixed>>
  /\ faults => faults'
  /\ \A e \in Ends : QuietAt(e)

\* Nothing is said, so what was told stays told.
LEMMA QuietKeeps ==
  ASSUME Inv, Stand', Quiet
  PROVE  Inv'
<1>1. UNCHANGED <<name, nonces, heard, renamedEarly, audio, described, negotiation, wire,
                  initiator>>
  BY DEF Quiet, helloVars, audioVars, fixed
<1>2. faults => faults' BY DEF Quiet
<1>3. ASSUME NEW e \in Ends PROVE Talk(e)' /\ Names(e)'
  <2> DEFINE o == Other(e)
  <2>1. o \in Ends /\ Other(o) = e BY TwoEnds
  <2>2. QuietAt(e) /\ QuietAt(o) BY <2>1 DEF Quiet
  <2>3. Talk(e) /\ Names(e) /\ Staged(o) /\ Paired(o) BY <2>1 DEF Inv, Stand
  <2>4. o \in nonces /\ Up(links'[e]) => Up(links[e])
    BY <2>1, <2>2, <2>3 DEF QuietAt, Staged, Paired
  <2>5. Talk(e)' BY <1>1, <2>2, <2>3, <2>4 DEF Talk, QuietAt
  <2>6. Names(e)' BY <1>1, <2>2, <2>3, <2>4 DEF Names, QuietAt, Staged
  <2> QED BY <2>5, <2>6
<1>4. initiator \in Ends /\ Other(initiator) \in Ends BY TwoEnds DEF Inv, Stand, TypeOK
<1>5. AudioRoles'
  <2>1. ASSUME NEW e \in Ends, ~faults', links'[e].transportOpen, ~links'[e].control
        PROVE  Gone(links'[Other(e)])
    <3>1. QuietAt(e) /\ QuietAt(Other(e)) BY TwoEnds DEF Quiet
    <3> QED BY <1>2, <2>1, <3>1 DEF QuietAt, Lost, Inv, AudioRoles
  <2>2. \A e \in Ends : links'[e].open = links[e].open BY DEF Quiet, QuietAt
  <2> QED BY <1>1, <2>1, <2>2 DEF Inv, AudioRoles
<1>6. QuietAt(initiator) /\ QuietAt(Other(initiator)) BY <1>4 DEF Quiet
<1>7. AudioOffer' BY <1>1, <1>6 DEF QuietAt, Inv, AudioOffer
<1>8. AudioAnswer'
  <2> DEFINE i == initiator
             o == Other(i)
  <2>1. audio[i] = "AwaitingAnswer" /\ Up(links'[o]) => Up(links[o])
    <3>1. audio[i] = "AwaitingAnswer" => links[i].transportOpen
      BY <1>4 DEF Inv, AudioRoles, Stand, Staged
    <3> QED BY <3>1, <1>4, <1>6 DEF QuietAt, Inv, Stand, Paired
  <2> QED BY <1>1, <1>2, <1>6, <2>1 DEF QuietAt, Inv, AudioAnswer
<1> QED BY <1>3, <1>5, <1>7, <1>8 DEF Inv

\* An end that goes takes its part of the conversation with it.
LEMMA RemovalKeeps ==
  ASSUME Inv, Stand', NEW e \in Ends, NEW state \in Over, NEW why, remove(e, state, why),
         faults => faults', why = "key" => renamedEarly
  PROVE  Inv'
<1> DEFINE o == Other(e)
<1>0. o \in Ends /\ Other(o) = e /\ o # e /\ \A u \in Ends : u = e \/ u = o BY TwoEnds
<1>1. /\ links'[e] = Removed(state, why) /\ links'[o] = links[o]
      /\ nonces' = nonces \ {e}
      /\ heard'[e] = None /\ heard'[o] = heard[o]
      /\ audio'[e] = "Idle" /\ audio'[o] = audio[o]
      /\ described'[e] = None /\ described'[o] = described[o]
      /\ negotiation'[e] = 0 /\ negotiation'[o] = negotiation[o]
      /\ wire'[e] = <<>> /\ wire'[o] = wire[o]
      /\ UNCHANGED <<name, renamedEarly, initiator>>
  BY <1>0 DEF remove, setLink, fixed, Inv, Stand, TypeOK
<1>2. /\ ~Up(links'[e]) /\ Gone(links'[e])
      /\ ~links'[e].hello /\ ~links'[e].open /\ ~links'[e].transportOpen
      /\ ~links'[e].control /\ links'[e].lastError = why
  BY <1>1 DEF Removed, NoLink, Up, Gone
<1>3. /\ \A t : ~Has(<<>>, t)
      /\ Introduced(<<>>, None) /\ Named(<<>>, None) /\ OneOffer(<<>>) /\ AfterProof(<<>>)
      /\ AnswersOne(<<>>)
  BY HasFacts DEF Introduced, Named, OneOffer, AfterProof, AnswersOne
<1>4. Talk(e)' /\ Names(e)' BY <1>0, <1>1, <1>2, <1>3 DEF Talk, Names
<1>5. Talk(o)' /\ Names(o)' BY <1>0, <1>1, <1>2 DEF Inv, Talk, Names
<1>6. \A u \in Ends : Talk(u)' /\ Names(u)' BY <1>0, <1>4, <1>5
<1>7. initiator = e \/ initiator = o BY <1>0 DEF Inv, Stand, TypeOK
<1>8. AudioRoles'
  BY <1>0, <1>1, <1>2, <1>3, <1>7 DEF Inv, AudioRoles
<1>9. AudioOffer'
  BY <1>0, <1>1, <1>2, <1>3, <1>7 DEF Inv, AudioOffer
<1>10. AudioAnswer'
  <2>1. CASE initiator = e
    <3>1. initiator' = e /\ Other(e) = o BY <2>1, <1>1
    <3> QED BY <1>0, <1>1, <1>2, <1>3, <2>1, <3>1 DEF Inv, AudioAnswer
  <2>2. CASE initiator = o
    <3>1. initiator' = o BY <2>2, <1>1
    <3> QED BY <1>0, <1>1, <1>2, <1>3, <2>2, <3>1, NoneAssumption DEF Inv, AudioAnswer
  <2> QED BY <1>7, <2>1, <2>2
<1> QED BY <1>6, <1>8, <1>9, <1>10 DEF Inv

\* A link that only goes on, or loses a channel.
GoesOn(e, l) ==
  /\ links' = [links EXCEPT ![e] = l]
  /\ l.state \notin Over \cup {"none"}
  /\ Up(links[e]) \/ links[e].state = "none"
  /\ l.hello = links[e].hello /\ l.open = links[e].open
  /\ l.transportOpen = links[e].transportOpen /\ l.lastError = links[e].lastError
  /\ links[e].transportOpen /\ l.control => links[e].control
  /\ links[e].transportOpen /\ links[e].control /\ ~l.control =>
       faults' \/ Gone(links[Other(e)])

\* A link that goes on says nothing.
LEMMA GoingOnKeeps ==
  ASSUME Inv, Stand', NEW e \in Ends, NEW l, GoesOn(e, l),
         UNCHANGED <<helloVars, audioVars, wire, fixed>>, faults => faults'
  PROVE  Inv'
<1>1. links'[e] = l BY DEF GoesOn, Inv, Stand, TypeOK
<1>2. QuietAt(e) BY <1>1 DEF GoesOn, QuietAt, Lost, Up, Gone, Over
<1>3. ASSUME NEW u \in Ends, u # e PROVE QuietAt(u)
  <2>1. links'[u] = links[u] BY <1>3 DEF GoesOn, Inv, Stand, TypeOK
  <2> QED BY <2>1 DEF QuietAt, Lost
<1>4. Quiet BY <1>2, <1>3 DEF Quiet
<1> QED BY <1>4, QuietKeeps

\* Neither do steps that leave the links alone.
LEMMA LinksSameKeeps ==
  ASSUME Inv, Stand', UNCHANGED <<links, helloVars, audioVars, wire, fixed>>, faults => faults'
  PROVE  Inv'
<1>1. Quiet BY DEF Quiet, QuietAt, Lost
<1> QED BY <1>1, QuietKeeps

\* Faults are not forgotten.
LEMMA FaultsStay == Inv /\ (NoTrouble \/ Trouble \/ Fault) => (faults => faults')
  BY BudgetTypes DEF Inv, Stand

\* The signaling and the transport say nothing on the control channel.
LEMMA SignalingKeeps ==
  ASSUME Inv, Stand',
         \/ startOffer \/ acceptOffer \/ acceptAnswer \/ AnswerFails \/ SignalLost
         \/ \E e \in Ends : GatheringCompletes(e)
  PROVE  Inv'
<1>1. \A e \in Ends : links[e] \in Link BY DEF Inv, Stand, TypeOK
<1>2. CASE startOffer
  <2> DEFINE l == [links[Offerer] EXCEPT !.state = "Gathering"]
  <2>1. GoesOn(Offerer, l)
    BY <1>1, <1>2, TwoEnds DEF startOffer, setLink, GoesOn, Link, Over
  <2> QED BY <1>2, <2>1, GoingOnKeeps, TwoEnds DEF startOffer, unchangedButLink, budget
<1>3. CASE acceptOffer
  <2> DEFINE l == [links[Answerer] EXCEPT !.state = "Gathering"]
  <2>1. GoesOn(Answerer, l)
    BY <1>1, <1>3, TwoEnds DEF acceptOffer, setLink, GoesOn, Link, Over
  <2> QED BY <1>3, <2>1, GoingOnKeeps, TwoEnds DEF acceptOffer, unchangedButLink, budget
<1>4. CASE acceptAnswer
  <2> DEFINE l == [links[Offerer] EXCEPT !.answerApplied = TRUE, !.state = "Connecting"]
  <2>1. GoesOn(Offerer, l)
    BY <1>1, <1>4, TwoEnds DEF acceptAnswer, setLink, GoesOn, Link, Over
  <2> QED BY <1>4, <2>1, GoingOnKeeps, TwoEnds DEF acceptAnswer, unchangedButLink, budget
<1>5. CASE AnswerFails
  <2>1. faults => faults' BY <1>5, FaultsStay DEF AnswerFails
  <2>2. CASE meshManaged
    BY <1>5, <2>1, <2>2, RemovalKeeps, TwoEnds DEF AnswerFails, fail, Over
  <2>3. CASE ~meshManaged
    <3> DEFINE l == [links[Offerer] EXCEPT !.state = "AwaitingAnswer"]
    <3>1. GoesOn(Offerer, l)
      BY <1>1, <1>5, <2>3, TwoEnds DEF AnswerFails, setLink, GoesOn, Link, Over
    <3> QED BY <1>5, <2>1, <2>3, <3>1, GoingOnKeeps, TwoEnds DEF AnswerFails, unchangedButLink
  <2> QED BY <2>2, <2>3
<1>6. CASE SignalLost
  BY <1>6, LinksSameKeeps DEF SignalLost, linkVars, budget
<1>7. ASSUME NEW e \in Ends, GatheringCompletes(e) PROVE Inv'
  <2> DEFINE state == IF e = Offerer THEN "AwaitingAnswer" ELSE "Connecting"
             l == [links[e] EXCEPT !.signalingProduced = TRUE, !.state = state]
  <2>2. links' = [links EXCEPT ![e] = l] /\ Up(links[e])
    BY <1>7 DEF GatheringCompletes, localDescriptionReady, setLink
  <2>3. state \notin Over \cup {"none"} BY DEF Over
  <2> HIDE DEF state
  <2>1. GoesOn(e, l) BY <1>1, <2>2, <2>3 DEF GoesOn, Link
  <2> QED BY <1>7, <2>1, GoingOnKeeps DEF GatheringCompletes, budget
<1> QED BY <1>2, <1>3, <1>4, <1>5, <1>6, <1>7

\* suspect: a link in doubt says nothing.
LEMMA DoubtKeeps ==
  ASSUME Inv, Stand', NEW e \in Ends, NEW l \in Link, Up(links[e]), suspect(e, l),
         l.state = links[e].state,
         l.hello = links[e].hello, l.open = links[e].open,
         l.transportOpen = links[e].transportOpen, l.lastError = links[e].lastError,
         l.control => links[e].control,
         links[e].control /\ ~l.control => faults' \/ Gone(links[Other(e)]),
         UNCHANGED <<helloVars, audioVars, wire, fixed>>, faults => faults'
  PROVE  Inv'
<1> DEFINE m == [l EXCEPT !.state = "Suspect", !.generation = l.generation + 1]
<1>1. /\ m.state = "Suspect" /\ m.hello = l.hello /\ m.open = l.open /\ m.control = l.control
      /\ m.transportOpen = l.transportOpen /\ m.lastError = l.lastError
  BY DEF Link
<1>2. links' = [links EXCEPT ![e] = m] \/ links' = [links EXCEPT ![e] = l] BY DEF suspect
<1> HIDE DEF m
<1>3. GoesOn(e, m) \/ GoesOn(e, l) BY <1>1, <1>2 DEF GoesOn, Up, Over
<1> QED BY <1>3, GoingOnKeeps

\* The transport connects, disconnects and fails, channels close.
LEMMA TransportKeeps ==
  ASSUME Inv, Stand', NEW e \in Ends,
         \/ TransportConnects(e) \/ TransportDisconnects(e) \/ TransportFails(e)
         \/ TransferChannelCloses(e)
         \/ \E channel \in {"control", "chat"} : ChannelCloses(e, channel)
  PROVE  Inv'
<1>1. links[e] \in Link BY DEF Inv, Stand, TypeOK
<1>2. CASE TransportConnects(e)
  <2> DEFINE l == recovered(links[e])
  <2>1. /\ l.hello = links[e].hello /\ l.open = links[e].open
        /\ l.control = links[e].control
        /\ l.transportOpen = links[e].transportOpen /\ l.lastError = links[e].lastError
        /\ l.state = links[e].state \/ l.state = "Connected"
    <3>1. CASE ~(links[e].control /\ links[e].chat) BY <1>1, <3>1 DEF recovered
    <3>2. CASE links[e].control /\ links[e].chat
      <4>1. \/ l = [links[e] EXCEPT !.generation = links[e].generation + 1,
                                    !.state = "Connected"]
            \/ l = [links[e] EXCEPT !.generation = links[e].generation + 1,
                                    !.state = links[e].state]
        BY <1>1, <3>2 DEF recovered, Link
      <4> HIDE DEF l
      <4> QED BY <4>1, <1>1 DEF Link
    <3> QED BY <3>1, <3>2
  <2>2. links' = [links EXCEPT ![e] = l] /\ Up(links[e])
    BY <1>2 DEF TransportConnects
  <2> HIDE DEF l
  <2>3. GoesOn(e, l) BY <2>1, <2>2 DEF GoesOn, Up, Over
  <2> QED BY <1>2, <2>3, GoingOnKeeps DEF TransportConnects, budget
<1>3. CASE TransportDisconnects(e)
  BY <1>1, <1>3, FaultsStay, DoubtKeeps DEF TransportDisconnects
<1>4. CASE TransportFails(e)
  BY <1>4, FaultsStay, RemovalKeeps DEF TransportFails, fail, Over
<1>5. CASE TransferChannelCloses(e)
  BY <1>1, <1>5, FaultsStay, DoubtKeeps DEF TransferChannelCloses, unchangedButLink
<1>6. ASSUME NEW channel \in {"control", "chat"}, ChannelCloses(e, channel) PROVE Inv'
  <2>1. faults => faults' BY <1>6, FaultsStay DEF ChannelCloses
  <2>2. Gone(links[Other(e)]) \/ faults' BY <1>6 DEF ChannelCloses, Fault
  <2>3. CASE links[e].open
    <3> DEFINE l == [links[e] EXCEPT ![channel] = FALSE]
    <3>1. /\ l \in Link /\ l.state = links[e].state
          /\ l.hello = links[e].hello /\ l.open = links[e].open
          /\ l.transportOpen = links[e].transportOpen /\ l.lastError = links[e].lastError
          /\ (l.control => links[e].control)
      BY <1>1 DEF Link
    <3>2. suspect(e, l) /\ UNCHANGED unchangedButLink /\ Up(links[e])
      BY <1>6, <2>3 DEF ChannelCloses
    <3> HIDE DEF l
    <3> QED BY <2>1, <2>2, <3>1, <3>2, DoubtKeeps DEF unchangedButLink
  <2>4. CASE ~links[e].open
    BY <1>6, <2>1, <2>4, RemovalKeeps DEF ChannelCloses, fail, Over
  <2> QED BY <2>3, <2>4
<1> QED BY <1>2, <1>3, <1>4, <1>5, <1>6

\* The timers and the user.
LEMMA EndingKeeps ==
  ASSUME Inv, Stand', NEW e \in Ends,
         \/ StartFails(e) \/ DeadlinePasses(e) \/ GracePasses(e) \/ markTimedOut(e) \/ Discard(e)
  PROVE  Inv'
<1>1. faults => faults'
  BY FaultsStay DEF StartFails, DeadlinePasses, GracePasses, markTimedOut, Discard
<1>2. CASE StartFails(e) BY <1>1, <1>2, RemovalKeeps DEF StartFails, fail, Over
<1>3. CASE DeadlinePasses(e) BY <1>1, <1>3, RemovalKeeps DEF DeadlinePasses, fail, Over
<1>4. CASE markTimedOut(e) BY <1>1, <1>4, RemovalKeeps DEF markTimedOut, fail, Over
<1>5. CASE Discard(e) BY <1>1, <1>5, RemovalKeeps DEF Discard, discard, fail, Over
<1>6. CASE GracePasses(e)
  <2>1. \/ remove(e, "Failed", "grace")
        \/ UNCHANGED <<links, deadline, suspicion, helloVars, audioVars, netVars, wire, fixed>>
    BY <1>6 DEF GracePasses
  <2> QED BY <1>1, <2>1, RemovalKeeps, LinksSameKeeps DEF Over
<1> QED BY <1>2, <1>3, <1>4, <1>5, <1>6

-----------------------------------------------------------------------------
(* Steps that speak.                                                       *)

\* An end appends at most a hello and a proof.
LEMMA TwoMore ==
  ASSUME NEW s \in Seq(Packets), NEW p \in Packets, NEW q \in Packets
  PROVE  /\ s \o <<>> = s
         /\ s \o <<p>> = Append(s, p)
         /\ s \o (<<p>> \o <<>>) = Append(s, p)
         /\ s \o (<<p>> \o <<q>>) = Append(Append(s, p), q)
         /\ s \o <<p, q>> = Append(Append(s, p), q)
  OBVIOUS

\* Nothing is under way to an end that is not up.
LEMMA NothingToTheGone ==
  \A e \in Ends : Inv => sendTo(e, <<>>) = wire[Other(e)]
  BY TwoEnds DEF sendTo, Inv, Talk, Stand, TypeOK

\* A hello and a proof say nothing of the audio negotiation.
SaysNoAudio(s, r) ==
  /\ Has(r, "offer") <=> Has(s, "offer")
  /\ Has(r, "answer") <=> Has(s, "answer")
  /\ OneOffer(s) => OneOffer(r)
  /\ AnswersOne(s) => AnswersOne(r)

\* Hellos and proofs leave offers and answers as they are.
LEMMA HandshakeIsNoAudio ==
  /\ \A s \in Seq(Packets), p \in Packets :
       p.type \in {"hello", "proof"} =>
         SaysNoAudio(s, Append(s, p)) /\ (AfterProof(s) => AfterProof(Append(s, p)))
  /\ \A s \in Seq(Packets) :
       s # <<>> /\ Head(s).type \in {"hello", "proof"} => SaysNoAudio(s, Tail(s))
  /\ \A s, r, q : SaysNoAudio(s, r) /\ SaysNoAudio(r, q) => SaysNoAudio(s, q)
  /\ \A s : SaysNoAudio(s, s)
<1>1. ASSUME NEW s \in Seq(Packets), NEW p \in Packets, p.type \in {"hello", "proof"}
      PROVE  SaysNoAudio(s, Append(s, p)) /\ (AfterProof(s) => AfterProof(Append(s, p)))
  <2>1. p.type # "offer" /\ p.type # "answer" BY <1>1
  <2>2. \A t : Has(Append(s, p), t) <=> Has(s, t) \/ p.type = t BY HasFacts
  <2> QED BY <2>1, <2>2, MoreIsOffered DEF SaysNoAudio
<1>2. ASSUME NEW s \in Seq(Packets), s # <<>>, Head(s).type \in {"hello", "proof"}
      PROVE  SaysNoAudio(s, Tail(s))
  <2>1. Head(s).type # "offer" /\ Head(s).type # "answer" BY <1>2
  <2>2. \A t : Has(s, t) <=> Head(s).type = t \/ Has(Tail(s), t) BY <1>2, HasFacts
  <2> QED BY <1>2, <2>1, <2>2, LessIsOffered DEF SaysNoAudio
<1> QED BY <1>1, <1>2 DEF SaysNoAudio

\* The audio negotiation through a step of the handshake of two ends that stay:
\* when a link opens its audio begins.
LEMMA AudioThroughHandshake ==
  ASSUME Inv, NEW e \in Ends,
         UNCHANGED <<described, negotiation, initiator>>,
         \A u \in Ends : SaysNoAudio(wire[u], wire'[u]),
         \A u \in Ends : links'[u].open \/ (AfterProof(wire[u]) => AfterProof(wire'[u])),
         \A u \in Ends : u # e => audio'[u] = audio[u],
         \A u \in Ends : links[u].open => links'[u].open,
         \/ audio'[e] = audio[e]
         \/ /\ ~links[e].open /\ links'[e].open
            /\ e = initiator /\ audio'[e] = "CreatingOffer",
         \A u \in Ends : Gone(links'[u]) <=> Gone(links[u]),
         \A u \in Ends : Up(links'[u]) => Up(links[u]),
         \A u \in Ends : links'[u].transportOpen /\ ~links'[u].control =>
                           links[u].transportOpen /\ ~links[u].control,
         faults => faults'
  PROVE  AudioRoles' /\ AudioOffer' /\ AudioAnswer'
<1> DEFINE i == initiator
           o == Other(i)
<1>0. i \in Ends /\ o \in Ends /\ o # i /\ Other(o) = i /\ i' = i /\ o' = o
      /\ \A u \in Ends : u = i \/ u = o
  BY TwoEnds DEF Inv, Stand, TypeOK
<1>1. SaysNoAudio(wire[i], wire'[i]) /\ SaysNoAudio(wire[o], wire'[o]) BY <1>0
<1>2. audio'[o] = audio[o] BY <1>0
<1>3. \/ audio'[i] = audio[i]
      \/ ~links[i].open /\ links'[i].open /\ audio'[i] = "CreatingOffer"
  BY <1>0
<1>4. ~links[i].open => audio[i] = "Idle" /\ described[i] = None /\ negotiation[i] = 0
  BY <1>0 DEF Inv, AudioRoles
<1>5. AudioRoles'
  <2>1. \A u \in Ends : audio'[u] # "Idle" \/ described'[u] # None \/ negotiation'[u] # 0
                          => links'[u].open
    BY <1>0, <1>2, <1>3 DEF Inv, AudioRoles
  <2>2. \A u \in Ends : ~faults' /\ links'[u].transportOpen /\ ~links'[u].control
                          => Gone(links'[Other(u)])
    BY TwoEnds DEF Inv, AudioRoles
  <2> QED BY <1>0, <1>1, <1>2, <1>3, <2>1, <2>2 DEF Inv, AudioRoles, SaysNoAudio
<1>6. AudioOffer'
  BY <1>0, <1>1, <1>2, <1>3, <1>4 DEF Inv, AudioOffer, SaysNoAudio
<1>7. AudioAnswer'
  BY <1>0, <1>1, <1>2, <1>3, <1>4 DEF Inv, AudioAnswer, SaysNoAudio
<1> QED BY <1>5, <1>6, <1>7

\* What can be said: a hello, and a proof of the name in it.
LEMMA HelloAndProof ==
  ASSUME NEW s \in Seq(Packets), NEW h, NEW n \in Nat
  PROVE  LET q == Append(s, Hello(n))
             r == Append(q, Proof(n)) IN
         /\ q \in Seq(Packets) /\ r \in Seq(Packets) /\ q # <<>> /\ r # <<>>
         /\ Introduced(s, h) => Introduced(q, h) /\ Introduced(r, h)
         /\ Told(q, h) /\ Told(r, h)
         /\ Latest(q, h, n) /\ Latest(r, h, n)
         /\ Named(s, h) => Named(q, h) /\ Named(r, h)
         /\ (Has(q, "proof") <=> Has(s, "proof")) /\ Has(r, "proof")
         /\ SaysNoAudio(s, q) /\ SaysNoAudio(s, r)
         /\ AfterProof(s) => AfterProof(q) /\ AfterProof(r)
<1> DEFINE q == Append(s, Hello(n))
           r == Append(q, Proof(n))
<1>1. /\ Hello(n) \in Packets /\ Proof(n) \in Packets
      /\ Hello(n).type = "hello" /\ Hello(n).name = n
      /\ Proof(n).type = "proof" /\ Proof(n).name = n
  BY PacketTypes DEF Hello, Proof
<1>2. q \in Seq(Packets) /\ r \in Seq(Packets) /\ q # <<>> /\ r # <<>> BY <1>1
<1>3. /\ Introduced(s, h) => Introduced(q, h)
      /\ Told(q, h) /\ Latest(q, h, n)
      /\ Named(s, h) => Named(q, h)
  BY <1>1, MoreIsTold
<1>4. Has(q, "proof") <=> Has(s, "proof") BY <1>1, HasFacts
<1>5. SaysNoAudio(s, q) /\ (AfterProof(s) => AfterProof(q)) BY <1>1, HandshakeIsNoAudio
<1> HIDE DEF q
<1>6. /\ Introduced(q, h) => Introduced(r, h)
      /\ Told(r, h) /\ Latest(r, h, n)
      /\ Named(q, h) => Named(r, h)
  BY <1>1, <1>2, <1>3, MoreIsTold
<1>7. Has(r, "proof") BY <1>1, <1>2, HasFacts
<1>8. SaysNoAudio(q, r) /\ (AfterProof(q) => AfterProof(r))
  BY <1>1, <1>2, HandshakeIsNoAudio
<1>9. SaysNoAudio(s, r) BY <1>5, <1>8, HandshakeIsNoAudio
<1> HIDE DEF r
<1>10. /\ Introduced(s, h) => Introduced(q, h) /\ Introduced(r, h)
       /\ Named(s, h) => Named(q, h) /\ Named(r, h)
       /\ AfterProof(s) => AfterProof(q) /\ AfterProof(r)
  BY <1>3, <1>5, <1>6, <1>8
<1> QED BY <1>2, <1>3, <1>4, <1>5, <1>6, <1>7, <1>9, <1>10 DEF q, r

\* The transport of an end opens: it says hello, with the proof if it heard one.
LEMMA ChannelKeeps ==
  ASSUME Inv, Stand', NEW e \in Ends, NEW channel \in {"control", "chat"},
         ChannelOpens(e, channel)
  PROVE  Inv'
<1> DEFINE o == Other(e)
           l == [links[e] EXCEPT ![channel] = TRUE]
           t == TransportOpened(l)
<1>0. o \in Ends /\ Other(o) = e /\ o # e /\ \A u \in Ends : u = e \/ u = o BY TwoEnds
<1>1. /\ Up(links[e]) /\ ~links[e].transportOpen /\ Up(links[o])
      /\ UNCHANGED <<name, heard, renamedEarly, audioVars, fixed, budget>>
  BY DEF ChannelOpens
<1>2. links[e] \in Link BY DEF Inv, Stand, TypeOK
<1>3. /\ l \in Link /\ ~l.transportOpen /\ ~l.open /\ ~l.hello
      /\ l.state = links[e].state /\ l.lastError = links[e].lastError
      /\ l.hello = links[e].hello /\ l.open = links[e].open
      /\ l.transportOpen = links[e].transportOpen
  BY <1>1, <1>2 DEF Link, Inv, Stand, Staged
<1>3a. ~links[e].open /\ ~links[e].hello BY <1>1 DEF Inv, Stand, Staged
<1>4. CASE ~TransportReady(l)
  <2>1. links' = [links EXCEPT ![e] = l] /\ UNCHANGED <<nonces, wire>>
    BY <1>4 DEF ChannelOpens, setLink
  <2> HIDE DEF l
  <2>2. GoesOn(e, l) BY <1>1, <1>3, <1>3a, <2>1 DEF GoesOn, Up
  <2> QED BY <1>1, <2>1, <2>2, GoingOnKeeps DEF helloVars, budget
<1>5. CASE TransportReady(l)
  <2>1. /\ links' = [links EXCEPT ![e] = HandshakeOpened(t)]
        /\ nonces' = nonces \cup {e}
        /\ wire' = [wire EXCEPT ![o] = wire[o] \o helloAndProof(e, name[e])]
    BY <1>1, <1>5 DEF ChannelOpens, setLink, send, sendTo
  <2>2. t = [l EXCEPT !.transportOpen = TRUE, !.state = "AwaitingHello"]
    BY <1>5 DEF TransportOpened
  <2>3. /\ t.state = "AwaitingHello" /\ t.transportOpen /\ ~t.open /\ ~t.hello
        /\ t.control /\ t.lastError = links[e].lastError
    BY <2>2, <1>3, <1>5 DEF Link, TransportReady
  <2>4. HandshakeOpened(t) = t BY <2>3 DEF HandshakeOpened
  <2> HIDE DEF t, l
  <2>5. links'[e] = t /\ links'[o] = links[o]
    BY <1>0, <2>1, <2>4 DEF Inv, Stand, TypeOK
  <2>6. /\ Up(links'[e]) /\ ~Gone(links'[e]) /\ ~Gone(links[e])
    BY <1>1, <2>3, <2>5 DEF Up, Gone, Over
  <2> DEFINE s == wire[o]
             n == name[e]
             q == Append(s, Hello(n))
             r == Append(q, Proof(n))
  <2>7. s \in Seq(Packets) /\ n \in Nat BY <1>0 DEF Inv, Stand, TypeOK
  <2>8. wire'[e] = wire[e] /\ wire'[o] = IF heard[e] # None THEN r ELSE q
    <3>1. Hello(n) \in Packets /\ Proof(n) \in Packets BY <2>7, PacketTypes
    <3>2. s \o helloAndProof(e, n) = IF heard[e] # None THEN r ELSE q
      BY <2>7, <3>1, TwoMore DEF helloAndProof
    <3> QED BY <1>0, <2>1, <3>2 DEF Inv, Stand, TypeOK
  <2>9. /\ wire'[o] # <<>>
        /\ Introduced(s, heard[o]) => Introduced(wire'[o], heard[o])
        /\ Told(wire'[o], heard[o]) /\ Latest(wire'[o], heard[o], n)
        /\ Named(s, heard[o]) => Named(wire'[o], heard[o])
        /\ heard[e] # None => Has(wire'[o], "proof")
        /\ heard[e] = None => (Has(wire'[o], "proof") <=> Has(s, "proof"))
        /\ SaysNoAudio(s, wire'[o])
        /\ AfterProof(s) => AfterProof(wire'[o])
    <3>1. /\ q # <<>> /\ r # <<>>
          /\ Introduced(s, heard[o]) => Introduced(q, heard[o]) /\ Introduced(r, heard[o])
          /\ Told(q, heard[o]) /\ Told(r, heard[o])
          /\ Latest(q, heard[o], n) /\ Latest(r, heard[o], n)
          /\ Named(s, heard[o]) => Named(q, heard[o]) /\ Named(r, heard[o])
          /\ (Has(q, "proof") <=> Has(s, "proof")) /\ Has(r, "proof")
          /\ SaysNoAudio(s, q) /\ SaysNoAudio(s, r)
          /\ AfterProof(s) => AfterProof(q) /\ AfterProof(r)
      BY <2>7, HelloAndProof
    <3> HIDE DEF q, r
    <3> QED BY <2>8, <3>1
  <2> HIDE DEF q, r
  <2>10. heard[e] # None => o \in nonces BY <1>0, <1>1 DEF Inv, Talk, Up, Gone
  <2>11. Talk(o)'
    BY <1>0, <1>1, <2>1, <2>5, <2>6, <2>9, <2>10 DEF Inv, Talk
  <2>12. Talk(e)'
    <3>1. /\ heard'[e] = heard[e] /\ heard'[o] = heard[o] /\ wire'[e] = wire[e]
          /\ e \in nonces' /\ (o \in nonces' <=> o \in nonces)
          /\ ~links'[e].hello
      BY <1>0, <1>1, <2>1, <2>3, <2>5, <2>8
    <3>2. Talk(e) BY DEF Inv
    <3> QED BY <1>1, <1>3a, <2>5, <2>6, <3>1, <3>2 DEF Talk
  <2>13. Names(o)' BY <1>0, <1>1, <2>5, <2>9 DEF Inv, Names
  <2>14. Names(e)' BY <1>0, <1>1, <1>3, <2>1, <2>3, <2>5, <2>8 DEF Inv, Names
  <2>15. \A u \in Ends : Talk(u)' /\ Names(u)' BY <1>0, <2>11, <2>12, <2>13, <2>14
  <2>16. AudioRoles' /\ AudioOffer' /\ AudioAnswer'
    <3>1. UNCHANGED <<audio, described, negotiation, initiator>> /\ (faults => faults')
      BY <1>1 DEF audioVars, fixed, budget
    <3>2. /\ \A u \in Ends : SaysNoAudio(wire[u], wire'[u])
          /\ \A u \in Ends : AfterProof(wire[u]) => AfterProof(wire'[u])
      BY <1>0, <2>8, <2>9, HandshakeIsNoAudio
    <3>3. /\ \A u \in Ends : links[u].open => links'[u].open
          /\ \A u \in Ends : Gone(links'[u]) <=> Gone(links[u])
          /\ \A u \in Ends : Up(links'[u]) => Up(links[u])
          /\ \A u \in Ends : links'[u].transportOpen /\ ~links'[u].control =>
                               links[u].transportOpen /\ ~links[u].control
      BY <1>0, <1>1, <1>3a, <2>3, <2>5, <2>6
    <3> QED BY <3>1, <3>2, <3>3, AudioThroughHandshake
  <2> QED BY <2>15, <2>16 DEF Inv
<1> QED BY <1>4, <1>5

\* An end hears a hello and answers with its proof.
LEMMA HelloKeeps ==
  ASSUME Inv, Stand', NEW e \in Ends, handlePeerHello(e)
  PROVE  Inv'
<1> DEFINE o == Other(e)
           n == name[e]
<1>0. o \in Ends /\ Other(o) = e /\ o # e /\ \A u \in Ends : u = e \/ u = o BY TwoEnds
<1>1. /\ Up(links[e]) /\ links[e].control /\ wire[e] # <<>> /\ Head(wire[e]).type = "hello"
      /\ heard' = [heard EXCEPT ![e] = Head(wire[e]).name]
      /\ read(e, proofFor(e))
      /\ UNCHANGED <<links, name, nonces, renamedEarly, audioVars, fixed, budget>>
  BY DEF handlePeerHello, Receive, linkVars
<1>2. wire[e] \in Seq(Packets) /\ wire[o] \in Seq(Packets) /\ n \in Nat
  BY <1>0 DEF Inv, Stand, TypeOK
<1>3. /\ Proof(n) \in Packets /\ Proof(n).type = "proof" /\ Proof(n).name = n
  BY <1>2, PacketTypes DEF Proof
<1>4. Head(wire[e]) \in Packets /\ Head(wire[e]).name \in Nat
  BY <1>1, <1>2, OneLess DEF Packets
<1>5. heard'[e] = Head(wire[e]).name /\ heard'[e] # None /\ heard'[o] = heard[o]
  BY <1>0, <1>1, <1>4, LinkAssumption, ZenonT(30) DEF Inv, Stand, TypeOK
<1>6. /\ wire'[e] = Tail(wire[e])
      /\ wire'[o] = IF e \in nonces /\ Up(links[o]) THEN Append(wire[o], Proof(n)) ELSE wire[o]
  <2>1. proofFor(e) \in Seq(Packets) BY <1>2, <1>3 DEF proofFor
  <2>2. wire'[e] = Tail(wire[e]) /\ wire'[o] = sendTo(e, proofFor(e))
    BY <1>1, <2>1, WireTypes DEF Inv, Stand
  <2>3. ~Up(links[o]) => wire[o] = <<>> BY <1>0 DEF Inv, Talk
  <2>4. wire[o] \o <<>> = wire[o] /\ wire[o] \o <<Proof(n)>> = Append(wire[o], Proof(n))
    BY <1>2, <1>3
  <2> QED BY <2>2, <2>3, <2>4 DEF sendTo, proofFor
<1>7. /\ Introduced(wire'[e], heard'[e])
      /\ Told(wire[e], heard[e]) => Told(wire'[e], heard'[e])
      /\ \A m : Latest(wire[e], heard[e], m) => Latest(wire'[e], heard'[e], m)
      /\ Named(wire[e], heard[e]) => Named(wire'[e], heard'[e])
  BY <1>1, <1>2, <1>5, <1>6, LessIsTold, LinkAssumption DEF Inv, Talk
<1>8. Has(wire'[e], "proof") <=> Has(wire[e], "proof") BY <1>1, <1>2, <1>6, HasFacts
<1>9. o \in nonces \/ Gone(links[o]) BY <1>1 DEF Inv, Talk
<1>10. Up(links[o]) => o \in nonces BY <1>9 DEF Up, Gone
<1>11. Talk(e)' BY <1>0, <1>1, <1>5, <1>7, <1>8, <1>9 DEF Inv, Talk
<1>12. Names(e)' BY <1>0, <1>1, <1>7 DEF Inv, Names
<1>13. CASE e \in nonces /\ Up(links[o])
  <2>1. wire'[o] = Append(wire[o], Proof(n)) BY <1>6, <1>13
  <2>2. Told(wire[o], heard[o]) BY <1>0, <1>13 DEF Inv, Talk
  <2>3. ~renamedEarly => Latest(wire[o], heard[o], n) /\ Named(wire[o], heard[o])
    BY <1>0, <1>1, <1>13 DEF Inv, Names
  <2>4. /\ Introduced(wire[o], heard[o]) => Introduced(wire'[o], heard[o])
        /\ Told(wire'[o], heard[o])
        /\ \A m : Latest(wire[o], heard[o], m) => Latest(wire'[o], heard[o], m)
        /\ ~renamedEarly => Named(wire'[o], heard[o])
    <3> DEFINE q == Append(wire[o], Proof(n))
    <3>1. /\ Introduced(wire[o], heard[o]) /\ Told(wire[o], heard[o]) => Introduced(q, heard[o])
          /\ Told(wire[o], heard[o]) => Told(q, heard[o])
          /\ \A m : Latest(wire[o], heard[o], m) => Latest(q, heard[o], m)
          /\ Named(wire[o], heard[o]) /\ Latest(wire[o], heard[o], n) => Named(q, heard[o])
      BY <1>2, <1>3, MoreIsTold
    <3> HIDE DEF q
    <3>2. wire'[o] = q BY <2>1 DEF q
    <3> QED BY <2>2, <2>3, <3>1, <3>2
  <2>5. Has(wire'[o], "proof")
    <3>1. \A t : Has(Append(wire[o], Proof(n)), t) <=> Has(wire[o], t) \/ Proof(n).type = t
      BY <1>2, <1>3, HasFacts
    <3> QED BY <3>1, <2>1, <1>3
  <2>6. Talk(o)' BY <1>0, <1>1, <1>5, <1>10, <1>13, <2>4, <2>5 DEF Inv, Talk
  <2>7. Names(o)' BY <1>0, <1>1, <1>5, <2>3, <2>4 DEF Inv, Names
  <2> QED
    <3>1. \A u \in Ends : Talk(u)' /\ Names(u)' BY <1>0, <1>11, <1>12, <2>6, <2>7
    <3>2. /\ \A u \in Ends : SaysNoAudio(wire[u], wire'[u])
      BY <1>0, <1>1, <1>2, <1>3, <1>6, <2>1, HandshakeIsNoAudio
    <3>3. AfterProof(wire[o]) => AfterProof(wire'[o])
      BY <1>2, <1>3, <2>1, HandshakeIsNoAudio
    <3>4. AfterProof(wire[e]) => AfterProof(wire'[e])
      BY <1>1, <1>2, <1>6, LessIsOffered
    <3>5. AudioRoles' /\ AudioOffer' /\ AudioAnswer'
      BY <1>0, <1>1, <3>2, <3>3, <3>4, AudioThroughHandshake DEF audioVars, fixed, budget
    <3> QED BY <3>1, <3>5 DEF Inv
<1>14. CASE ~(e \in nonces /\ Up(links[o]))
  <2>1. wire'[o] = wire[o] BY <1>6, <1>14
  <2>2. Talk(o)' BY <1>0, <1>1, <1>5, <1>14, <2>1 DEF Inv, Talk
  <2>3. Names(o)' BY <1>0, <1>1, <1>5, <2>1 DEF Inv, Names
  <2>4. \A u \in Ends : Talk(u)' /\ Names(u)' BY <1>0, <1>11, <1>12, <2>2, <2>3
  <2>5. /\ \A u \in Ends : SaysNoAudio(wire[u], wire'[u])
    BY <1>0, <1>1, <1>2, <1>6, <2>1, HandshakeIsNoAudio
  <2>6. AfterProof(wire[e]) => AfterProof(wire'[e])
    BY <1>1, <1>2, <1>6, LessIsOffered
  <2>7. AudioRoles' /\ AudioOffer' /\ AudioAnswer'
    BY <1>0, <1>1, <2>1, <2>5, <2>6, AudioThroughHandshake DEF audioVars, fixed, budget
  <2> QED BY <2>4, <2>7 DEF Inv
<1> QED BY <1>13, <1>14

\* An end reads a proof: the link opens, or another name was signed.
LEMMA ProofKeeps ==
  ASSUME Inv, Stand', NEW e \in Ends, handlePeerProof(e)
  PROVE  Inv'
<1> DEFINE o == Other(e)
           p == [links[e] EXCEPT !.hello = TRUE]
           l == HandshakeOpened(p)
           opens == l.open /\ ~links[e].open
<1>0. o \in Ends /\ Other(o) = e /\ o # e /\ \A u \in Ends : u = e \/ u = o BY TwoEnds
<1>1. /\ Up(links[e]) /\ links[e].control /\ wire[e] # <<>> /\ Head(wire[e]).type = "proof"
      /\ NoTrouble /\ (faults => faults')
  BY FaultsStay DEF handlePeerProof, Receive
<1>2. wire[e] \in Seq(Packets) /\ wire[o] \in Seq(Packets) BY <1>0 DEF Inv, Stand, TypeOK
<1>3. \A t : Has(wire[e], t) <=> "proof" = t \/ Has(Tail(wire[e]), t)
  BY <1>1, <1>2, HasFacts
<1>4. e \in nonces BY <1>3 DEF Inv, Talk
<1>5. /\ heard[e] # None
      /\ Named(wire[e], heard[e]) => Head(wire[e]).name = heard[e]
      /\ Introduced(Tail(wire[e]), heard[e])
      /\ Told(wire[e], heard[e]) => Told(Tail(wire[e]), heard[e])
      /\ \A n : Latest(wire[e], heard[e], n) => Latest(Tail(wire[e]), heard[e], n)
      /\ Named(wire[e], heard[e]) => Named(Tail(wire[e]), heard[e])
  <2>1. heard[e] = IF Head(wire[e]).type = "hello" THEN Head(wire[e]).name ELSE heard[e]
    BY <1>1
  <2>2. Introduced(wire[e], heard[e]) BY DEF Inv, Talk
  <2> QED BY <1>1, <1>2, <2>1, <2>2, LessIsTold, LinkAssumption
<1>6. CASE Head(wire[e]).name # heard[e]
  <2>1. renamedEarly BY <1>5, <1>6 DEF Inv, Names
  <2>2. discard(e, "key") BY <1>4, <1>5, <1>6 DEF handlePeerProof
  <2> QED BY <1>1, <2>1, <2>2, RemovalKeeps DEF discard, fail, Over
<1>7. CASE Head(wire[e]).name = heard[e]
  <2>1. /\ setLink(e, l, IF opens THEN None ELSE deadline[e])
        /\ audio' = [audio EXCEPT ![e] =
                        IF opens /\ e = initiator THEN "CreatingOffer" ELSE audio[e]]
        /\ read(e, <<>>)
        /\ UNCHANGED <<helloVars, described, negotiation, fixed>>
    BY <1>4, <1>5, <1>7 DEF handlePeerProof
  <2>2. links[e] \in Link /\ links[e].transportOpen
    BY <1>4 DEF Inv, Stand, TypeOK, Staged
  <2>3. p \in Link /\ p.hello /\ p.transportOpen /\ p.open = links[e].open
    BY <2>2 DEF Link
  <2>4. l = IF ~links[e].open THEN [p EXCEPT !.open = TRUE, !.state = "Connected"] ELSE p
    BY <2>3 DEF HandshakeOpened
  <2>5. /\ l.hello /\ l.open /\ l.transportOpen
        /\ l.control = links[e].control /\ l.lastError = links[e].lastError
        /\ l.state = "Connected" \/ l.state = links[e].state
    <3>1. CASE links[e].open BY <2>2, <2>3, <2>4, <3>1 DEF Link
    <3>2. CASE ~links[e].open
      <4>1. l = [p EXCEPT !.open = TRUE, !.state = "Connected"] BY <2>4, <3>2
      <4>2. p.control = links[e].control /\ p.lastError = links[e].lastError
        BY <2>2 DEF Link
      <4> HIDE DEF l, p
      <4> QED BY <2>3, <3>2, <4>1, <4>2 DEF Link
    <3> QED BY <3>1, <3>2
  <2> HIDE DEF l
  <2>6. links'[e] = l /\ links'[o] = links[o]
    BY <1>0, <2>1 DEF setLink, Inv, Stand, TypeOK
  <2>7. Up(links'[e]) /\ ~Gone(links'[e]) /\ ~Gone(links[e])
    BY <1>1, <2>5, <2>6 DEF Up, Gone, Over
  <2>8. wire'[e] = Tail(wire[e]) /\ wire'[o] = wire[o]
    <3>1. <<>> \in Seq(Packets) OBVIOUS
    <3>2. wire'[e] = Tail(wire[e]) /\ wire'[o] = sendTo(e, <<>>)
      BY <1>1, <2>1, <3>1, WireTypes DEF Inv, Stand
    <3>3. sendTo(e, <<>>) = wire[o] BY NothingToTheGone DEF Inv
    <3> QED BY <3>2, <3>3
  <2>9. UNCHANGED <<name, nonces, heard, renamedEarly, described, negotiation, initiator>>
    BY <2>1 DEF helloVars, fixed
  <2>10. o \in nonces \/ Gone(links[o]) BY <1>5 DEF Inv, Talk
  <2>11. Talk(e)'
    BY <1>0, <1>1, <1>4, <1>5, <2>5, <2>6, <2>7, <2>8, <2>9, <2>10 DEF Inv, Talk
  <2>12. Talk(o)' BY <1>0, <1>1, <2>6, <2>7, <2>8, <2>9 DEF Inv, Talk
  <2>13. Names(e)' BY <1>0, <1>1, <1>5, <2>5, <2>6, <2>8, <2>9 DEF Inv, Names
  <2>14. Names(o)' BY <1>0, <2>5, <2>6, <2>8, <2>9 DEF Inv, Names
  <2>15. \A u \in Ends : Talk(u)' /\ Names(u)' BY <1>0, <2>11, <2>12, <2>13, <2>14
  <2>16. AudioRoles' /\ AudioOffer' /\ AudioAnswer'
    <3>1. \A u \in Ends : SaysNoAudio(wire[u], wire'[u])
      BY <1>0, <1>1, <1>2, <2>8, HandshakeIsNoAudio
    <3>2. \A u \in Ends : links'[u].open \/ (AfterProof(wire[u]) => AfterProof(wire'[u]))
      BY <1>0, <2>5, <2>6, <2>8
    <3>3. \A u \in Ends : u # e => audio'[u] = audio[u]
      BY <2>1 DEF Inv, Stand, TypeOK
    <3>4. \/ audio'[e] = audio[e]
          \/ /\ ~links[e].open /\ links'[e].open
             /\ e = initiator /\ audio'[e] = "CreatingOffer"
      BY <2>1, <2>5, <2>6 DEF Inv, Stand, TypeOK
    <3>5. /\ \A u \in Ends : links[u].open => links'[u].open
          /\ \A u \in Ends : Gone(links'[u]) <=> Gone(links[u])
          /\ \A u \in Ends : Up(links'[u]) => Up(links[u])
          /\ \A u \in Ends : links'[u].transportOpen /\ ~links'[u].control =>
                               links[u].transportOpen /\ ~links[u].control
      BY <1>0, <1>1, <2>5, <2>6, <2>7
    <3> QED BY <1>1, <2>9, <3>1, <3>2, <3>3, <3>4, <3>5, AudioThroughHandshake
  <2> QED BY <2>15, <2>16 DEF Inv
<1> QED BY <1>6, <1>7

\* A user changes names: an open link is told at once, one that has not said
\* hello yet says the new name, and one in between may break.
LEMMA RenameKeeps ==
  ASSUME Inv, Stand', NEW e \in Ends, Rename(e)
  PROVE  Inv'
<1> DEFINE o == Other(e)
           n == name[e] + 1
           s == wire[o]
           q == Append(s, Hello(n))
           r == Append(q, Proof(n))
<1>0. o \in Ends /\ Other(o) = e /\ o # e /\ \A u \in Ends : u = e \/ u = o BY TwoEnds
<1>1. /\ Up(links[e])
      /\ renamedEarly' = (renamedEarly \/ (e \in nonces /\ ~links[e].open))
      /\ UNCHANGED <<links, nonces, heard, audio, described, negotiation, initiator>>
      /\ faults => faults'
  BY FaultsStay DEF Rename, linkVars, audioVars, fixed
<1>2. name'[e] = n /\ name'[o] = name[o] /\ n \in Nat /\ s \in Seq(Packets)
  BY <1>0 DEF Rename, Inv, Stand, TypeOK
<1>3. links[e].open => heard[e] # None /\ e \in nonces /\ (Up(links[o]) => o \in nonces)
  BY DEF Inv, Talk, Stand, Staged, Up, Gone
<1>4. links[e].transportOpen <=> e \in nonces BY DEF Inv, Stand, Staged
<1>5. CASE links[e].open /\ links[e].control /\ Up(links[o])
  <2>1. wire'[e] = wire[e] /\ wire'[o] = r
    <3>1. Hello(n) \in Packets /\ Proof(n) \in Packets BY <1>2, PacketTypes
    <3>2. s \o renameTo(e) = r BY <1>2, <3>1, TwoMore DEF renameTo
    <3>3. wire' = [wire EXCEPT ![o] = sendTo(e, renameTo(e))] BY <1>5 DEF Rename
    <3> QED BY <1>0, <1>5, <3>2, <3>3, ZenonT(30) DEF sendTo, Inv, Stand, TypeOK
  <2>2. /\ r # <<>>
        /\ Introduced(s, heard[o]) => Introduced(r, heard[o])
        /\ Told(r, heard[o]) /\ Latest(r, heard[o], n)
        /\ Named(s, heard[o]) => Named(r, heard[o])
        /\ Has(r, "proof") /\ SaysNoAudio(s, r)
        /\ AfterProof(s) => AfterProof(r)
    BY <1>2, HelloAndProof
  <2> HIDE DEF q, r
  <2>3. Talk(e)' BY <1>0, <1>1, <2>1 DEF Inv, Talk
  <2>4. Talk(o)' BY <1>0, <1>1, <1>3, <1>5, <2>1, <2>2 DEF Inv, Talk
  <2>5. Names(e)' BY <1>0, <1>1, <1>2, <2>1 DEF Inv, Names
  <2>6. Names(o)' BY <1>0, <1>1, <1>2, <1>3, <2>1, <2>2 DEF Inv, Names
  <2>7. AudioRoles' /\ AudioOffer' /\ AudioAnswer'
    <3>1. /\ \A u \in Ends : SaysNoAudio(wire[u], wire'[u])
          /\ \A u \in Ends : AfterProof(wire[u]) => AfterProof(wire'[u])
      BY <1>0, <2>1, <2>2, HandshakeIsNoAudio
    <3> QED BY <1>1, <3>1, AudioThroughHandshake
  <2> QED BY <1>0, <2>3, <2>4, <2>5, <2>6, <2>7 DEF Inv
<1>6. CASE ~(links[e].open /\ links[e].control /\ Up(links[o]))
  <2>1. wire' = wire
    <3>1. ~Up(links[o]) => wire[o] = <<>> /\ sendTo(e, renameTo(e)) = <<>>
      BY <1>0 DEF Inv, Talk, sendTo
    <3> QED BY <1>0, <1>6, <3>1 DEF Rename, Inv, Stand, TypeOK
  <2>2. \A u \in Ends : Talk(u)' BY <1>1, <2>1 DEF Inv, Talk
  <2>3. Names(e)' BY <1>0, <1>1, <1>2, <2>1 DEF Inv, Names
  <2>4. Names(o)' BY <1>0, <1>1, <1>2, <1>6, <2>1 DEF Inv, Names
  <2>5. AudioRoles' /\ AudioOffer' /\ AudioAnswer'
    <3>1. \A u \in Ends : SaysNoAudio(wire[u], wire'[u]) BY <2>1, HandshakeIsNoAudio
    <3> QED BY <1>1, <2>1, <3>1, AudioThroughHandshake
  <2> QED BY <1>0, <2>2, <2>3, <2>4, <2>5 DEF Inv
<1> QED BY <1>5, <1>6

\* The audio packets leave what is told of names and keys alone.
LEMMA AudioIsNoTalk ==
  ASSUME Inv, UNCHANGED <<links, helloVars>>, NEW u \in Ends,
         \/ wire'[u] = wire[u]
         \/ /\ wire[u] # <<>> /\ Head(wire[u]).type \in {"offer", "answer"}
            /\ wire'[u] = Tail(wire[u])
         \/ /\ Up(links[u]) /\ Other(u) \in nonces
            /\ \E p \in Packets : /\ p.type \in {"offer", "answer"}
                                  /\ wire'[u] = Append(wire[u], p)
  PROVE  Talk(u)' /\ Names(u)'
<1> DEFINE s == wire[u]
           h == heard[u]
<1>0. UNCHANGED <<name, nonces, heard, renamedEarly, links>> BY DEF helloVars
<1>1. s \in Seq(Packets) /\ Talk(u) /\ Names(u) BY DEF Inv, Stand, TypeOK
<1>2. CASE wire'[u] = s BY <1>0, <1>1, <1>2 DEF Talk, Names
<1>3. CASE s # <<>> /\ Head(s).type \in {"offer", "answer"} /\ wire'[u] = Tail(s)
  <2>1. Head(s).type # "hello" /\ Head(s).type # "proof" BY <1>3
  <2>2. /\ Introduced(s, h) => Introduced(Tail(s), h)
        /\ Told(s, h) => Told(Tail(s), h)
        /\ \A n : Latest(s, h, n) => Latest(Tail(s), h, n)
        /\ Named(s, h) => Named(Tail(s), h)
    <3>1. h = IF Head(s).type = "hello" THEN Head(s).name ELSE h BY <2>1
    <3> QED BY <1>1, <1>3, <3>1, LessIsTold, LinkAssumption
  <2>3. Has(Tail(s), "proof") <=> Has(s, "proof") BY <1>1, <1>3, <2>1, HasFacts
  <2> QED BY <1>0, <1>1, <1>3, <2>2, <2>3 DEF Talk, Names
<1>4. ASSUME Up(links[u]), Other(u) \in nonces,
             NEW p \in Packets, p.type \in {"offer", "answer"}, wire'[u] = Append(s, p)
      PROVE  Talk(u)' /\ Names(u)'
  <2> DEFINE r == Append(s, p)
  <2>1. p.type # "hello" /\ p.type # "proof" BY <1>4
  <2>2. /\ Introduced(s, h) => Introduced(r, h)
        /\ Told(s, h) => Told(r, h)
        /\ \A n : Latest(s, h, n) => Latest(r, h, n)
        /\ Named(s, h) => Named(r, h)
    BY <1>1, <2>1, MoreIsTold
  <2>3. Has(r, "proof") <=> Has(s, "proof")
    <3>1. \A t : Has(r, t) <=> Has(s, t) \/ p.type = t BY <1>1, HasFacts
    <3> QED BY <3>1, <2>1
  <2> HIDE DEF r
  <2>4. wire'[u] = r BY <1>4 DEF r
  <2> QED BY <1>0, <1>1, <1>4, <2>2, <2>3, <2>4 DEF Talk, Names
<1> QED BY <1>2, <1>3, <1>4

\* A description is made, or its making fails.
LEMMA DescriptionKeeps ==
  ASSUME Inv, Stand', NEW e \in Ends, AudioDescribed(e) \/ AudioFails(e)
  PROVE  Inv'
<1> DEFINE i == initiator
           o == Other(i)
<1>0. i \in Ends /\ o \in Ends /\ o # i /\ Other(o) = i /\ (e = i \/ e = o)
  BY TwoEnds DEF Inv, Stand, TypeOK
<1>1. UNCHANGED <<links, helloVars, negotiation, wire, initiator>>
  BY DEF AudioDescribed, AudioFails, linkVars, fixed
<1>2. \A u \in Ends : Talk(u)' /\ Names(u)' BY <1>1, AudioIsNoTalk
<1>3. audio[e] \in {"CreatingOffer", "CreatingAnswer"}
  BY DEF AudioDescribed, AudioFails
<1>4. \A u \in Ends : u # e => audio'[u] = audio[u] /\ described'[u] = described[u]
  <2>1. CASE AudioDescribed(e) BY <2>1 DEF AudioDescribed, Inv, Stand, TypeOK
  <2>2. CASE AudioFails(e) BY <2>2 DEF AudioFails, Inv, Stand, TypeOK
  <2> QED BY <2>1, <2>2
<1>5. /\ audio[i] = "CreatingOffer" => negotiation[i] = 0
      /\ audio[o] = "CreatingAnswer" => negotiation[o] = 1
  BY DEF Inv, AudioOffer, AudioAnswer
<1>6. CASE AudioDescribed(e)
  <2>1. faults' = faults BY <1>6 DEF AudioDescribed, budget
  <2>2. CASE e = i
    <3>1. audio[i] = "CreatingOffer" BY <1>3, <2>2 DEF Inv, AudioRoles
    <3>2. audio'[i] = "AwaitingAnswer" /\ described'[i] = "offer"
      BY <1>0, <1>6, <2>2, <3>1 DEF AudioDescribed, Inv, Stand, TypeOK
    <3>3. AudioRoles'
      BY <1>0, <1>1, <1>4, <2>1, <2>2, <3>1, <3>2 DEF Inv, AudioRoles
    <3>4. AudioOffer' BY <1>0, <1>1, <1>4, <1>5, <2>2, <3>1, <3>2 DEF Inv, AudioOffer
    <3>5. AudioAnswer' BY <1>0, <1>1, <1>4, <2>2, <3>2 DEF Inv, AudioAnswer
    <3> QED BY <1>2, <3>3, <3>4, <3>5 DEF Inv
  <2>3. CASE e = o
    <3>1. audio[o] = "CreatingAnswer" BY <1>3, <2>3 DEF Inv, AudioRoles
    <3>2. audio'[o] = "Idle" /\ described'[o] = "answer"
      BY <1>0, <1>6, <2>3, <3>1 DEF AudioDescribed, Inv, Stand, TypeOK
    <3>3. AudioRoles'
      BY <1>0, <1>1, <1>4, <2>1, <2>3, <3>1, <3>2 DEF Inv, AudioRoles
    <3>4. AudioOffer' BY <1>0, <1>1, <1>4, <1>5, <2>3, <3>1, <3>2 DEF Inv, AudioOffer
    <3>5. AudioAnswer' BY <1>0, <1>1, <1>4, <1>5, <2>1, <2>3, <3>1, <3>2 DEF Inv, AudioAnswer
    <3> QED BY <1>2, <3>3, <3>4, <3>5 DEF Inv
  <2> QED BY <1>0, <2>2, <2>3
<1>7. CASE AudioFails(e)
  <2>1. faults' /\ described' = described BY <1>7 DEF AudioFails, Fault
  <2>2. audio'[e] = "Idle" BY <1>7 DEF AudioFails, Inv, Stand, TypeOK
  <2>3. AudioRoles' BY <1>0, <1>1, <1>4, <2>1, <2>2 DEF Inv, AudioRoles
  <2>4. AudioOffer' BY <1>0, <1>1, <1>4, <2>1, <2>2 DEF Inv, AudioOffer
  <2>5. AudioAnswer' BY <1>0, <1>1, <1>4, <2>1, <2>2 DEF Inv, AudioAnswer
  <2> QED BY <1>2, <2>3, <2>4, <2>5 DEF Inv
<1> QED BY <1>6, <1>7

\* A description is sent, if the channel is there to send it on.
LEMMA DescriptionSentKeeps ==
  ASSUME Inv, Stand', NEW e \in Ends, audioDescriptionReady(e)
  PROVE  Inv'
<1> DEFINE i == initiator
           o == Other(i)
           u == Other(e)
           offer == described[e] = "offer"
           k == negotiation[e] + 1
           p == IF offer THEN Offer(k) ELSE Answer(negotiation[e])
<1>0. /\ i \in Ends /\ o \in Ends /\ o # i /\ Other(o) = i
      /\ u \in Ends /\ u # e /\ Other(u) = e
      /\ (e = i /\ u = o) \/ (e = o /\ u = i)
      /\ \A x \in Ends : x = i \/ x = o
  BY TwoEnds DEF Inv, Stand, TypeOK
<1>1. /\ UNCHANGED <<links, helloVars, audio, initiator, faults>>
      /\ described[e] # None
  BY DEF audioDescriptionReady, linkVars, fixed, budget
<1>2. /\ described'[e] = None /\ described'[u] = described[u]
      /\ negotiation'[e] = (IF offer THEN k ELSE negotiation[e])
      /\ negotiation'[u] = negotiation[u]
      /\ wire' = IF links[e].control THEN [wire EXCEPT ![u] = sendTo(e, <<p>>)] ELSE wire
  <2>1. /\ described' = [described EXCEPT ![e] = None]
        /\ negotiation' = [negotiation EXCEPT ![e] = IF offer THEN k ELSE negotiation[e]]
    BY DEF audioDescriptionReady
  <2>2. wire' = IF links[e].control THEN [wire EXCEPT ![u] = sendTo(e, <<p>>)] ELSE wire
    BY DEF audioDescriptionReady, send
  <2> HIDE DEF k, p, offer
  <2> QED BY <1>0, <2>1, <2>2 DEF Inv, Stand, TypeOK
<1>3. links[e].open /\ links[e].transportOpen /\ e \in nonces /\ heard[e] # None
  BY <1>1 DEF Inv, AudioRoles, Stand, Staged, Talk
<1>4. wire[e] \in Seq(Packets) /\ wire[u] \in Seq(Packets) /\ negotiation[e] \in Nat
  BY <1>0 DEF Inv, Stand, TypeOK
<1>5. p \in Packets /\ p.type = (IF offer THEN "offer" ELSE "answer")
  <2>1. k \in Nat BY <1>4
  <2>2. Offer(k) \in Packets /\ Answer(negotiation[e]) \in Packets
    BY <1>4, <2>1, PacketTypes
  <2>3. Offer(k).type = "offer" /\ Answer(negotiation[e]).type = "answer"
    BY DEF Offer, Answer
  <2> QED BY <2>2, <2>3
<1>6. wire'[e] = wire[e] BY <1>0, <1>2 DEF Inv, Stand, TypeOK
<1>7. \/ /\ links[e].control /\ Up(links[u]) /\ wire'[u] = Append(wire[u], p)
      \/ /\ ~links[e].control \/ ~Up(links[u])
         /\ wire'[u] = wire[u]
  <2>1. ~Up(links[u]) => wire[u] = <<>> BY <1>0 DEF Inv, Talk
  <2>2. wire[u] \o <<p>> = Append(wire[u], p) BY <1>4, <1>5
  <2> HIDE DEF p
  <2> QED BY <1>0, <1>2, <2>1, <2>2 DEF sendTo, Inv, Stand, TypeOK
<1> HIDE DEF p
<1>8. \A x \in Ends : Talk(x)' /\ Names(x)'
  <2>1. p.type \in {"offer", "answer"} BY <1>5
  <2>2. Talk(u)' /\ Names(u)' BY <1>0, <1>1, <1>3, <1>5, <1>7, <2>1, AudioIsNoTalk
  <2>3. Talk(e)' /\ Names(e)' BY <1>1, <1>6, AudioIsNoTalk
  <2> QED BY <1>0, <2>2, <2>3
<1>9. ~links[e].control /\ ~faults => Gone(links[u])
  BY <1>0, <1>3 DEF Inv, AudioRoles
<1>10. CASE e = i
  <2>1. described[i] = "offer" /\ negotiation[i] = 0
    BY <1>1, <1>10 DEF Inv, AudioRoles, AudioOffer
  <2>2. p = Offer(1) /\ p.type = "offer" /\ negotiation'[i] = 1
    BY <1>2, <1>5, <1>10, <2>1 DEF p
  <2>3. ~Gone(links[i]) BY <1>3, <1>10 DEF Inv, Stand, Staged, Up, Gone
  <2>4. ~Has(wire[o], "offer") BY <2>1, <2>3 DEF Inv, AudioOffer
  <2>5. audio[o] = "Idle" /\ described[o] = None /\ negotiation[o] = 0
    BY <2>1, <2>3 DEF Inv, AudioRoles, AudioAnswer
  <2>6. audio[i] # "CreatingOffer" BY <1>1, <1>10 DEF Inv, AudioOffer
  <2>7. CASE links[i].control /\ Up(links[o]) /\ wire'[o] = Append(wire[o], p)
    <3>1. \A t : Has(wire'[o], t) <=> Has(wire[o], t) \/ p.type = t
      <4>1. \A t : Has(Append(wire[o], p), t) <=> Has(wire[o], t) \/ p.type = t
        BY <1>0, <1>4, <1>5, <1>10, HasFacts
      <4> QED BY <2>7, <4>1
    <3>2. Has(wire'[o], "offer") /\ (Has(wire'[o], "answer") <=> Has(wire[o], "answer"))
      BY <2>2, <3>1
    <3>3. links[o].open \/ Has(wire[o], "proof")
      BY <1>0, <1>3, <1>10, <2>7 DEF Inv, Talk, Stand, Staged
    <3>4. /\ OneOffer(wire[o]) => OneOffer(wire'[o])
          /\ AfterProof(wire[o]) /\ Has(wire[o], "proof") => AfterProof(wire'[o])
      BY <1>0, <1>4, <1>5, <1>10, <2>2, <2>4, <2>7, MoreIsOffered
    <3>5. AudioRoles'
      BY <1>0, <1>1, <1>2, <1>3, <1>6, <1>10, <2>1, <2>2, <3>2 DEF Inv, AudioRoles
    <3>6. AudioOffer'
      BY <1>0, <1>1, <1>2, <1>6, <1>10, <2>2, <2>5, <2>6, <3>3, <3>4, NoneAssumption
      DEF Inv, AudioOffer
    <3>7. AudioAnswer'
      BY <1>0, <1>1, <1>2, <1>6, <1>10, <2>2, <2>5, <3>2, NoneAssumption DEF Inv, AudioAnswer
    <3> QED BY <1>8, <3>5, <3>6, <3>7 DEF Inv
  <2>8. CASE (~links[i].control \/ ~Up(links[o])) /\ wire'[o] = wire[o]
    <3>1. Up(links[o]) => faults
      BY <1>0, <1>9, <1>10, <2>8 DEF Up, Gone
    <3>2. AudioRoles'
      BY <1>0, <1>1, <1>2, <1>3, <1>6, <1>10, <2>1, <2>2, <2>8 DEF Inv, AudioRoles
    <3>3. AudioOffer'
      BY <1>0, <1>1, <1>2, <1>6, <1>10, <2>2, <2>5, <2>6, <2>8, NoneAssumption
      DEF Inv, AudioOffer
    <3>4. AudioAnswer'
      BY <1>0, <1>1, <1>2, <1>6, <1>10, <2>2, <2>5, <2>8, <3>1, NoneAssumption
      DEF Inv, AudioAnswer
    <3> QED BY <1>8, <3>2, <3>3, <3>4 DEF Inv
  <2> QED BY <1>0, <1>7, <1>10, <2>7, <2>8
<1>11. CASE e = o
  <2>1. described[o] = "answer" /\ negotiation[o] = 1
    BY <1>1, <1>11 DEF Inv, AudioRoles, AudioAnswer
  <2>2. p = Answer(1) /\ p.type = "answer" /\ negotiation'[o] = 1
    BY <1>2, <1>5, <1>11, <2>1, NoneAssumption DEF p
  <2>3. negotiation[i] = 1 \/ Gone(links[i]) BY <2>1 DEF Inv, AudioAnswer
  <2>4. ~Has(wire[o], "offer") BY <2>1, NoneAssumption DEF Inv, AudioOffer
  <2>5. links[o].open BY <1>3, <1>11
  <2>6. CASE links[o].control /\ Up(links[i]) /\ wire'[i] = Append(wire[i], p)
    <3>1. \A t : Has(wire'[i], t) <=> Has(wire[i], t) \/ p.type = t
      <4>1. \A t : Has(Append(wire[i], p), t) <=> Has(wire[i], t) \/ p.type = t
        BY <1>0, <1>4, <1>5, <1>11, HasFacts
      <4> QED BY <2>6, <4>1
    <3>2. Has(wire'[i], "answer") /\ (Has(wire'[i], "offer") <=> Has(wire[i], "offer"))
      BY <2>2, <3>1
    <3>3. AnswersOne(wire[i]) => AnswersOne(wire'[i])
      BY <1>0, <1>4, <1>5, <1>11, <2>2, <2>6, MoreIsOffered
    <3>4. negotiation[i] = 1 BY <2>3, <2>6 DEF Up, Gone
    <3>5. AudioRoles'
      BY <1>0, <1>1, <1>2, <1>3, <1>6, <1>11, <2>1, <2>2, <3>2 DEF Inv, AudioRoles
    <3>6. AudioOffer'
      BY <1>0, <1>1, <1>2, <1>6, <1>11, <2>2, <2>4, <2>5 DEF Inv, AudioOffer
    <3>7. AudioAnswer'
      BY <1>0, <1>1, <1>2, <1>6, <1>11, <2>2, <3>2, <3>3, <3>4 DEF Inv, AudioAnswer
    <3> QED BY <1>8, <3>5, <3>6, <3>7 DEF Inv
  <2>7. CASE (~links[o].control \/ ~Up(links[i])) /\ wire'[i] = wire[i]
    <3>1. audio[i] = "AwaitingAnswer" => faults
      <4>1. audio[i] = "AwaitingAnswer" => Up(links[i]) /\ ~Gone(links[i])
        BY <1>0 DEF Inv, AudioRoles, Stand, Staged, Up, Gone
      <4> QED BY <1>0, <1>9, <1>11, <2>7, <4>1
    <3>2. AudioRoles'
      BY <1>0, <1>1, <1>2, <1>3, <1>6, <1>11, <2>1, <2>2, <2>7 DEF Inv, AudioRoles
    <3>3. AudioOffer'
      BY <1>0, <1>1, <1>2, <1>6, <1>11, <2>2, <2>4, <2>5, <2>7 DEF Inv, AudioOffer
    <3>4. AudioAnswer'
      BY <1>0, <1>1, <1>2, <1>6, <1>11, <2>2, <2>3, <2>7, <3>1 DEF Inv, AudioAnswer
    <3> QED BY <1>8, <3>2, <3>3, <3>4 DEF Inv
  <2> QED BY <1>0, <1>7, <1>11, <2>6, <2>7
<1> QED BY <1>0, <1>10, <1>11

\* The offer is heard, by an end whose link is open.
LEMMA OfferKeeps ==
  ASSUME Inv, Stand', NEW e \in Ends, handleSessionOffer(e)
  PROVE  Inv'
<1> DEFINE i == initiator
           o == Other(i)
<1>0. /\ i \in Ends /\ o \in Ends /\ o # i /\ Other(o) = i /\ (e = i \/ e = o)
      /\ \A x \in Ends : x = i \/ x = o
  BY TwoEnds DEF Inv, Stand, TypeOK
<1>1. /\ wire[e] # <<>> /\ Head(wire[e]).type = "offer" /\ read(e, <<>>)
      /\ UNCHANGED <<links, helloVars, described, initiator, faults>>
  BY DEF handleSessionOffer, Receive, linkVars, fixed, budget
<1>2. wire[e] \in Seq(Packets) BY DEF Inv, Stand, TypeOK
<1>3. \A t : Has(wire[e], t) <=> "offer" = t \/ Has(Tail(wire[e]), t)
  BY <1>1, <1>2, HasFacts
<1>4. e = o BY <1>0, <1>3 DEF Inv, AudioRoles
<1>5. /\ OneOffer(Tail(wire[o])) /\ Head(wire[o]) = Offer(1) /\ ~Has(Tail(wire[o]), "offer")
      /\ ~AfterProof(wire[o])
  BY <1>1, <1>2, <1>4, LessIsOffered DEF Inv, AudioOffer
<1>6. links[o].open /\ Up(links[o]) BY <1>0, <1>5 DEF Inv, AudioOffer, Stand, Staged
<1>7. /\ audio[o] = "Idle" /\ described[o] = None /\ negotiation[o] = 0
      /\ negotiation[i] = 1 \/ Gone(links[i])
  BY <1>3, <1>4 DEF Inv, AudioOffer
<1>8. /\ negotiation'[o] = 1 /\ negotiation'[i] = negotiation[i]
      /\ audio'[o] = "CreatingAnswer" /\ audio'[i] = audio[i]
  <2>1. Head(wire[o]).negotiation = 1 BY <1>5 DEF Offer
  <2>2. /\ negotiation' = [negotiation EXCEPT ![o] = Head(wire[o]).negotiation]
        /\ audio' = [audio EXCEPT ![o] = IF audio[o] = "Idle" THEN "CreatingAnswer" ELSE audio[o]]
    BY <1>4, <1>6 DEF handleSessionOffer, noteNegotiation
  <2> QED BY <1>0, <1>7, <2>1, <2>2 DEF Inv, Stand, TypeOK
<1>9. wire'[o] = Tail(wire[o]) /\ wire'[i] = wire[i]
  <2>1. <<>> \in Seq(Packets) OBVIOUS
  <2>2. wire'[e] = Tail(wire[e]) /\ wire'[Other(e)] = sendTo(e, <<>>)
    BY <1>1, <2>1, WireTypes DEF Inv, Stand
  <2> QED BY <1>0, <1>4, <2>2, NothingToTheGone
<1>10. \A u \in Ends : Talk(u)' /\ Names(u)'
  <2>1. Head(wire[o]).type \in {"offer", "answer"} BY <1>1, <1>4
  <2>2. Talk(o)' /\ Names(o)' BY <1>0, <1>1, <1>4, <1>9, <2>1, AudioIsNoTalk
  <2>3. Talk(i)' /\ Names(i)' BY <1>0, <1>1, <1>9, AudioIsNoTalk
  <2> QED BY <1>0, <1>1, <2>2, <2>3
<1>11. AudioRoles'
  BY <1>0, <1>1, <1>3, <1>4, <1>6, <1>7, <1>8, <1>9 DEF Inv, AudioRoles
<1>12. AudioOffer' BY <1>0, <1>1, <1>5, <1>6, <1>8, <1>9 DEF Inv, AudioOffer
<1>13. AudioAnswer' BY <1>0, <1>1, <1>7, <1>8, <1>9 DEF Inv, AudioAnswer
<1> QED BY <1>10, <1>11, <1>12, <1>13 DEF Inv

\* The answer is heard: nobody waits for one any more.
LEMMA AnswerKeeps ==
  ASSUME Inv, Stand', NEW e \in Ends, handleSessionAnswer(e)
  PROVE  Inv'
<1> DEFINE i == initiator
           o == Other(i)
<1>0. /\ i \in Ends /\ o \in Ends /\ o # i /\ Other(o) = i /\ (e = i \/ e = o)
      /\ \A x \in Ends : x = i \/ x = o
  BY TwoEnds DEF Inv, Stand, TypeOK
<1>1. /\ wire[e] # <<>> /\ Head(wire[e]).type = "answer" /\ read(e, <<>>)
      /\ UNCHANGED <<links, helloVars, described, negotiation, initiator, faults>>
  BY DEF handleSessionAnswer, Receive, linkVars, fixed, budget
<1>2. wire[e] \in Seq(Packets) BY DEF Inv, Stand, TypeOK
<1>3. \A t : Has(wire[e], t) <=> "answer" = t \/ Has(Tail(wire[e]), t)
  BY <1>1, <1>2, HasFacts
<1>4. e = i BY <1>0, <1>3 DEF Inv, AudioRoles
<1>5. AnswersOne(Tail(wire[i])) /\ Head(wire[i]) = Answer(1)
  BY <1>1, <1>2, <1>4, LessIsOffered DEF Inv, AudioAnswer
<1>6. negotiation[i] = 1 BY <1>3, <1>4 DEF Inv, AudioAnswer
<1>7. /\ audio'[o] = audio[o] /\ audio'[i] # "AwaitingAnswer"
      /\ audio'[i] = audio[i] \/ audio'[i] = "Idle"
  <2>1. Head(wire[i]).negotiation = 1 BY <1>5 DEF Answer
  <2>2. audio[i] = "AwaitingAnswer" => links[i].open BY <1>0 DEF Inv, AudioRoles
  <2> QED BY <1>0, <1>4, <1>6, <2>1, <2>2
      DEF handleSessionAnswer, Inv, Stand, TypeOK
<1>8. wire'[i] = Tail(wire[i]) /\ wire'[o] = wire[o]
  <2>1. <<>> \in Seq(Packets) OBVIOUS
  <2>2. wire'[e] = Tail(wire[e]) /\ wire'[Other(e)] = sendTo(e, <<>>)
    BY <1>1, <2>1, WireTypes DEF Inv, Stand
  <2> QED BY <1>0, <1>4, <2>2, NothingToTheGone
<1>9. \A u \in Ends : Talk(u)' /\ Names(u)'
  <2>1. Head(wire[i]).type \in {"offer", "answer"} BY <1>1, <1>4
  <2>2. Talk(i)' /\ Names(i)' BY <1>0, <1>1, <1>4, <1>8, <2>1, AudioIsNoTalk
  <2>3. Talk(o)' /\ Names(o)' BY <1>0, <1>1, <1>8, AudioIsNoTalk
  <2> QED BY <1>0, <1>1, <2>2, <2>3
<1>10. AudioRoles' BY <1>0, <1>1, <1>3, <1>4, <1>7, <1>8 DEF Inv, AudioRoles
<1>11. AudioOffer' BY <1>0, <1>1, <1>7, <1>8 DEF Inv, AudioOffer
<1>12. AudioAnswer' BY <1>0, <1>1, <1>3, <1>4, <1>5, <1>6, <1>7, <1>8 DEF Inv, AudioAnswer
<1> QED BY <1>9, <1>10, <1>11, <1>12 DEF Inv

-----------------------------------------------------------------------------
(* The invariant, and what it is for.                                      *)

\* Nothing is said yet.
LEMMA InitInv == Init => Inv
<1> SUFFICES ASSUME Init PROVE Inv OBVIOUS
<1>1. Stand BY InitStand
<1>2. /\ \A t : ~Has(<<>>, t)
      /\ Introduced(<<>>, None) /\ Named(<<>>, None) /\ OneOffer(<<>>) /\ AfterProof(<<>>)
      /\ AnswersOne(<<>>)
  BY HasFacts DEF Introduced, Named, OneOffer, AfterProof, AnswersOne
<1>3. \A e \in Ends : /\ wire[e] = <<>> /\ heard[e] = None /\ links[e] = NoLink
                      /\ audio[e] = "Idle" /\ described[e] = None /\ negotiation[e] = 0
  BY DEF Init
<1>4. nonces = {} BY DEF Init
<1>5. /\ ~NoLink.hello /\ ~NoLink.transportOpen /\ NoLink.lastError = None
  BY DEF NoLink
<1>6. \A e \in Ends : Talk(e) /\ Names(e)
  BY <1>2, <1>3, <1>4, <1>5, TwoEnds, NoneAssumption DEF Talk, Names
<1>7. initiator \in Ends /\ Other(initiator) \in Ends BY TwoEnds DEF Init
<1>8. AudioRoles BY <1>2, <1>3, <1>5, <1>7 DEF AudioRoles
<1>9. AudioOffer BY <1>2, <1>3, <1>7, NoneAssumption DEF AudioOffer
<1>10. AudioAnswer BY <1>2, <1>3, <1>7, NoneAssumption DEF AudioAnswer
<1> QED BY <1>1, <1>6, <1>8, <1>9, <1>10 DEF Inv

\* Each step keeps the invariant.
LEMMA InvStep == Inv /\ [Next]_vars => Inv'
<1> SUFFICES ASSUME Inv, [Next]_vars PROVE Inv' OBVIOUS
<1>0. Stand' BY StandStep DEF Inv
<1>1. CASE startOffer \/ acceptOffer \/ acceptAnswer \/ AnswerFails \/ SignalLost
  BY <1>0, <1>1, SignalingKeeps
<1>2. ASSUME NEW e \in Ends, GatheringCompletes(e) PROVE Inv' BY <1>0, <1>2, SignalingKeeps
<1>3. ASSUME NEW e \in Ends, NEW channel \in {"control", "chat"},
             ChannelOpens(e, channel) \/ ChannelCloses(e, channel)
      PROVE  Inv'
  BY <1>0, <1>3, ChannelKeeps, TransportKeeps
<1>4. ASSUME NEW e \in Ends, handlePeerHello(e) PROVE Inv' BY <1>0, <1>4, HelloKeeps
<1>5. ASSUME NEW e \in Ends, handlePeerProof(e) PROVE Inv' BY <1>0, <1>5, ProofKeeps
<1>6. ASSUME NEW e \in Ends, Rename(e) PROVE Inv' BY <1>0, <1>6, RenameKeeps
<1>7. ASSUME NEW e \in Ends, AudioDescribed(e) \/ AudioFails(e) PROVE Inv'
  BY <1>0, <1>7, DescriptionKeeps
<1>8. ASSUME NEW e \in Ends, audioDescriptionReady(e) PROVE Inv'
  BY <1>0, <1>8, DescriptionSentKeeps
<1>9. ASSUME NEW e \in Ends, handleSessionOffer(e) PROVE Inv' BY <1>0, <1>9, OfferKeeps
<1>10. ASSUME NEW e \in Ends, handleSessionAnswer(e) PROVE Inv' BY <1>0, <1>10, AnswerKeeps
<1>11. ASSUME NEW e \in Ends,
              \/ TransportConnects(e) \/ TransportDisconnects(e) \/ TransportFails(e)
              \/ TransferChannelCloses(e)
       PROVE  Inv'
  BY <1>0, <1>11, TransportKeeps
<1>12. ASSUME NEW e \in Ends,
              \/ StartFails(e) \/ DeadlinePasses(e) \/ GracePasses(e) \/ markTimedOut(e)
              \/ Discard(e)
       PROVE  Inv'
  BY <1>0, <1>12, EndingKeeps
<1>13. CASE UNCHANGED vars
  BY <1>0, <1>13, LinksSameKeeps DEF vars, linkVars, budget
<1> QED
  BY <1>1, <1>2, <1>3, <1>4, <1>5, <1>6, <1>7, <1>8, <1>9, <1>10, <1>11, <1>12, <1>13
  DEF Next

\* What is told, named and negotiated holds in every state.
LEMMA Invariance == Spec => []Inv
<1>1. Init => Inv BY InitInv
<1>2. Inv /\ [Next]_vars => Inv' BY InvStep
<1> QED BY <1>1, <1>2, PTL DEF Spec

\* HandshakeEnds: whatever the order in which the channels opened, an end that
\* has no proof is sent one or has its hello answered with one, and no proof
\* contradicts the hello before it unless a user changed names meanwhile.
THEOREM NoHandshakeIsStuck == Spec => []HandshakeEnds
<1>1. Inv => HandshakeEnds
  <2> SUFFICES ASSUME Inv PROVE HandshakeEnds OBVIOUS
  <2>1. TypeOK BY DEF Inv, Stand
  <2>2. KeysStand BY DEF Inv, Names, KeysStand
  <2>3. ASSUME NEW e \in Ends, Up(links[e]), Up(links[Other(e)]), links[e].transportOpen,
               links[Other(e)].transportOpen, ~links[e].hello
        PROVE  Has(wire[e], "proof") \/ Has(wire[Other(e)], "hello")
    <3> DEFINE o == Other(e)
               s == wire[o]
    <3>0. o \in Ends /\ Other(o) = e BY TwoEnds
    <3>1. e \in nonces /\ o \in nonces BY <2>3, <3>0 DEF Inv, Stand, Staged
    <3>2. Told(s, heard[o]) BY <2>3, <3>0, <3>1 DEF Inv, Talk
    <3>3. heard[o] # None \/ Has(s, "hello") BY <3>2 DEF Told, Knows, Has
    <3>4. heard[o] # None => Has(wire[e], "proof") BY <2>3, <3>0, <3>1 DEF Inv, Talk
    <3> QED BY <3>3, <3>4
  <2>4. ProofIsComing BY <2>3 DEF ProofIsComing
  <2> QED BY <2>1, <2>2, <2>4 DEF HandshakeEnds
<1> QED BY <1>1, Invariance, PTL

\* AudioAnswerIsComing: an end that waits for the answer to its audio offer has
\* the offer, the answer being made or the answer itself on its way, for that
\* very negotiation, as long as nothing failed and the other end is there.
THEOREM AudioOffersAreAnswered == Spec => []AudioAnswerIsComing
<1>1. Inv => AudioAnswerIsComing
  <2> SUFFICES ASSUME Inv, NEW e \in Ends, audio[e] = "AwaitingAnswer", ~faults,
                      Up(links[Other(e)])
               PROVE  LET o == Other(e) IN
                      \/ described[e] = "offer"
                      \/ \E j \in 1..Len(wire[o]) : wire[o][j] = Offer(negotiation[e])
                      \/ negotiation[o] = negotiation[e]
                         /\ (audio[o] = "CreatingAnswer" \/ described[o] = "answer")
                      \/ \E j \in 1..Len(wire[e]) : wire[e][j] = Answer(negotiation[e])
    BY DEF AudioAnswerIsComing
  <2> DEFINE o == Other(e)
  <2>1. e = initiator /\ o \in Ends
    BY TwoEnds DEF Inv, AudioRoles, Stand, TypeOK
  <2>2. ~Gone(links[e]) BY <2>1 DEF Inv, AudioRoles, Stand, Staged, Up, Gone
  <2>3. \/ described[e] = "offer"
        \/ Has(wire[o], "offer")
        \/ negotiation[o] = 1 /\ (audio[o] = "CreatingAnswer" \/ described[o] = "answer")
        \/ Has(wire[e], "answer")
    BY <2>1 DEF Inv, AudioAnswer
  <2>4. CASE described[e] = "offer" BY <2>4
  <2>5. CASE Has(wire[o], "offer")
    <3>1. PICK j \in 1..Len(wire[o]) : wire[o][j].type = "offer" BY <2>5 DEF Has
    <3>2. wire[o][j] = Offer(1) BY <2>1, <3>1 DEF Inv, AudioOffer, OneOffer
    <3>3. negotiation[e] = 1 BY <2>1, <2>2, <2>5 DEF Inv, AudioOffer
    <3> QED BY <3>1, <3>2, <3>3
  <2>6. CASE negotiation[o] = 1 /\ (audio[o] = "CreatingAnswer" \/ described[o] = "answer")
    <3>1. negotiation[e] = 1 BY <2>1, <2>2, <2>6 DEF Inv, AudioAnswer
    <3> QED BY <2>6, <3>1
  <2>7. CASE Has(wire[e], "answer")
    <3>1. PICK j \in 1..Len(wire[e]) : wire[e][j].type = "answer" BY <2>7 DEF Has
    <3>2. wire[e][j] = Answer(1) BY <2>1, <3>1 DEF Inv, AudioAnswer, AnswersOne
    <3>3. negotiation[e] = 1 BY <2>1, <2>7 DEF Inv, AudioAnswer
    <3> QED BY <3>1, <3>2, <3>3
  <2> QED BY <2>3, <2>4, <2>5, <2>6, <2>7
<1> QED BY <1>1, Invariance, PTL

=============================================================================
