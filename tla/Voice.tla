------------------------------- MODULE Voice -------------------------------
(***************************************************************************)
(* A client's voice call: the user's commands (NetworkSession and          *)
(* VoiceSession, the main thread), the audio engine's worker, which turns   *)
(* the microphone's ten-millisecond chunks into frames of two              *)
(* (RtpAudioEngine), and the transport's worker, which takes frames to and  *)
(* from the links (AudioTransportWorker).                                  *)
(*                                                                         *)
(* A command is a list of steps of the main thread; the other threads move  *)
(* between any two of them.  There is one peer, with a link or several.     *)
(* What a chunk sounds like is a choice, as are the devices' failures.  The *)
(* flags a chunk is processed by are read at once.  What the engine does    *)
(* with a received frame, the volumes and the meters are left out.          *)
(***************************************************************************)
EXTENDS Integers, Sequences, FiniteSets, SequencesExt

CONSTANTS
  Links,         \* of the peer
  NoLink,
  Hangover,      \* chunks of silence that are still sent (vadHangoverMs)
  MaxOutgoing,   \* MaxOutgoingFrames
  MaxIncoming,   \* MaxIncomingFramesPerConnection
  MaxCommands,   \* bound: commands of the user
  MaxChanges,    \* bound: openings, renames and losses of links
  MaxPosts       \* bound: talking events that wait for the main thread

ASSUME VoiceAssumption ==
  /\ IsFiniteSet(Links) /\ Links # {} /\ NoLink \notin Links
  /\ {Hangover, MaxCommands, MaxChanges} \subseteq Nat
  /\ {MaxOutgoing, MaxIncoming, MaxPosts} \subseteq Nat \ {0}

VARIABLES
  call,      \* what the session and the voice session know (main thread)
  todo,      \* the steps the main thread has still to take
  engine,    \* the engine's atomics
  loop,      \* the engine's worker
  posted,    \* talking events on their way to the main thread
  shown,     \* the talking indicator
  gate,      \* receiveEnabled, transmitEnabled
  incoming,  \* frames received, by link
  outgoing,  \* frames to send
  carrier,   \* the transport's worker
  routes,    \* the open links, in the order of their activation
  commands, changes

vars == <<call, todo, engine, loop, posted, shown, gate, incoming, outgoing, carrier,
          routes, commands, changes>>

Modes == {"activity", "push"}

Rest == todo = <<>>

\* What of a queue came over one of the links ls, in its order (SelectSeq, as a
\* recursive function, about which something can be proved).
kept(queue, ls) ==
  LET f[i \in 0 .. Len(queue)] ==
        IF i = 0 THEN <<>>
        ELSE IF queue[i] \in ls THEN Append(f[i - 1], queue[i]) ELSE f[i - 1]
  IN  f[Len(queue)]

\* Whether what is said now may leave: updateAudioTransportGates.
canTransmit(c) ==
  c.active /\ ~c.muted /\ ~c.testing /\ (c.mode = "activity" \/ c.ptt)

-----------------------------------------------------------------------------
(* The steps a command is made of.                                         *)

Step(kind, on) == <<[kind |-> kind, on |-> on]>>
Receive(on)  == Step("receive", on)
Transmit(on) == Step("transmit", on)
Pressed(c, on) ==
  Step("pressed", on) \o (IF ~on /\ c.mode = "push" THEN Step("talking", FALSE) ELSE <<>>)
Muted(on) ==
  Step("muted", on)
    \o (IF on THEN Step("pressed", FALSE) \o Step("talking", FALSE) ELSE <<>>)
Testing(on) ==
  Step("testing", on)
    \o (IF on THEN Step("pressed", FALSE) \o Step("talking", FALSE) ELSE <<>>)
Starts == Step("start", TRUE)
Stops  == Step("stop", FALSE) \o Step("join", FALSE) \o Step("talking", FALSE)

gates(c) == Receive(c.active) \o Transmit(canTransmit(c))

\* VoiceSession::leave of a call, or of what a failure left of one.
left(c) == [c EXCEPT !.active = FALSE, !.muted = FALSE, !.ptt = FALSE,
                     !.running = @ /\ c.testing]

leave(c) ==
  IF ~c.active /\ ~c.running THEN <<>>
  ELSE Pressed(c, FALSE) \o (IF c.testing THEN <<>> ELSE Stops) \o gates(left(c))

\* A command changes what the session knows and leaves steps to take.
Do(c, steps) ==
  /\ Rest
  /\ commands < MaxCommands
  /\ commands' = commands + 1
  /\ call' = c
  /\ todo' = steps
  /\ UNCHANGED <<engine, loop, posted, shown, gate, incoming, outgoing, carrier, routes,
                 changes>>

startCall ==
  LET c == [call EXCEPT !.active = TRUE, !.muted = FALSE, !.running = TRUE]
  IN  /\ ~call.active
      /\ routes # <<>>
      /\ \/ Do(c, (IF call.running THEN <<>> ELSE Starts)
                    \o Pressed(c, FALSE) \o Muted(FALSE) \o gates(c))
         \/ ~call.running /\ Do(call, <<>>)   \* no device

leaveCall ==
  /\ call.active
  /\ Do(left(call), Receive(FALSE) \o Transmit(FALSE) \o leave(call))

setMuted(on) ==
  LET c == [call EXCEPT !.muted = on, !.ptt = @ /\ ~on]
  IN  /\ call.active /\ call.muted # on
      /\ Do(c, (IF on THEN Transmit(FALSE) \o Pressed(c, FALSE) ELSE <<>>)
                 \o Muted(on) \o gates(c) \o gates(c))

\* Faulty: the end of a test outside a call leaves the engine on.
tested_StaysOn(c, on) == [c EXCEPT !.testing = on, !.running = TRUE]

\* The microphone test keeps the engine running, in a call or not.
tested(c, on) == [c EXCEPT !.testing = on, !.running = on \/ (c.active /\ @)]

setMicrophoneTest(on) ==
  LET quiet == [call EXCEPT !.ptt = @ /\ ~on]
      hush == IF on THEN Transmit(FALSE) ELSE <<>>
      c == tested(quiet, on)
  IN  IF call.testing = on THEN Do(quiet, hush \o gates(quiet))
      ELSE \/ Do(c, hush \o (IF on /\ ~call.running THEN Starts ELSE <<>>)
                      \o Pressed(c, FALSE) \o Testing(on)
                      \o (IF call.running /\ ~c.running THEN Stops ELSE <<>>) \o gates(c))
           \/ on /\ ~call.running /\ Do(quiet, hush \o gates(quiet))   \* no device

setPttPressed(on) ==
  LET c == [call EXCEPT !.ptt = on /\ call.active /\ ~call.muted /\ ~call.testing]
  IN  Do(c, (IF c.ptt THEN <<>> ELSE Transmit(FALSE)) \o Pressed(c, c.ptt) \o gates(c))

\* New preferences restart a running engine; if it does not start, the old ones
\* are brought back, and if those do not start either, nothing runs.
applyPreferences(mode) ==
  LET quiet == [call EXCEPT !.ptt = FALSE]
      hush == Transmit(FALSE) \o Pressed(call, FALSE)
      to(m) == <<[kind |-> "mode", on |-> m]>>
      new == [quiet EXCEPT !.mode = mode]
      dead == [quiet EXCEPT !.running = FALSE]
  IN  \/ call.running /\ Do(new, hush \o Stops \o to(mode) \o Starts \o gates(new))
      \/ call.running /\ Do(quiet, hush \o Stops \o Starts \o gates(quiet))
      \/ call.running /\ Do(dead, hush \o Stops \o gates(dead))
      \/ ~call.running /\ Do(new, hush \o to(mode) \o gates(new))
      \/ ~call.running /\ Do(quiet, hush \o gates(quiet))   \* no such device

\* leaveMesh with clearSessionData: out of the call, the links discarded, the
\* test off and the engine stopped whatever it ran for.
leaveMesh ==
  LET hush == Receive(FALSE) \o Transmit(FALSE)
      out == left(call)
      clear == [out EXCEPT !.testing = FALSE]
      off == [clear EXCEPT !.running = FALSE]
  IN  Do(off, hush \o leave(call) \o Step("discard", FALSE) \o hush
                \o Pressed(clear, FALSE) \o Testing(FALSE) \o leave(clear) \o Stops)

-----------------------------------------------------------------------------
(* The main thread takes a step.                                           *)

Takes(kind) == todo # <<>> /\ Head(todo).kind = kind /\ todo' = Tail(todo)
On == Head(todo).on

\* Faulty: a gate is closed without waiting for the frames that are passing it.
gateFree_Always(kind) == TRUE

gateFree(kind) == carrier.pc # (IF kind = "receive" THEN "handing" ELSE "sending")

setReceiveEnabled ==
  /\ gateFree("receive")
  /\ Takes("receive")
  /\ gate' = [gate EXCEPT !.receive = On]
  /\ incoming' = IF On THEN incoming ELSE <<>>
  /\ UNCHANGED <<call, engine, loop, posted, shown, outgoing, carrier, routes,
                 commands, changes>>

setTransmitEnabled ==
  /\ gateFree("transmit")
  /\ Takes("transmit")
  /\ gate' = [gate EXCEPT !.transmit = On]
  /\ outgoing' = IF On THEN outgoing ELSE <<>>
  /\ UNCHANGED <<call, engine, loop, posted, shown, incoming, carrier, routes,
                 commands, changes>>

storeFlag ==
  /\ \/ Takes("muted") /\ engine' = [engine EXCEPT !.muted = On]
     \/ Takes("testing") /\ engine' = [engine EXCEPT !.testing = On]
     \/ Takes("pressed") /\ engine' = [engine EXCEPT !.pressed = On]
     \/ Takes("mode") /\ engine' = [engine EXCEPT !.mode = On]
  /\ UNCHANGED <<call, loop, posted, shown, gate, incoming, outgoing, carrier, routes,
                 commands, changes>>

\* setLocalTalking exchanges the flag, and posts an event if it was another.
setLocalTalking ==
  \/ /\ Takes("talking")
     /\ engine.talking = On
     /\ UNCHANGED <<engine, posted>>
     /\ UNCHANGED <<call, loop, shown, gate, incoming, outgoing, carrier, routes,
                    commands, changes>>
  \/ /\ todo # <<>> /\ Head(todo).kind = "talking"
     /\ engine.talking # On
     /\ engine' = [engine EXCEPT !.talking = On]
     /\ todo' = <<[Head(todo) EXCEPT !.kind = "post"]>> \o Tail(todo)
     /\ UNCHANGED <<call, loop, posted, shown, gate, incoming, outgoing, carrier, routes,
                    commands, changes>>
  \/ /\ Takes("post")
     /\ posted' = Append(posted, On)
     /\ UNCHANGED <<call, engine, loop, shown, gate, incoming, outgoing, carrier, routes,
                    commands, changes>>

FreshLoop == [pc |-> "head", stopping |-> FALSE, half |-> 0, should |-> FALSE,
              leak |-> FALSE, hang |-> 0, now |-> FALSE, off |-> FALSE, winding |-> FALSE]
NoLoop == [FreshLoop EXCEPT !.pc = "gone"]

startEngine ==
  /\ Takes("start")
  /\ engine' = [engine EXCEPT !.talking = FALSE]
  /\ loop' = FreshLoop
  /\ UNCHANGED <<call, posted, shown, gate, incoming, outgoing, carrier, routes,
                 commands, changes>>

stopEngine ==
  /\ \/ Takes("stop") /\ loop' = [loop EXCEPT !.stopping = @ \/ loop.pc # "gone"]
     \/ Takes("join") /\ loop.pc = "gone" /\ loop' = NoLoop
  /\ UNCHANGED <<call, engine, posted, shown, gate, incoming, outgoing, carrier, routes,
                 commands, changes>>

discardLinks ==
  /\ Takes("discard")
  /\ routes' = <<>>
  /\ incoming' = <<>>
  /\ UNCHANGED <<call, engine, loop, posted, shown, gate, outgoing, carrier, commands,
                 changes>>

\* Faulty: an event is shown although the flag has changed since.
talkingEvent_Trusted(on) == on

\* The event is shown if it still tells the truth.
talkingEvent(on) == IF engine.talking = on THEN on ELSE shown

deliverTalking ==
  /\ Rest
  /\ posted # <<>>
  /\ shown' = talkingEvent(Head(posted))
  /\ posted' = Tail(posted)
  /\ UNCHANGED <<call, todo, engine, loop, gate, incoming, outgoing, carrier, routes,
                 commands, changes>>

Main ==
  \/ setReceiveEnabled \/ setTransmitEnabled
  \/ storeFlag \/ setLocalTalking
  \/ startEngine \/ stopEngine \/ discardLinks
  \/ deliverTalking

-----------------------------------------------------------------------------
(* The engine's worker.                                                    *)

Closed == engine.muted \/ engine.testing

\* Faulty: a chunk is kept whatever it was recorded for.
silenced_Never(should) == FALSE

\* What of a chunk goes into the frame: nothing that is not to be heard.
silenced(should) == Closed \/ (engine.mode = "push" /\ ~should)

\* Faulty: the level of a muted microphone counts as speech.
detected_Muted(voiced) ==
  IF engine.mode = "activity" THEN voiced ELSE ~Closed /\ engine.pressed

detected(voiced) ==
  ~Closed /\ (IF engine.mode = "activity" THEN voiced ELSE engine.pressed)

Chunk(voiced) ==
  LET listens == engine.mode = "activity" /\ ~Closed
      hang == IF ~listens THEN 0
              ELSE IF voiced THEN Hangover ELSE IF loop.hang > 0 THEN loop.hang - 1 ELSE 0
      should == detected(voiced) \/ hang > 0
      unwanted == Closed \/ (engine.mode = "push" /\ ~engine.pressed)
  IN  /\ loop.pc = "head" /\ ~loop.stopping
      /\ Len(posted) < MaxPosts
      /\ loop' = [loop EXCEPT !.pc = "talk", !.half = @ + 1, !.should = @ \/ should,
                              !.leak = @ \/ (unwanted /\ ~silenced(should)),
                              !.hang = hang, !.now = should, !.off = Closed]
      /\ UNCHANGED <<call, todo, engine, posted, shown, gate, incoming, outgoing, carrier,
                     routes, commands, changes>>

Winds == loop.pc = "head" /\ loop.stopping

\* After a chunk, the next one; after two, the frame, if it is to be sent.
whenTalked ==
  IF loop.half < 2 THEN [loop EXCEPT !.pc = "head"]
  ELSE IF loop.should /\ ~loop.off THEN [loop EXCEPT !.pc = "encode"]
  ELSE [loop EXCEPT !.pc = "head", !.half = 0, !.should = FALSE, !.leak = FALSE]

\* The flag is exchanged; if it was another, an event is posted.
Talk ==
  /\ loop.pc = "talk" \/ Winds
  /\ LET now == loop.pc = "talk" /\ loop.now
         next == IF Winds THEN NoLoop ELSE whenTalked
     IN  /\ engine' = [engine EXCEPT !.talking = now]
         /\ loop' = IF engine.talking = now THEN next
                    ELSE [loop EXCEPT !.pc = "post", !.now = now, !.winding = Winds]
  /\ UNCHANGED <<call, todo, posted, shown, gate, incoming, outgoing, carrier, routes,
                 commands, changes>>

Post ==
  /\ loop.pc = "post"
  /\ posted' = Append(posted, loop.now)
  /\ loop' = IF loop.winding THEN NoLoop ELSE whenTalked
  /\ UNCHANGED <<call, todo, engine, shown, gate, incoming, outgoing, carrier, routes,
                 commands, changes>>

pushed(queue, x, limit) == Append(IF Len(queue) < limit THEN queue ELSE Tail(queue), x)

sendEncoded ==
  /\ loop.pc = "encode"
  /\ outgoing' = IF gate.transmit THEN pushed(outgoing, loop.leak, MaxOutgoing)
                 ELSE outgoing
  /\ loop' = [loop EXCEPT !.pc = "head", !.half = 0, !.should = FALSE, !.leak = FALSE]
  /\ UNCHANGED <<call, todo, engine, posted, shown, gate, incoming, carrier, routes,
                 commands, changes>>

Worker == (\E voiced \in BOOLEAN : Chunk(voiced)) \/ Talk \/ Post \/ sendEncoded

-----------------------------------------------------------------------------
(* The transport: frames from the links, and the worker.                   *)

enqueueIncoming(l) ==
  /\ gate.receive
  /\ routes # <<>> /\ l = Last(routes)
  /\ LET mine == kept(incoming, {l})
         room == IF Len(mine) < MaxIncoming THEN incoming ELSE RemoveFirst(incoming, l)
     IN  incoming' = Append(room, l)
  /\ UNCHANGED <<call, todo, engine, loop, posted, shown, gate, outgoing, carrier, routes,
                 commands, changes>>

swap ==
  /\ carrier.pc = "wait"
  /\ incoming # <<>> \/ outgoing # <<>>
  /\ carrier' = [pc |-> "receive", in |-> incoming, out |-> outgoing,
                 to |-> IF outgoing # <<>> /\ gate.transmit /\ routes # <<>>
                        THEN Last(routes) ELSE NoLink]
  /\ incoming' = <<>>
  /\ outgoing' = <<>>

enterReceive ==
  /\ carrier.pc = "receive"
  /\ carrier' = IF gate.receive /\ carrier.in # <<>> THEN [carrier EXCEPT !.pc = "handing"]
                ELSE [carrier EXCEPT !.pc = "transmit", !.in = <<>>]
  /\ UNCHANGED <<incoming, outgoing>>

hand ==
  /\ carrier.pc = "handing"
  /\ carrier' = [carrier EXCEPT !.in = Tail(@),
                                !.pc = IF Len(carrier.in) = 1 THEN "transmit" ELSE @]
  /\ UNCHANGED <<incoming, outgoing>>

enterTransmit ==
  /\ carrier.pc = "transmit"
  /\ carrier' = IF gate.transmit /\ carrier.out # <<>> /\ carrier.to # NoLink
                THEN [carrier EXCEPT !.pc = "sending"]
                ELSE [carrier EXCEPT !.pc = "wait", !.out = <<>>, !.to = NoLink]
  /\ UNCHANGED <<incoming, outgoing>>

send ==
  /\ carrier.pc = "sending"
  /\ carrier' = IF Len(carrier.out) = 1
                THEN [carrier EXCEPT !.pc = "wait", !.out = <<>>, !.to = NoLink]
                ELSE [carrier EXCEPT !.out = Tail(@)]
  /\ UNCHANGED <<incoming, outgoing>>

Carrier ==
  /\ swap \/ enterReceive \/ hand \/ enterTransmit \/ send
  /\ UNCHANGED <<call, todo, engine, loop, posted, shown, gate, routes, commands, changes>>

\* Faulty: what an older link brought stays in the queue.
heard_All(l) == incoming

\* What is still heard when a link becomes the peer's newest.
heard(l) == kept(incoming, {l})

\* A link opens, or the peer of an open one says hello again.
linkActivated(l) ==
  /\ Rest /\ changes < MaxChanges
  /\ changes' = changes + 1
  /\ routes' = Append(kept(routes, Links \ {l}), l)
  /\ incoming' = heard(l)
  /\ UNCHANGED <<call, todo, engine, loop, posted, shown, gate, outgoing, carrier, commands>>

linkRemoved(l) ==
  /\ Rest /\ changes < MaxChanges
  /\ Contains(routes, l)
  /\ changes' = changes + 1
  /\ routes' = kept(routes, Links \ {l})
  /\ incoming' = kept(incoming, Links \ {l})
  /\ UNCHANGED <<call, todo, engine, loop, posted, shown, gate, outgoing, carrier, commands>>

Network ==
  \E l \in Links : enqueueIncoming(l) \/ linkActivated(l) \/ linkRemoved(l)

-----------------------------------------------------------------------------
(* The specification.                                                      *)

Init ==
  /\ \E mode \in Modes :
       /\ call = [active |-> FALSE, muted |-> FALSE, testing |-> FALSE, ptt |-> FALSE,
                  mode |-> mode, running |-> FALSE]
       /\ engine = [muted |-> FALSE, testing |-> FALSE, pressed |-> FALSE, talking |-> FALSE,
                    mode |-> mode]
  /\ todo = <<>>
  /\ loop = NoLoop
  /\ posted = <<>>
  /\ shown = FALSE
  /\ gate = [receive |-> FALSE, transmit |-> FALSE]
  /\ incoming = <<>>
  /\ outgoing = <<>>
  /\ carrier = [pc |-> "wait", in |-> <<>>, out |-> <<>>, to |-> NoLink]
  /\ routes = <<CHOOSE l \in Links : TRUE>>
  /\ commands = 0
  /\ changes = 0

User ==
  \/ startCall \/ leaveCall \/ leaveMesh
  \/ \E on \in BOOLEAN : setMuted(on) \/ setMicrophoneTest(on) \/ setPttPressed(on)
  \/ \E mode \in Modes : applyPreferences(mode)

Next == User \/ Main \/ Worker \/ Carrier \/ Network

\* The threads run; a microphone that is on delivers.  Who waits for a gate that
\* is free again and again enters it: the frames come milliseconds apart.
Fairness == SF_vars(Main) /\ WF_vars(Worker) /\ WF_vars(Carrier)

Spec == Init /\ [][Next]_vars
FairSpec == Spec /\ Fairness

-----------------------------------------------------------------------------
(* Properties.                                                             *)

TypeOK ==
  /\ call \in [active : BOOLEAN, muted : BOOLEAN, testing : BOOLEAN, ptt : BOOLEAN,
               mode : Modes, running : BOOLEAN]
  /\ gate \in [receive : BOOLEAN, transmit : BOOLEAN]
  /\ loop.half \in 0 .. 2 /\ loop.hang \in 0 .. Hangover
  /\ Len(outgoing) <= MaxOutgoing /\ Len(incoming) <= MaxIncoming
  /\ carrier.pc \in {"wait", "receive", "handing", "transmit", "sending"}
  /\ commands \in 0 .. MaxCommands /\ changes \in 0 .. MaxChanges

\* A closed gate is closed: once the command has returned that muted the
\* microphone, let go of the key, began a test or left the call, not one more
\* frame is sent, whatever the workers were in the middle of; and once the call is
\* left, not one more is handed on to be played.
GatesHold ==
  [][/\ carrier.pc = "sending" /\ carrier'.out # carrier.out
          => ~Rest \/ canTransmit(call)
     /\ carrier.pc = "handing" /\ carrier'.in # carrier.in
          => ~Rest \/ call.active]_vars

\* Nothing that was recorded by a muted or tested microphone, or with the key up,
\* is on its way out, not even as half of a frame whose other half is wanted.
NothingOverheard == \A i \in DOMAIN outgoing : ~outgoing[i]

\* Of a peer with two links one is heard: what waits came over the newest open one.
OneRouteHeard == \A i \in DOMAIN incoming : routes # <<>> /\ incoming[i] = Last(routes)

\* The indicator and the flag, which two threads exchange and the main thread
\* hears of later, agree as soon as no event is under way.
IndicatorIsTrue ==
  posted = <<>> /\ Rest /\ loop.pc # "post" => shown = engine.talking

\* What is on its way to be heard is meant to be: here and at the peers.
HeardAsMeant == NothingOverheard /\ OneRouteHeard

\* Who is not on the air is not shown as talking for ever.
IndicatorFades ==
  <>[](~call.active \/ call.muted \/ call.testing) => <>[](~shown)

\* Outside a call and a test the microphone is closed.
MicrophoneReleased ==
  Rest /\ ~call.active /\ ~call.testing => ~call.running /\ loop = NoLoop

\* With no command under way the threads agree: on who is talking and on whether
\* the microphone is open.
ThreadsAgree == TypeOK /\ IndicatorIsTrue /\ MicrophoneReleased
=============================================================================
