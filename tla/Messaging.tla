----------------------------- MODULE Messaging -----------------------------
(***************************************************************************)
(* Chat messages and their acknowledgements                                *)
(* (client/src/app/messaging_service.cpp, client/src/messaging/            *)
(* delivery_tracker.cpp), carried by the chat channel of every open link   *)
(* (client/src/network/peer_connection.cpp).                               *)
(*                                                                         *)
(* Two peers may be joined by several links at once (a replacement opens   *)
(* before the old one closes), and a message goes over each of them.  A    *)
(* channel keeps its order; what is on it, or waits in the sender's queue  *)
(* for it, is lost with the link.  A message is a number nobody gave       *)
(* before (its UUID); texts are left out.                                  *)
(***************************************************************************)
EXTENDS Integers, Sequences, FiniteSets

CONSTANTS
  Peers, Links,      \* links a pair of peers can have at once
  MaxSeenMessages,   \* ids a peer remembers, and messages it keeps count of
  MaxLogicalClock,
  MaxQueued,         \* packets the sender's queue for one channel holds
  HighWater,         \* packets the channel takes before the queue fills
  MaxMessages, MaxLeaves

ASSUME ChatAssumption ==
  /\ MaxSeenMessages \in Nat \ {0}
  /\ MaxLogicalClock \in Nat
  /\ MaxMessages \in Nat

VARIABLES
  chatClock,     \* logicalClock_ of each peer
  chatSeen,      \* seenMessageOrder_: ids, the oldest first
  chatDelivery,  \* states_: sequence of [id, expected, acknowledged]
  chatOpen,      \* set of [pair, link]: open links
  chatQueue,     \* chatQueue of each directed channel
  chatChannel,   \* what the channel itself has taken
  chatLog,       \* what each peer's user saw, in order: [id, from, clock]
  chatShownTo,   \* for every message, the peers whose users have seen it
  chatSent, chatLeaves

chatVars == <<chatClock, chatSeen, chatDelivery, chatOpen, chatQueue, chatChannel,
              chatLog, chatShownTo, chatSent, chatLeaves>>

Pairs    == {pair \in SUBSET Peers : Cardinality(pair) = 2}
Channels == {c \in Peers \X Peers \X Links : c[1] # c[2]}
pairOf(c)   == [pair |-> {c[1], c[2]}, link |-> c[3]]
isOpen(c)   == pairOf(c) \in chatOpen
from(p)     == {c \in Channels : c[1] = p /\ isOpen(c)}
Content(s)  == {s[i] : i \in DOMAIN s}

Message(id, clock) == [kind |-> "message", id |-> id, clock |-> clock]
Ack(id)            == [kind |-> "ack", id |-> id]
Shown(id, p, clock) == [id |-> id, from |-> p, clock |-> clock]

\* Faulty: the oldest id is dropped one message early.
remember_Short(order, entry) ==
  Append(IF Len(order) >= MaxSeenMessages - 1 THEN Tail(order) ELSE order, entry)

\* rememberMessage and track: the newest entries are kept.
remember(order, entry) ==
  Append(IF Len(order) >= MaxSeenMessages THEN Tail(order) ELSE order, entry)

-----------------------------------------------------------------------------
(* The channel: sendText and flushTextQueue.                               *)

\* Whether the text is taken: into the channel when nothing waits, or else into
\* the queue, which is bounded.
direct(c)  == chatQueue[c] = <<>> /\ Len(chatChannel[c]) <= HighWater
accepts(c) == isOpen(c) /\ (direct(c) \/ Len(chatQueue[c]) < MaxQueued)

\* Faulty: a text goes straight to the channel although others wait.
sendText_Overtakes(C, text) ==
  LET Now == {c \in C : Len(chatChannel[c]) <= HighWater} IN
  /\ chatChannel' = [c \in Channels |-> IF c \in Now THEN Append(chatChannel[c], text) ELSE chatChannel[c]]
  /\ chatQueue' = [c \in Channels |-> IF c \in C \ Now /\ accepts(c)
                                      THEN Append(chatQueue[c], text) ELSE chatQueue[c]]

\* sendText on each of the channels C.
sendText(C, text) ==
  LET Now == {c \in C : direct(c)} IN
  /\ chatChannel' = [c \in Channels |-> IF c \in Now THEN Append(chatChannel[c], text) ELSE chatChannel[c]]
  /\ chatQueue' = [c \in Channels |-> IF c \in C \ Now /\ accepts(c)
                                      THEN Append(chatQueue[c], text) ELSE chatQueue[c]]

\* The channel's buffer has run low.
flushTextQueue(c) ==
  /\ isOpen(c) /\ chatQueue[c] # <<>> /\ Len(chatChannel[c]) <= HighWater
  /\ chatChannel' = [chatChannel EXCEPT ![c] = Append(@, Head(chatQueue[c]))]
  /\ chatQueue' = [chatQueue EXCEPT ![c] = Tail(@)]
  /\ UNCHANGED <<chatClock, chatSeen, chatDelivery, chatOpen, chatLog, chatShownTo, chatSent, chatLeaves>>

-----------------------------------------------------------------------------
(* Messages.                                                               *)

\* createMessage and sendMessage: to all open links; the peers at their ends
\* are expected to acknowledge.
sendMessage(p) ==
  LET id == chatSent + 1
      expected == {c[2] : c \in from(p)} IN
  /\ chatSent < MaxMessages
  /\ chatClock[p] # MaxLogicalClock
  /\ chatSent' = id
  /\ chatClock' = [chatClock EXCEPT ![p] = @ + 1]
  /\ chatSeen' = [chatSeen EXCEPT ![p] = remember(@, id)]
  /\ chatDelivery' = [chatDelivery EXCEPT ![p] =
                        remember(@, [id |-> id, expected |-> expected, acknowledged |-> {}])]
  /\ chatLog' = [chatLog EXCEPT ![p] = Append(@, Shown(id, p, chatClock[p] + 1))]
  /\ chatShownTo' = [chatShownTo EXCEPT ![id] = {p}]
  /\ sendText(from(p), Message(id, chatClock[p] + 1))
  /\ UNCHANGED <<chatOpen, chatLeaves>>

Later(x, y) == IF x > y THEN x ELSE y

\* Faulty: the own clock does not catch up with the sender's.
nextClock_Own(p, clock) == chatClock[p] + 1

\* receiveMessage advances the clock past both.
nextClock(p, clock) == Later(chatClock[p], clock) + 1

seen(p, m)    == m.id \in Content(chatSeen[p])
follows(p, m) == Later(chatClock[p], m.clock) # MaxLogicalClock

\* Faulty: a message the clock cannot follow is acknowledged all the same.
answered_Always(p, m) == TRUE

\* A message the clock cannot follow is neither shown nor acknowledged; one that
\* was taken before is only acknowledged.
answered(p, m) == seen(p, m) \/ follows(p, m)

\* What the other end sends arrives over the channel c; the reply goes back
\* over the same link.
handleChatMessage(c) ==
  LET p == c[2]
      m == Head(chatChannel[c])
      back == <<p, c[1], c[3]>>
      ack == IF answered(p, m) THEN {back} ELSE {} IN
  /\ isOpen(c) /\ chatChannel[c] # <<>> /\ m.kind = "message"
  /\ LET Now == {b \in ack : direct(b)} IN
     /\ chatChannel' = [[chatChannel EXCEPT ![c] = Tail(@)] EXCEPT
                          ![back] = IF back \in Now THEN Append(@, Ack(m.id)) ELSE @]
     /\ chatQueue' = [chatQueue EXCEPT
                        ![back] = IF back \in ack \ Now /\ accepts(back) THEN Append(@, Ack(m.id)) ELSE @]
  /\ IF ~seen(p, m) /\ follows(p, m)
     THEN /\ chatClock' = [chatClock EXCEPT ![p] = nextClock(p, m.clock)]
          /\ chatSeen' = [chatSeen EXCEPT ![p] = remember(@, m.id)]
          /\ chatLog' = [chatLog EXCEPT ![p] = Append(@, Shown(m.id, c[1], m.clock))]
          /\ chatShownTo' = [chatShownTo EXCEPT ![m.id] = @ \cup {p}]
     ELSE UNCHANGED <<chatClock, chatSeen, chatLog, chatShownTo>>
  /\ UNCHANGED <<chatDelivery, chatOpen, chatSent, chatLeaves>>

\* acknowledge: once for each expected peer, of a message still tracked.
acknowledge(s, id, peer) ==
  [i \in DOMAIN s |-> IF s[i].id = id /\ peer \in s[i].expected
                      THEN [s[i] EXCEPT !.acknowledged = @ \cup {peer}] ELSE s[i]]

handleChatAck(c) ==
  /\ isOpen(c) /\ chatChannel[c] # <<>> /\ Head(chatChannel[c]).kind = "ack"
  /\ chatDelivery' = [chatDelivery EXCEPT ![c[2]] = acknowledge(@, Head(chatChannel[c]).id, c[1])]
  /\ chatChannel' = [chatChannel EXCEPT ![c] = Tail(@)]
  /\ UNCHANGED <<chatClock, chatSeen, chatOpen, chatQueue, chatLog, chatShownTo, chatSent, chatLeaves>>

-----------------------------------------------------------------------------
(* Links, and leaving the mesh.                                            *)

Without(links) ==
  /\ chatOpen' = chatOpen \ links
  /\ chatChannel' = [c \in Channels |-> IF pairOf(c) \in links THEN <<>> ELSE chatChannel[c]]
  /\ chatQueue' = [c \in Channels |-> IF pairOf(c) \in links THEN <<>> ELSE chatQueue[c]]

LinkOpens ==
  /\ \E pair \in Pairs, l \in Links : chatOpen' = chatOpen \cup {[pair |-> pair, link |-> l]}
  /\ chatOpen' # chatOpen
  /\ UNCHANGED <<chatClock, chatSeen, chatDelivery, chatQueue, chatChannel, chatLog, chatShownTo,
                 chatSent, chatLeaves>>

LinkCloses ==
  /\ chatLeaves < MaxLeaves /\ chatLeaves' = chatLeaves + 1
  /\ \E o \in chatOpen : Without({o})
  /\ UNCHANGED <<chatClock, chatSeen, chatDelivery, chatLog, chatShownTo, chatSent>>

\* A peer leaves: its links close and everything it knew of the chat goes.
clear(p) ==
  /\ chatLeaves < MaxLeaves /\ chatLeaves' = chatLeaves + 1
  /\ Without({o \in chatOpen : p \in o.pair})
  /\ chatClock' = [chatClock EXCEPT ![p] = 0]
  /\ chatSeen' = [chatSeen EXCEPT ![p] = <<>>]
  /\ chatDelivery' = [chatDelivery EXCEPT ![p] = <<>>]
  /\ chatLog' = [chatLog EXCEPT ![p] = <<>>]
  /\ UNCHANGED <<chatShownTo, chatSent>>

ChatInit ==
  /\ chatClock = [p \in Peers |-> 0]
  /\ chatSeen = [p \in Peers |-> <<>>]
  /\ chatDelivery = [p \in Peers |-> <<>>]
  /\ chatOpen = {}
  /\ chatQueue = [c \in Channels |-> <<>>]
  /\ chatChannel = [c \in Channels |-> <<>>]
  /\ chatLog = [p \in Peers |-> <<>>]
  /\ chatShownTo = [id \in 1..MaxMessages |-> {}]
  /\ chatSent = 0
  /\ chatLeaves = 0

ChatNext ==
  \/ \E p \in Peers : sendMessage(p) \/ clear(p)
  \/ \E c \in Channels : handleChatMessage(c) \/ handleChatAck(c) \/ flushTextQueue(c)
  \/ LinkOpens
  \/ LinkCloses

ChatSpec == ChatInit /\ [][ChatNext]_chatVars

-----------------------------------------------------------------------------
(* Safety.                                                                 *)

\* A user sees a message twice only if so many others came in between that its
\* id was forgotten, however many links carry it (rememberMessage).
SeenOnce ==
  \A p \in Peers : \A i, j \in DOMAIN chatLog[p] :
    (i < j /\ chatLog[p][i].id = chatLog[p][j].id) => j - i > MaxSeenMessages

\* What a user writes carries a later time than everything the user had seen,
\* so that sorting by time never puts an answer before its question
\* (createMessage, receiveMessage).
AnswersComeLater ==
  \A p \in Peers : \A i, j \in DOMAIN chatLog[p] :
    (i < j /\ chatLog[p][j].from = p) => chatLog[p][i].clock < chatLog[p][j].clock

\* A peer that counts as having received a message has shown it to its user
\* (handleChatMessage acknowledges nothing it could not take).
DeliveredIsShown ==
  \A p \in Peers : \A i \in DOMAIN chatDelivery[p] :
    LET d == chatDelivery[p][i] IN
    d.acknowledged \subseteq (d.expected \cap chatShownTo[d.id])

\* The messages of one peer that reach another over one link are shown in the
\* order they were written, whatever waited in the sender's queue
\* (sendText, flushTextQueue).
WrittenInOrder ==
  \A c \in Channels :
    LET wire == chatChannel[c] \o chatQueue[c] IN
    \A i, j \in DOMAIN wire :
      (i < j /\ wire[i].kind = "message" /\ wire[j].kind = "message") => wire[i].id < wire[j].id

\* What a user sees of the chat, and in which order, and what the sender is told
\* of a message and of its place on the wire (MessagingService, DeliveryTracker,
\* PeerConnection::sendText).
ChatIsTrue == SeenOnce /\ AnswersComeLater /\ DeliveredIsShown /\ WrittenInOrder
=============================================================================
