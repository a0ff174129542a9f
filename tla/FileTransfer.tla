---------------------------- MODULE FileTransfer ----------------------------
(***************************************************************************)
(* One file on its way from the peer that offers it ("source") to the peer *)
(* that saves it ("sink"), over a link that comes and goes: the state of   *)
(* client/src/transfers/file_transfer_service.cpp at both ends.            *)
(*                                                                         *)
(* A link is one ordered data channel.  Each end opens it by itself and    *)
(* loses it by itself; frames that reach an end which has not opened it,   *)
(* or has already lost it, are dropped, and frames under way are lost.  A  *)
(* new link is made once both ends are without one, as receiveSignal of    *)
(* personal_connections.cpp sees to.                                       *)
(*                                                                         *)
(* pump() runs every 16 ms.  What it does for one transfer is a reply and  *)
(* then one of an offer, chunks or a finish; these are separate actions,   *)
(* and the pauses between two offers are left to their timing.  Several    *)
(* transfers share only the send budget.  Offsets are counted in chunks;   *)
(* previews and file names carry no state of the transfer.                 *)
(***************************************************************************)
EXTENDS Integers, Sequences

CONSTANTS
  Size,      \* chunks in the file
  Window,    \* chunks under way: 256 KiB / 16 KiB in the code
  Budget,    \* chunks one pump may send: 8
  Capacity,  \* frames a channel buffers before sendTransfer refuses
  MaxLosses  \* bound on the times a link is lost or given up

ASSUME SizeAssumption ==
  /\ Size \in Nat
  /\ Window \in Nat \ {0}
  /\ Budget \in Nat \ {0}
  /\ Capacity \in Nat \ {0}
  /\ MaxLosses \in Nat

VARIABLES
  link,       \* [Ends -> "none", "opening" or "open"]
  losses,     \* times a link was lost or given up so far
  chan,       \* [Ends -> frames sent by that end and not yet read]
  connected,  \* [Ends -> the service believes its peer is connected]
  phase,      \* [Ends -> phase of the transfer]
  error,      \* [Ends -> why it failed]
  reply,      \* [Ends -> the one reply frame to send, or Nothing]
  dismissed,  \* [Ends -> the user has dismissed it; the entry is retired]
  position,   \* source: acknowledged; sink: written
  sent,       \* source: chunks handed to the channel
  intact,     \* sink: what it has written hashes to the digest so far
  modified    \* the file was changed in place after it was hashed

linkVars     == <<link, losses, chan>>
progressVars == <<position, sent, intact, modified>>
vars == <<linkVars, connected, phase, error, reply, dismissed, progressVars>>

Ends     == {"source", "sink"}
Other(e) == IF e = "source" THEN "sink" ELSE "source"

Terminal   == {"Complete", "Cancelled", "Failed"}
terminal(e) == phase[e] \in Terminal

Frame(kind, offset) == [kind |-> kind, offset |-> offset]
Chunk(offset)       == [kind |-> "Chunk", offset |-> offset, good |-> ~modified]
Nothing             == Frame("None", 0)

-----------------------------------------------------------------------------
(* The link.                                                               *)

\* The sender of a service: it refuses when the link is not open or full.
CanSend(e) == link[e] = "open" /\ Len(chan[e]) < Capacity
Send(e, f) == chan' = [chan EXCEPT ![e] = Append(@, f)]

\* Faulty: goes on sending after the link was lost.
Reoffered_Not(e) == phase[e]

\* The phase, and with it the offer, that a change of the link leaves.
Reoffered(e) == IF e = "source" /\ phase[e] = "Sending" THEN "Offered" ELSE phase[e]

setPeerConnected(e, up) ==
  IF connected[e] = up THEN UNCHANGED <<connected, phase>>
  ELSE /\ connected' = [connected EXCEPT ![e] = up]
       /\ phase' = [phase EXCEPT ![e] = Reoffered(e)]

Establish ==
  /\ \A e \in Ends : link[e] = "none"
  /\ link' = [e \in Ends |-> "opening"]
  /\ chan' = [e \in Ends |-> <<>>]
  /\ UNCHANGED <<losses, connected, phase, error, reply, dismissed, progressVars>>

LinkOpened(e) ==
  /\ link[e] = "opening"
  /\ link' = [link EXCEPT ![e] = "open"]
  /\ setPeerConnected(e, TRUE)
  /\ UNCHANGED <<losses, chan, error, reply, dismissed, progressVars>>

LinkRemoved(e) ==
  /\ link[e] # "none"
  /\ link' = [link EXCEPT ![e] = "none"]
  /\ setPeerConnected(e, FALSE)
  /\ UNCHANGED <<chan, error, reply, dismissed, progressVars>>

Loss == losses < MaxLosses /\ losses' = losses + 1

\* The link is lost, or an end closes what its peer or itself has given up.
LinkLost(e)    == Loss /\ LinkRemoved(e)
LinkDropped(e) ==
  /\ link[Other(e)] = "none" \/ (link[e] = "open" /\ ~connected[e])
  /\ LinkRemoved(e)
  /\ UNCHANGED losses

-----------------------------------------------------------------------------
(* The users.                                                              *)

accept ==
  /\ phase["sink"] = "Incoming"
  /\ phase' = [phase EXCEPT !["sink"] = "Receiving"]
  /\ reply' = [reply EXCEPT !["sink"] = Frame("Accept", position["sink"])]
  /\ UNCHANGED <<linkVars, connected, error, dismissed, progressVars>>

\* An end that has no transfer yet has nothing to cancel.
Active(e) == phase[e] # "Absent" /\ ~terminal(e)

cancel(e) ==
  /\ Active(e)
  /\ phase' = [phase EXCEPT ![e] = "Cancelled"]
  /\ reply' = [reply EXCEPT ![e] = Frame("Cancel", 0)]
  /\ UNCHANGED <<linkVars, connected, error, dismissed, progressVars>>

\* What an end answers for good once its transfer has ended.
LastWord(e) == IF phase[e] = "Complete" THEN Frame("Complete", Size) ELSE Frame("Cancel", 0)

\* A reply that was still waiting is replaced by the last word.
dismiss(e) ==
  /\ terminal(e)
  /\ ~dismissed[e]
  /\ dismissed' = [dismissed EXCEPT ![e] = TRUE]
  /\ reply' = [reply EXCEPT ![e] = IF @ = Nothing THEN Nothing ELSE LastWord(e)]
  /\ UNCHANGED <<linkVars, connected, phase, error, progressVars>>

\* The peer has left the conversation.  A retired entry keeps its last word.
removePeer(e) ==
  /\ Loss
  /\ connected' = [connected EXCEPT ![e] = FALSE]
  /\ phase' = [phase EXCEPT ![e] = IF Active(e) THEN "Cancelled" ELSE @]
  /\ reply' = [reply EXCEPT ![e] = IF dismissed[e] THEN @ ELSE Nothing]
  /\ UNCHANGED <<link, chan, error, dismissed, progressVars>>

\* The user leaves the conversation: one attempt to tell the peer.
clear(e) ==
  /\ Loss
  /\ connected' = [connected EXCEPT ![e] = FALSE]
  /\ phase' = [phase EXCEPT ![e] = IF Active(e) THEN "Cancelled" ELSE @]
  /\ reply' = [reply EXCEPT ![e] = IF dismissed[e] THEN @ ELSE Nothing]
  /\ IF Active(e) /\ CanSend(e) THEN Send(e, Frame("Cancel", 0)) ELSE UNCHANGED chan
  /\ UNCHANGED <<link, error, dismissed, progressVars>>

\* Somebody rewrites the file in place, to the same size, after the hashing.
Modify ==
  /\ phase["source"] # "Hashing"
  /\ modified' = TRUE
  /\ UNCHANGED <<linkVars, connected, phase, error, reply, dismissed, position, sent, intact>>

-----------------------------------------------------------------------------
(* pump().                                                                 *)

fail(e, why) ==
  /\ phase' = [phase EXCEPT ![e] = "Failed"]
  /\ error' = [error EXCEPT ![e] = why]
  /\ reply' = [reply EXCEPT ![e] = Frame("Cancel", 0)]

Hash ==
  /\ phase["source"] = "Hashing"
  /\ \/ phase' = [phase EXCEPT !["source"] = "Offered"] /\ UNCHANGED <<error, reply>>
     \/ fail("source", "file")
  /\ UNCHANGED <<linkVars, connected, dismissed, progressVars>>

SendReply(e) ==
  /\ connected[e]
  /\ reply[e] # Nothing
  /\ CanSend(e)
  /\ Send(e, reply[e])
  /\ reply' = [reply EXCEPT ![e] = Nothing]
  /\ UNCHANGED <<link, losses, connected, phase, error, dismissed, progressVars>>

SendOffer ==
  /\ connected["source"]
  /\ phase["source"] = "Offered"
  /\ CanSend("source")
  /\ Send("source", Frame("Offer", Size))
  /\ UNCHANGED <<link, losses, connected, phase, error, reply, dismissed, progressVars>>

Least(a, b) == IF a < b THEN a ELSE b

\* Faulty: does not stop at the end of the file.
Burst_Overruns ==
  Least(Budget, Least(Window - (sent - position["source"]), Capacity - Len(chan["source"])))

\* The chunks one pump gets through: the loop ends with the budget, the file,
\* the window or the room in the channel.
Burst ==
  Least(Least(Budget, Size - sent),
        Least(Window - (sent - position["source"]), Capacity - Len(chan["source"])))

SendChunks ==
  /\ connected["source"]
  /\ phase["source"] = "Sending"
  /\ CanSend("source")
  /\ Burst > 0
  /\ chan' = [chan EXCEPT !["source"] = @ \o [i \in 1..Burst |-> Chunk(sent + i - 1)]]
  /\ sent' = sent + Burst
  /\ UNCHANGED <<link, losses, connected, phase, error, reply, dismissed, position, intact, modified>>

\* The file can no longer be read.
ReadFails ==
  /\ connected["source"]
  /\ phase["source"] = "Sending"
  /\ sent < Size
  /\ sent - position["source"] < Window
  /\ fail("source", "file")
  /\ UNCHANGED <<linkVars, connected, dismissed, progressVars>>

SendFinish ==
  /\ connected["source"]
  /\ phase["source"] = "Sending"
  /\ position["source"] = Size
  /\ CanSend("source")
  /\ Send("source", Frame("Finish", 0))
  /\ UNCHANGED <<link, losses, connected, phase, error, reply, dismissed, progressVars>>

-----------------------------------------------------------------------------
(* receive().                                                              *)

Incoming(e) == Head(chan[Other(e)])
Read(e)     == chan' = [chan EXCEPT ![Other(e)] = Tail(@)]

\* Reads the frame and answers on the spot, if the channel takes the answer.
ReadAndSend(e, f) ==
  chan' = [chan EXCEPT ![Other(e)] = Tail(@), ![e] = IF CanSend(e) THEN Append(@, f) ELSE @]

Answer(e, f) == reply' = [reply EXCEPT ![e] = f]
Phase(e, p)  == phase' = [phase EXCEPT ![e] = p]

\* Faulty: has forgotten how a dismissed transfer ended.
ReceiveRetired_Silent(e) == Read(e) /\ UNCHANGED <<phase, error, reply, progressVars>>

ReceiveRetired(e) ==
  /\ IF Incoming(e).kind \in {"Offer", "Finish"} THEN ReadAndSend(e, LastWord(e)) ELSE Read(e)
  /\ UNCHANGED <<phase, error, reply, progressVars>>

\* Faulty: answers a repeated offer only when the transfer has ended.
ReceiveOffer_Silent ==
  /\ UNCHANGED <<error, progressVars>>
  /\ CASE phase["sink"] = "Absent" ->
            \/ Read("sink") /\ Phase("sink", "Incoming") /\ UNCHANGED reply
            \/ ReadAndSend("sink", Frame("Cancel", 0)) /\ UNCHANGED <<phase, reply>>
       [] phase["sink"] \in {"Incoming", "Receiving"} -> Read("sink") /\ UNCHANGED <<phase, reply>>
       [] OTHER -> Read("sink") /\ Answer("sink", LastWord("sink")) /\ UNCHANGED phase

\* A first offer is shown to the user, unless the list of transfers is full.
ReceiveOffer ==
  /\ UNCHANGED <<error, progressVars>>
  /\ CASE phase["sink"] = "Absent" ->
            \/ Read("sink") /\ Phase("sink", "Incoming") /\ UNCHANGED reply
            \/ ReadAndSend("sink", Frame("Cancel", 0)) /\ UNCHANGED <<phase, reply>>
       [] phase["sink"] = "Incoming" -> Read("sink") /\ UNCHANGED <<phase, reply>>
       [] phase["sink"] = "Receiving" ->
            Read("sink") /\ Answer("sink", Frame("Accept", position["sink"])) /\ UNCHANGED phase
       [] OTHER -> Read("sink") /\ Answer("sink", LastWord("sink")) /\ UNCHANGED phase

\* Faulty: cancels a transfer that is complete.
ReceiveCancel_Always(e) ==
  /\ Read(e)
  /\ Phase(e, "Cancelled") /\ Answer(e, Nothing)
  /\ UNCHANGED <<error, progressVars>>

ReceiveCancel(e) ==
  /\ Read(e)
  /\ IF Active(e) THEN Phase(e, "Cancelled") /\ Answer(e, Nothing) ELSE UNCHANGED <<phase, reply>>
  /\ UNCHANGED <<error, progressVars>>

\* Faulty: goes on from what was sent before the loss.
ResumeAt_Sent == sent

\* Faulty: starts the file over.
ResumeAt_Start == 0

ResumeAt == Incoming("source").offset

\* The sink tells where to go on; the source seeks there, if it still can.
ReceiveAccept ==
  /\ Read("source")
  /\ IF phase["source"] = "Offered"
     THEN \/ /\ position' = [position EXCEPT !["source"] = ResumeAt]
             /\ sent' = ResumeAt
             /\ Phase("source", "Sending")
             /\ UNCHANGED <<error, reply, intact, modified>>
          \/ fail("source", "file") /\ UNCHANGED progressVars
     ELSE UNCHANGED <<phase, error, reply, progressVars>>

\* Faulty: takes an acknowledgement for everything sent.
ReceiveAck_Everything ==
  /\ Read("source")
  /\ position' = IF phase["source"] = "Sending" THEN [position EXCEPT !["source"] = sent] ELSE position
  /\ UNCHANGED <<phase, error, reply, sent, intact, modified>>

ReceiveAck ==
  LET offset == Incoming("source").offset IN
  /\ Read("source")
  /\ position' = IF phase["source"] = "Sending" /\ offset <= sent /\ offset > position["source"]
                 THEN [position EXCEPT !["source"] = offset] ELSE position
  /\ UNCHANGED <<phase, error, reply, sent, intact, modified>>

ReceiveComplete ==
  /\ Read("source")
  /\ IF phase["source"] \in {"Sending", "Offered"}
     THEN /\ Phase("source", "Complete")
          /\ position' = [position EXCEPT !["source"] = Size]
     ELSE UNCHANGED <<phase, position>>
  /\ UNCHANGED <<error, reply, sent, intact, modified>>

ReceiveChunk ==
  LET f == Incoming("sink") IN
  /\ Read("sink")
  /\ UNCHANGED <<sent, modified>>
  /\ CASE phase["sink"] # "Receiving" -> UNCHANGED <<phase, error, reply, position, intact>>
       [] phase["sink"] = "Receiving" /\ (f.offset # position["sink"] \/ position["sink"] = Size) ->
            fail("sink", "order") /\ UNCHANGED <<position, intact>>
       [] OTHER ->
            \/ /\ position' = [position EXCEPT !["sink"] = @ + 1]
               /\ intact' = (intact /\ f.good)
               /\ Answer("sink", Frame("Ack", position["sink"] + 1))
               /\ UNCHANGED <<phase, error>>
            \/ fail("sink", "disk") /\ UNCHANGED <<position, intact>>

ReceiveFinish ==
  /\ Read("sink")
  /\ UNCHANGED progressVars
  /\ CASE phase["sink"] = "Complete" ->
            Answer("sink", Frame("Complete", Size)) /\ UNCHANGED <<phase, error>>
       [] phase["sink"] = "Receiving" /\ (position["sink"] # Size \/ ~intact) ->
            fail("sink", "integrity")
       [] phase["sink"] = "Receiving" /\ position["sink"] = Size /\ intact ->
            \/ /\ Phase("sink", "Complete")
               /\ Answer("sink", Frame("Complete", Size))
               /\ UNCHANGED error
            \/ fail("sink", "disk")
       [] OTHER -> UNCHANGED <<phase, error, reply>>

Receive(e) ==
  /\ link[e] = "open"
  /\ chan[Other(e)] # <<>>
  /\ UNCHANGED <<link, losses, connected, dismissed>>
  /\ IF dismissed[e] THEN ReceiveRetired(e)
     ELSE CASE Incoming(e).kind = "Offer"    -> ReceiveOffer
            [] Incoming(e).kind = "Cancel"   -> ReceiveCancel(e)
            [] Incoming(e).kind = "Accept"   -> ReceiveAccept
            [] Incoming(e).kind = "Ack"      -> ReceiveAck
            [] Incoming(e).kind = "Complete" -> ReceiveComplete
            [] Incoming(e).kind = "Chunk"    -> ReceiveChunk
            [] Incoming(e).kind = "Finish"   -> ReceiveFinish

\* The link is not open at this end, so its frames are not passed on.
Ignore(e) ==
  /\ link[e] = "opening"
  /\ chan[Other(e)] # <<>>
  /\ Read(e)
  /\ UNCHANGED <<link, losses, connected, phase, error, reply, dismissed, progressVars>>

-----------------------------------------------------------------------------

Init ==
  /\ link      = [e \in Ends |-> "none"]
  /\ losses    = 0
  /\ chan      = [e \in Ends |-> <<>>]
  /\ connected = [e \in Ends |-> FALSE]
  /\ phase     = [e \in Ends |-> IF e = "source" THEN "Hashing" ELSE "Absent"]
  /\ error     = [e \in Ends |-> "none"]
  /\ reply     = [e \in Ends |-> Nothing]
  /\ dismissed = [e \in Ends |-> FALSE]
  /\ position  = [e \in Ends |-> 0]
  /\ sent      = 0
  /\ intact    = TRUE
  /\ modified  = FALSE

Next ==
  \/ Establish \/ accept \/ Modify \/ Hash
  \/ SendOffer \/ SendChunks \/ ReadFails \/ SendFinish
  \/ \E e \in Ends :
       \/ LinkOpened(e) \/ LinkLost(e) \/ LinkDropped(e)
       \/ cancel(e) \/ dismiss(e) \/ removePeer(e) \/ clear(e)
       \/ SendReply(e) \/ Receive(e) \/ Ignore(e)

\* Both event loops run, both ends of a new link open it or lose it, an end
\* whose peer has lost the link, or which has given the peer up, loses it
\* too, and another link is made.
Fairness ==
  /\ WF_vars(Establish)
  /\ WF_vars(Hash) /\ WF_vars(SendOffer) /\ WF_vars(SendChunks) /\ WF_vars(SendFinish)
  /\ \A e \in Ends :
       /\ WF_vars(LinkOpened(e)) /\ WF_vars(SendReply(e)) /\ WF_vars(Receive(e)) /\ WF_vars(Ignore(e))
       /\ WF_vars(LinkDropped(e))

Spec == Init /\ [][Next]_vars /\ Fairness

-----------------------------------------------------------------------------
(* Properties.                                                             *)

Phases == {"Hashing", "Absent", "Offered", "Incoming", "Sending", "Receiving"} \cup Terminal

Frames ==
  [kind : {"Offer", "Accept", "Ack", "Finish", "Complete", "Cancel", "None"}, offset : 0..Size]
    \cup [kind : {"Chunk"}, offset : 0..Size, good : BOOLEAN]

\* Every variable of the two ends and of the link has its type.
TypeOK ==
  /\ link \in [Ends -> {"none", "opening", "open"}]
  /\ losses \in 0..MaxLosses
  /\ chan \in [Ends -> Seq(Frames)]
  /\ connected \in [Ends -> BOOLEAN]
  /\ phase \in [Ends -> Phases]
  /\ error \in [Ends -> {"none", "file", "order", "disk", "integrity"}]
  /\ reply \in [Ends -> Frames]
  /\ dismissed \in [Ends -> BOOLEAN]
  /\ position \in [Ends -> 0..Size]
  /\ sent \in 0..Size
  /\ intact \in BOOLEAN
  /\ modified \in BOOLEAN

\* However often the link breaks and whichever end notices first, resuming
\* never makes the sink give the transfer up for a chunk out of order.
OrderNeverBreaks == error["sink"] # "order"

\* The integrity check blames only a file that really changed: a resumed
\* transfer never reaches its end with a chunk missing.
IntegrityBlamesTheFile == error["sink"] = "integrity" => modified

\* What the source counts as received, and shows as progress, has been written.
AcksAreWritten == position["source"] <= position["sink"]

\* While chunks flow the source is never behind the sink: an accept that is
\* late, repeated or from before a loss never makes it send a chunk again.
SinkWithinSent == phase["source"] = "Sending" => position["sink"] <= sent

\* Losing the link costs a transfer nothing: its two counts stay in step, no
\* chunk is missed or sent out of order, and nothing but the file breaks it.
LossesAreHarmless ==
  TypeOK /\ OrderNeverBreaks /\ IntegrityBlamesTheFile /\ AcksAreWritten /\ SinkWithinSent

\* An accepted transfer is finished at both ends once the link stays up, unless
\* a user, the disk or the file stops it.
AcceptedTransfersFinish ==
  phase["sink"] = "Receiving" ~>
    \/ \A e \in Ends : phase[e] = "Complete"
    \/ \E e \in Ends : phase[e] \in {"Cancelled", "Failed"}

\* The source hears how the transfer ended at the sink, though the frame that
\* said so was lost with the link or the sink has dismissed the transfer.
EndReachesTheSource == terminal("sink") ~> terminal("source")

\* The transfer as the two users see it, for the abstract delivery.
Shown(p) ==
  CASE p = "Complete" -> "done"
    [] p \in {"Cancelled", "Failed"} -> "stopped"
    [] p \in {"Absent", "Incoming"} -> "asked"
    [] OTHER -> "open"

D == INSTANCE Delivery WITH
       upload <- Shown(phase["source"]), download <- Shown(phase["sink"]),
       stored <- position["sink"], whole <- intact

\* The two ends and the link between them implement the abstract delivery.
TransferImplementsDelivery == D!Spec

=============================================================================
