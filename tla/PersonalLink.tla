---------------------------- MODULE PersonalLink ----------------------------
(***************************************************************************)
(* The link two acquaintances make outside any mesh, to pass a file        *)
(* (client/src/app/personal_connections.cpp).                              *)
(*                                                                         *)
(* Either end begins when it has something to send, so that two offers may *)
(* cross; descriptions go through the signaling server (direct.send) and   *)
(* are lost when the sender is not connected to it.  The stages of a link  *)
(* are those of ConnectionManager, which Link models, cut down to what the *)
(* two ends see of each other.  Clocks are left out: a deadline may pass   *)
(* whenever the other end can no longer answer, and MaxTroubles times      *)
(* earlier.                                                                *)
(***************************************************************************)
EXTENDS Integers, Sequences

CONSTANTS
  Ends,        \* two numbers, as identities are ordered
  MaxLinkIds,  \* links that are begun
  MaxTroubles

VARIABLES
  directLink,    \* an end's link to the other: [id, role, stage], or NoLink
  directNonce,   \* whether it has made its nonce: nonces_
  directHello,   \* whether it has the other's hello: hellos_
  directSignals, \* descriptions on the way from each end
  directControl, \* what each end has sent over the control channel
  directWanted,  \* ends with a file under way: files_.hasActive
  directIds, directTroubles

directVars == <<directLink, directNonce, directHello, directSignals, directControl,
                directWanted, directIds, directTroubles>>

NoLink == [id |-> 0, role |-> "none", stage |-> "none"]
New(id, role) == [id |-> id, role |-> role, stage |-> "starting"]

\* starting: the description is being made; waiting: an offer is sent; applied:
\* both descriptions are known; transport: the channels are open; open: the
\* other end has proved who it is.
Other(p) == CHOOSE q \in Ends : q # p
has(p)   == directLink[p] # NoLink
stage(p) == directLink[p].stage
Same(p)  == directLink[p].id = directLink[Other(p)].id

\* create forgets what an earlier link left; what was sent over that is lost.
Replace(p, link) ==
  /\ directLink'  = [directLink EXCEPT ![p] = link]
  /\ directNonce' = [directNonce EXCEPT ![p] = FALSE]
  /\ directHello' = [directHello EXCEPT ![p] = FALSE]
  /\ directControl' = [e \in Ends |-> <<>>]

discard(p) == Replace(p, NoLink)

-----------------------------------------------------------------------------
(* Descriptions.                                                           *)

\* begin, at once or by maintain.
begin(p) ==
  /\ p \in directWanted /\ ~has(p)
  /\ directIds < MaxLinkIds /\ directIds' = directIds + 1
  /\ Replace(p, New(directIds + 1, "offer"))
  /\ UNCHANGED <<directSignals, directWanted, directTroubles>>

Trouble == directTroubles < MaxTroubles /\ directTroubles' = directTroubles + 1

\* localDescriptionReady: without the server the link is given up.
localDescriptionReady(p) ==
  /\ stage(p) = "starting"
  /\ \/ /\ directSignals' = [directSignals EXCEPT ![p] =
                               Append(@, [id |-> directLink[p].id, kind |-> directLink[p].role])]
        /\ directLink' = [directLink EXCEPT ![p].stage = IF @ = "starting" /\ directLink[p].role = "offer"
                                                         THEN "waiting" ELSE "applied"]
        /\ UNCHANGED <<directNonce, directHello, directControl, directTroubles>>
     \/ /\ Trouble
        /\ discard(p)
        /\ UNCHANGED directSignals
  /\ UNCHANGED <<directWanted, directIds>>

\* Faulty: either end gives way to the other's offer.
keepsOwn_Never(p) == FALSE

\* Of two offers that cross, the one of the smaller identity stays.
keepsOwn(p) == p < Other(p)

\* An offer is taken unless there is an open link, or one that stays.
takesOffer(p, id) == has(p) => stage(p) # "open" /\ directLink[p].id # id /\ ~keepsOwn(p)

\* receiveSignal
receiveSignal(p) ==
  LET m == Head(directSignals[Other(p)]) IN
  /\ directSignals[Other(p)] # <<>>
  /\ directSignals' = [directSignals EXCEPT ![Other(p)] = Tail(@)]
  /\ \/ /\ m.kind = "offer" /\ takesOffer(p, m.id)
        /\ Replace(p, New(m.id, "answer"))
     \/ /\ m.kind = "answer" /\ directLink[p].id = m.id /\ stage(p) = "waiting"
        /\ directLink' = [directLink EXCEPT ![p].stage = "applied"]
        /\ UNCHANGED <<directNonce, directHello, directControl>>
     \/ /\ ~(m.kind = "offer" /\ takesOffer(p, m.id))
        /\ ~(m.kind = "answer" /\ directLink[p].id = m.id /\ stage(p) = "waiting")
        /\ UNCHANGED <<directLink, directNonce, directHello, directControl>>
  /\ UNCHANGED <<directWanted, directIds, directTroubles>>

-----------------------------------------------------------------------------
(* The channels.                                                           *)

Message(p, kind) == [id |-> directLink[p].id, kind |-> kind]
Proof(p) == IF directHello[p] THEN <<Message(p, "proof")>> ELSE <<>>

\* transportOpened: the hello, and the proof if the other's hello came before.
transportOpened(p) ==
  /\ stage(p) = "applied" /\ Same(p)
  /\ stage(Other(p)) \in {"applied", "transport", "open"}
  /\ directLink'  = [directLink EXCEPT ![p].stage = "transport"]
  /\ directNonce' = [directNonce EXCEPT ![p] = TRUE]
  /\ directControl' = [directControl EXCEPT ![p] = @ \o <<Message(p, "hello")>> \o Proof(p)]
  /\ UNCHANGED <<directHello, directSignals, directWanted, directIds, directTroubles>>

\* Faulty: the proof is only sent as the channels open.
provesOnHello_Never(p) == <<>>

\* A hello is answered with the proof, once there is a nonce of one's own.
provesOnHello(p) == IF directNonce[p] THEN <<Message(p, "proof")>> ELSE <<>>

\* receiveControl: a proof that cannot be checked yet is dropped.
receiveControl(p) ==
  LET m == Head(directControl[Other(p)])
      rest == [directControl EXCEPT ![Other(p)] = Tail(@)] IN
  /\ directControl[Other(p)] # <<>>
  /\ stage(p) \in {"applied", "transport", "open"}
  /\ IF m.kind = "hello"
     THEN /\ directHello' = [directHello EXCEPT ![p] = TRUE]
          /\ directControl' = [rest EXCEPT ![p] = @ \o provesOnHello(p)]
          /\ UNCHANGED directLink
     ELSE /\ directLink' = [directLink EXCEPT ![p].stage =
                              IF directHello[p] /\ directNonce[p] THEN "open" ELSE @]
          /\ directControl' = rest
          /\ UNCHANGED directHello
  /\ UNCHANGED <<directNonce, directSignals, directWanted, directIds, directTroubles>>

-----------------------------------------------------------------------------
(* Deadlines.                                                              *)

\* The other end cannot answer this link any more; a description takes less time
\* to be made and to arrive than the deadline leaves it.
Hopeless(p) ==
  /\ has(p) /\ ~Same(p)
  /\ \A q \in Ends : stage(q) # "starting" /\ directSignals[q] = <<>>

\* An attempt takes too long, or an open link is silent for thirty seconds; of
\* two that do not match, the older one's time is over first.
TimesOut(p) ==
  /\ Hopeless(p)
  /\ has(Other(p)) => directLink[p].id < directLink[Other(p)].id
  /\ discard(p)
  /\ UNCHANGED <<directSignals, directWanted, directIds, directTroubles>>

\* It does so although the other end is there, or the network fails.
Breaks(p) ==
  /\ has(p) /\ Trouble
  /\ discard(p)
  /\ UNCHANGED <<directSignals, directWanted, directIds>>

\* A minute without files.
Idles(p) ==
  /\ has(p) /\ directWanted = {}
  /\ discard(p)
  /\ UNCHANGED <<directSignals, directWanted, directIds, directTroubles>>

\* The user sends a file, or it is done.
sendFile(p) ==
  /\ directWanted' = directWanted \cup {p}
  /\ directWanted' # directWanted
  /\ UNCHANGED <<directLink, directNonce, directHello, directSignals, directControl, directIds, directTroubles>>

FileEnds(p) ==
  /\ p \in directWanted /\ Trouble
  /\ directWanted' = directWanted \ {p}
  /\ UNCHANGED <<directLink, directNonce, directHello, directSignals, directControl, directIds>>

DirectInit ==
  /\ directLink = [p \in Ends |-> NoLink]
  /\ directNonce = [p \in Ends |-> FALSE]
  /\ directHello = [p \in Ends |-> FALSE]
  /\ directSignals = [p \in Ends |-> <<>>]
  /\ directControl = [p \in Ends |-> <<>>]
  /\ directWanted = {}
  /\ directIds = 0
  /\ directTroubles = 0

DirectNext ==
  \E p \in Ends :
    \/ begin(p) \/ localDescriptionReady(p) \/ receiveSignal(p)
    \/ transportOpened(p) \/ receiveControl(p)
    \/ TimesOut(p) \/ Breaks(p) \/ Idles(p)
    \/ sendFile(p) \/ FileEnds(p)

\* Timers fire and what was sent arrives.
Works(p) ==
  \/ begin(p) \/ localDescriptionReady(p) \/ receiveSignal(p)
  \/ transportOpened(p) \/ receiveControl(p) \/ TimesOut(p)

DirectFairness == \A p \in Ends : WF_directVars(Works(p))

DirectSpec == DirectInit /\ [][DirectNext]_directVars /\ DirectFairness

-----------------------------------------------------------------------------
(* Properties.                                                             *)

BothOpen == \A p \in Ends : stage(p) = "open" /\ Same(p)

\* Whoever has a file for the other gets a link, unless the file ends first:
\* crossing offers, lost descriptions and broken links only delay it, and the
\* two ends do not go on discarding each other's attempts (begin, maintain).
WantedLinkOpens == (directWanted # {}) ~> (BothOpen \/ directWanted = {})
=============================================================================
