---------------------------- MODULE ScreenShare ----------------------------
(***************************************************************************)
(* Who shares a screen in a mesh, and who views whose                      *)
(* (client/src/sharing/screen_share_service.cpp).                          *)
(*                                                                         *)
(* There is no server to ask: whoever starts announces its stream to all   *)
(* and goes on announcing it, and of two that start at once the one with   *)
(* the smaller identity wins.  The stream channel neither keeps its order  *)
(* nor sends again what was lost, so that a Stop may never arrive or may   *)
(* be overtaken by an Announce sent before it; what is under way is a set. *)
(*                                                                         *)
(* The pictures and the sound of a stream are in ScreenVideo.  Clocks are  *)
(* left out: a viewer's five seconds pass when nothing is announced to it  *)
(* any more, or, MaxTroubles times, because so many announcements were lost. *)
(***************************************************************************)
EXTENDS Integers, FiniteSets

CONSTANTS
  Sharers,   \* peers: a set of numbers, as identities are ordered
  MaxStarts,
  MaxTroubles, \* messages lost, silences, links that fail, and members that leave
  MaxActs      \* starts and troubles together

ASSUME ShareAssumption ==
  Sharers \subseteq Nat \ {0} /\ MaxStarts \in Nat /\ MaxTroubles \in Nat /\ MaxActs \in Nat

VARIABLES
  shareLocal,    \* localStream: the stream a peer shares, or 0
  shareView,     \* remoteIdentity and remoteStream
  shareRetired,  \* stoppedStreams
  sharePeers,    \* peers the service takes for connected
  shareUp,       \* pairs whose link is open
  shareWire,     \* messages under way
  shareStarts, shareTroubles

shareCounts == <<shareStarts, shareTroubles>>
shareVars == <<shareLocal, shareView, shareRetired, sharePeers, shareUp, shareWire, shareCounts>>

mayAct  == shareStarts + shareTroubles < MaxActs
Trouble == mayAct /\ shareTroubles < MaxTroubles /\ shareTroubles' = shareTroubles + 1

Nobody == [peer |-> 0, stream |-> 0]
SharePairs == {pair \in SUBSET Sharers : Cardinality(pair) = 2}
ShareMessage(kind, p, q, s) == [kind |-> kind, from |-> p, to |-> q, stream |-> s]
Sent(kind, p, s) == {ShareMessage(kind, p, q, s) : q \in {r \in sharePeers[p] : {p, r} \in shareUp}}

sharing(p) == shareLocal[p] # 0
viewing(p) == shareView[p] # Nobody

-----------------------------------------------------------------------------
(* Starting and stopping.                                                  *)

\* retire: a stream given up once is not looked at again.
retire(p, streams) == shareRetired' = [shareRetired EXCEPT ![p] = @ \cup streams]

Own(p) == IF sharing(p) THEN {[peer |-> p, stream |-> shareLocal[p]]} ELSE {}
Stops(p) == IF sharing(p) THEN Sent("Stop", p, shareLocal[p]) ELSE {}

\* Faulty: a peer that views another's screen may start its own.
mayStart_Viewing(p) == sharePeers[p] # {}

mayStart(p) == ~viewing(p) /\ sharePeers[p] # {}

\* start: a stream of one's own that is under way is stopped first.
start(p) ==
  /\ mayStart(p)
  /\ mayAct /\ shareStarts < MaxStarts /\ shareStarts' = shareStarts + 1
  /\ shareLocal' = [shareLocal EXCEPT ![p] = shareStarts']
  /\ retire(p, Own(p))
  /\ shareWire' = shareWire \cup Stops(p) \cup Sent("Announce", p, shareStarts')
  /\ UNCHANGED <<shareView, sharePeers, shareUp, shareTroubles>>

\* stop, by the user or because the capture failed.
stop(p) ==
  /\ sharing(p)
  /\ shareLocal' = [shareLocal EXCEPT ![p] = 0]
  /\ retire(p, Own(p))
  /\ shareWire' = shareWire \cup Stops(p)
  /\ UNCHANGED <<shareView, sharePeers, shareUp, shareCounts>>

\* announce, every second.
announce(p) ==
  /\ sharing(p)
  /\ shareWire' = shareWire \cup Sent("Announce", p, shareLocal[p])
  /\ UNCHANGED <<shareLocal, shareView, shareRetired, sharePeers, shareUp, shareCounts>>

\* maintain: nothing was heard of the stream for five seconds.  It is not shared
\* any more, or, which nobody can count on, all that was sent of it was lost.
ViewGoes(p) ==
  /\ viewing(p)
  /\ shareView' = [shareView EXCEPT ![p] = Nobody]
  /\ UNCHANGED <<shareLocal, shareRetired, sharePeers, shareUp, shareWire, shareStarts>>

ViewTimesOut(p) ==
  /\ ViewGoes(p)
  /\ shareLocal[shareView[p].peer] # shareView[p].stream
  /\ UNCHANGED shareTroubles

AllLost(p) == ViewGoes(p) /\ Trouble

-----------------------------------------------------------------------------
(* Messages.                                                               *)

Of(m) == [peer |-> m.from, stream |-> m.stream]

\* A stream that is stopped is given up, viewed or not.
receiveStop(m) ==
  /\ shareView' = [shareView EXCEPT ![m.to] = IF @ = Of(m) THEN Nobody ELSE @]
  /\ retire(m.to, {Of(m)})

\* Faulty: whoever hears another's announcement goes on sharing.
yields_Never(p, q) == FALSE

\* Of two that share, the one with the greater identity yields.
yields(p, q) == sharing(p) /\ ~(p < q)

\* A sharer that does not yield announces itself in return; otherwise the new
\* stream replaces the one viewed, unless that one's owner comes first.
receiveAnnounce(m) ==
  LET p == m.to
      keeps == sharing(p) /\ ~yields(p, m.from)
      prefers == viewing(p) /\ shareView[p].peer < m.from
      replaces == ~keeps /\ ~prefers /\ shareView[p] # Of(m) IN
  /\ shareLocal' = [shareLocal EXCEPT ![p] = IF yields(p, m.from) THEN 0 ELSE @]
  /\ retire(p, (IF yields(p, m.from) THEN Own(p) ELSE {})
               \cup IF replaces /\ viewing(p) THEN {shareView[p]} ELSE {})
  /\ shareView' = [shareView EXCEPT ![p] = IF replaces THEN Of(m) ELSE @]
  /\ shareWire' = (shareWire \ {m}) \cup
       (IF keeps THEN Sent("Announce", p, shareLocal[p]) ELSE {}) \cup
       (IF yields(p, m.from) THEN Stops(p) ELSE {})

\* receive: nothing of a peer that is not connected, nor of a stream given up.
receive(m) ==
  /\ m \in shareWire
  /\ IF m.from \notin sharePeers[m.to] \/ Of(m) \in shareRetired[m.to]
     THEN /\ shareWire' = shareWire \ {m}
          /\ UNCHANGED <<shareLocal, shareView, shareRetired>>
     ELSE IF m.kind = "Stop"
     THEN receiveStop(m) /\ shareWire' = shareWire \ {m} /\ UNCHANGED shareLocal
     ELSE receiveAnnounce(m)
  /\ UNCHANGED <<sharePeers, shareUp, shareCounts>>

Lose(m) ==
  /\ m \in shareWire
  /\ Trouble
  /\ shareWire' = shareWire \ {m}
  /\ UNCHANGED <<shareLocal, shareView, shareRetired, sharePeers, shareUp, shareStarts>>

-----------------------------------------------------------------------------
(* Links.                                                                  *)

LinkFails(pair) ==
  /\ pair \in shareUp
  /\ Trouble
  /\ shareUp' = shareUp \ {pair}
  /\ shareWire' = {m \in shareWire : {m.from, m.to} # pair}
  /\ UNCHANGED <<shareLocal, shareView, shareRetired, sharePeers, shareStarts>>

LinkReturns(pair) ==
  /\ pair \notin shareUp
  /\ \A p \in pair : sharePeers[p] \cap pair = {}
  /\ shareUp' = shareUp \cup {pair}
  /\ UNCHANGED <<shareLocal, shareView, shareRetired, sharePeers, shareWire, shareCounts>>

\* setPeerConnected(false): the last peer takes the stream with it.
Disconnected(p, q) ==
  LET alone == sharePeers[p] \ {q} = {} IN
  /\ q \in sharePeers[p] /\ {p, q} \notin shareUp
  /\ sharePeers' = [sharePeers EXCEPT ![p] = @ \ {q}]
  /\ shareView' = [shareView EXCEPT ![p] = IF @.peer = q THEN Nobody ELSE @]
  /\ IF alone
     THEN shareLocal' = [shareLocal EXCEPT ![p] = 0] /\ retire(p, Own(p))
     ELSE UNCHANGED <<shareLocal, shareRetired>>
  /\ UNCHANGED <<shareUp, shareWire, shareCounts>>

\* leaveMesh: all links are discarded, and each takes its peer along before the
\* service is cleared, so that nobody is told and no other's stream is given up.
leave(p) ==
  /\ sharePeers[p] # {}
  /\ Trouble
  /\ shareLocal' = [shareLocal EXCEPT ![p] = 0]
  /\ shareView' = [shareView EXCEPT ![p] = Nobody]
  /\ retire(p, Own(p))
  /\ sharePeers' = [sharePeers EXCEPT ![p] = {}]
  /\ shareUp' = {pair \in shareUp : p \notin pair}
  /\ shareWire' = {m \in shareWire : p \notin {m.from, m.to}}
  /\ UNCHANGED shareStarts

\* setPeerConnected(true)
Connected(p, q) ==
  /\ q \notin sharePeers[p] /\ {p, q} \in shareUp /\ p # q
  /\ sharePeers' = [sharePeers EXCEPT ![p] = @ \cup {q}]
  /\ shareWire' = shareWire \cup
       (IF sharing(p) THEN Sent("Announce", p, shareLocal[p]) \cup {ShareMessage("Announce", p, q, shareLocal[p])}
        ELSE {})
  /\ UNCHANGED <<shareLocal, shareView, shareRetired, shareUp, shareCounts>>

ShareInit ==
  /\ shareLocal = [p \in Sharers |-> 0]
  /\ shareView = [p \in Sharers |-> Nobody]
  /\ shareRetired = [p \in Sharers |-> {}]
  /\ sharePeers = [p \in Sharers |-> Sharers \ {p}]
  /\ shareUp = SharePairs
  /\ shareWire = {}
  /\ shareStarts = 0 /\ shareTroubles = 0

ShareNext ==
  \/ \E p \in Sharers :
       start(p) \/ stop(p) \/ announce(p) \/ ViewTimesOut(p) \/ AllLost(p) \/ leave(p)
  \/ \E m \in shareWire : receive(m) \/ Lose(m)
  \/ \E pair \in SharePairs : LinkFails(pair) \/ LinkReturns(pair)
  \/ \E p, q \in Sharers : Disconnected(p, q) \/ Connected(p, q)

\* Timers and closed links are acted upon, and what is sent again and again
\* arrives.
ShareFairness ==
  /\ \A p \in Sharers : WF_shareVars(announce(p)) /\ WF_shareVars(ViewTimesOut(p))
  /\ \A p, q \in Sharers :
       /\ WF_shareVars(\E m \in shareWire : m.from = p /\ m.to = q /\ receive(m))
       /\ WF_shareVars(Disconnected(p, q))
       /\ WF_shareVars(Connected(p, q))

ShareSpec == ShareInit /\ [][ShareNext]_shareVars /\ ShareFairness

-----------------------------------------------------------------------------
(* Properties.                                                             *)

\* Nobody shares and views at once; nobody views a stream it has given up,
\* however late an announcement of it arrives; and nobody goes on viewing a peer
\* it has lost (start, receive, setPeerConnected).
OneScreenEach ==
  \A p \in Sharers :
    /\ ~(sharing(p) /\ viewing(p))
    /\ shareView[p] \notin shareRetired[p]
    /\ viewing(p) => shareView[p].peer \in sharePeers[p]

\* Of two that are connected one at most shares, and a stream that is viewed is
\* shared.
NoneMisled ==
  \A p, q \in Sharers : {p, q} \in shareUp =>
    /\ ~(sharing(p) /\ sharing(q))
    /\ viewing(p) => shareLocal[shareView[p].peer] = shareView[p].stream

\* Whoever is connected to a sharer views a screen.
NoneLeftOut ==
  \A p, q \in Sharers : {p, q} \in shareUp /\ sharing(p) => viewing(q)

\* A peer ends its own stream, while another shares too, without having heard of
\* the other: its user stops it, or it loses all its peers.
WithdrawsFromContest(p) ==
  /\ sharing(p) /\ shareLocal'[p] = 0
  /\ \E q \in Sharers \ {p} : sharing(q)
  /\ ~\E m \in shareWire : m.to = p /\ receive(m)

\* A late announcement turns a viewer to a stream that has ended, and the one it
\* viewed is given up.
TurnsToEnded(p) ==
  /\ viewing(p) /\ shareView'[p] \notin {Nobody, shareView[p]}
  /\ shareLocal[shareView'[p].peer] # shareView'[p].stream

\* owner
owner(p) == IF sharing(p) THEN p ELSE shareView[p].peer

\* Where all are connected, all have the same owner, or none.
SameOwner == shareUp = SharePairs => \A p, q \in Sharers : owner(p) = owner(q)

StartedOnce(p) == Cardinality({x \in shareRetired[p] : x.peer = p} \cup Own(p)) <= 1

\* What the comment on receive promises: simultaneous starts, one of each peer at
\* most, converge to the same owner once users leave the mesh alone.
StartsConverge == <>[]((\A p \in Sharers : StartedOnce(p)) => SameOwner)
=============================================================================
