----------------------------- MODULE MCSettling -----------------------------
(***************************************************************************)
(* What has to come to an end, in five parts that share no state, one      *)
(* beside the other: a shared screen, an update, a link between two        *)
(* friends, the asks the server keeps, and a mesh that has lost a link.  A *)
(* behaviour is one of one of them, under that part's own fairness, and    *)
(* the rest stay in their initial states.                                  *)
(*                                                                         *)
(* Three peers start sharing twice, or once with one mishap; two users ask *)
(* one another; three peers in a full mesh lose one link.                  *)
(***************************************************************************)
EXTENDS Updates, MCMesh

CONSTANTS Sharers, MaxStarts, MaxActs, Sessions, Tokens, RoomIds, None, Conversation

VARIABLES
  subject,

  shareLocal, shareView, shareRetired, sharePeers, shareUp, shareWire, shareStarts, shareTroubles,
  abandoned,   \* history: somebody may have given up a stream that is still shared

  directLink, directNonce, directHello, directSignals, directControl, directWanted, directIds,
  directTroubles,

  guests, tickets, offered, open, profiles, cooling, snapshot, knocks, contacts, waiting, asked

shareVars  == <<shareLocal, shareView, shareRetired, sharePeers, shareUp, shareWire, shareStarts,
                shareTroubles>>
directVars == <<directLink, directNonce, directHello, directSignals, directControl, directWanted,
                directIds, directTroubles>>
askVars    == <<guests, tickets, offered, open, profiles, cooling, snapshot, knocks, contacts,
                waiting, asked>>
allVars    == <<subject, shareVars, abandoned, updateVars, directVars, askVars, meshVars>>

\* Prereleases of one version: "a" is older than "a.2", which is installed and
\* older than "a.a".
Number(n) == [numeric |-> TRUE, rank |-> n]
Name(n)   == [numeric |-> FALSE, rank |-> n]

Prerelease(parts) == [core |-> 1, dash |-> TRUE, pre |-> parts]

InstalledPrerelease == Prerelease(<<Name(1), Number(2)>>)
Prereleases ==
  {Prerelease(<<Name(1)>>), InstalledPrerelease, Prerelease(<<Name(1), Name(1)>>)}

\* A user knows everybody or nobody, and is free, busy or in the conversation.
Says(known, busy, mesh) == [known |-> known, busy |-> busy, mesh |-> mesh]

FewPublications ==
  {Says(Sessions, FALSE, None), Says(Sessions, TRUE, None), Says(Sessions, FALSE, Conversation),
   Says({}, FALSE, Conversation)}

Share  == INSTANCE ScreenShare WITH MaxTroubles <- 1
Direct == INSTANCE PersonalLink WITH Ends <- {1, 2}, MaxLinkIds <- 12, MaxTroubles <- 2
Asking == INSTANCE PresenceRegistry WITH
            Meshes <- {Conversation}, RoomCapacity <- 2, Publications <- FewPublications,
            Lifetime <- 2, Pause <- 1, MaxAsks <- 2

Init ==
  /\ subject \in {"share", "update", "direct", "asks", "mesh"}
  /\ Share!ShareInit /\ UpdateInit /\ Direct!DirectInit /\ Asking!Init
  /\ IF subject = "mesh" THEN InitFormed ELSE InitFresh
  /\ subject # "update" => updateKind = "managed"
  /\ abandoned = FALSE

ShareNext ==
  /\ subject = "share" /\ Share!ShareNext
  /\ abandoned' = (abandoned \/ \E p \in Sharers : Share!WithdrawsFromContest(p) \/ Share!TurnsToEnded(p))
  /\ UNCHANGED <<subject, updateVars, directVars, askVars, meshVars>>

UpdateTurn ==
  /\ subject = "update" /\ UpdateNext
  /\ UNCHANGED <<subject, shareVars, abandoned, directVars, askVars, meshVars>>

DirectNext ==
  /\ subject = "direct" /\ Direct!DirectNext
  /\ UNCHANGED <<subject, shareVars, abandoned, updateVars, askVars, meshVars>>

AsksNext ==
  /\ subject = "asks" /\ Asking!Next
  /\ UNCHANGED <<subject, shareVars, abandoned, updateVars, directVars, meshVars>>

MeshTurn ==
  /\ subject = "mesh" /\ MeshNext
  /\ UNCHANGED <<subject, shareVars, abandoned, updateVars, directVars, askVars>>

Next == ShareNext \/ UpdateTurn \/ DirectNext \/ AsksNext \/ MeshTurn

ShareFairness ==
  /\ \A p \in Sharers :
       /\ WF_shareVars(subject = "share" /\ Share!announce(p))
       /\ WF_shareVars(subject = "share" /\ Share!ViewTimesOut(p))
  /\ \A p, q \in Sharers :
       /\ WF_shareVars(subject = "share" /\ \E w \in shareWire : w.from = p /\ w.to = q /\ Share!receive(w))
       /\ WF_shareVars(subject = "share" /\ Share!Disconnected(p, q))
       /\ WF_shareVars(subject = "share" /\ Share!Connected(p, q))

UpdateTurns ==
  /\ WF_updateVars(subject = "update" /\ RunPosted)
  /\ WF_updateVars(subject = "update" /\ TakeTask)
  /\ WF_updateVars(subject = "update" /\ WorkerStep)

DirectFairness == \A p \in {1, 2} : WF_directVars(subject = "direct" /\ Direct!Works(p))

AsksFairness ==
  /\ WF_askVars(subject = "asks" /\ Asking!Tick)
  /\ WF_askVars(subject = "asks" /\ Asking!maintainConnections)

MeshTurns ==
  /\ WF_meshVars(subject = "mesh" /\ \E p \in {1, 2, 3} : Packets(p))
  /\ WF_meshVars(subject = "mesh" /\ \E p \in {1, 2, 3} : Transport(p))
  /\ WF_meshVars(subject = "mesh" /\ \E p \in {1, 2, 3} : Timers(p))

\* Each part's own fairness, as that part states it.
Fairness == ShareFairness /\ UpdateTurns /\ DirectFairness /\ AsksFairness /\ MeshTurns

Spec == Init /\ [][Next]_allVars /\ Fairness

-----------------------------------------------------------------------------

\* Once nobody starts or fails any more, of two that are connected one at most
\* shares and nobody views what is not shared.  And who is connected to a sharer
\* views a screen, so that in a full mesh all have the same owner; of this there
\* are two exceptions: a sharer withdrew before a contest was decided, or a late
\* announcement turned a viewer to a stream that had ended.  Either makes a viewer
\* give up what is still shared (ScreenShareService::receive, announce, maintain).
SharingSettles ==
  subject = "share" => <>[](Share!NoneMisled /\ (abandoned \/ Share!NoneLeftOut))

\* No check and no download stays under way for good (UpdateService::post).
NoTaskHangs == subject = "update" => WaitingEnds

\* A friend with a file to send gets a link (PersonalConnections::maintain).
WantedLinkOpens == subject = "direct" => Direct!WantedLinkOpens

\* Every ask comes to an end for the one who made it (PresenceRegistry).
EveryAskEnds == subject = "asks" => Asking!EveryAskEnds

\* A mesh that has lost a link is full again (MeshCoordinator).
MeshCloses == subject = "mesh" => CloseAgain

=============================================================================
