----------------------------- MODULE MCServices -----------------------------
(***************************************************************************)
(* Six parts of a client that share no state, one beside the other: the    *)
(* connection to the server, the chat, who shares a screen, the pictures   *)
(* of it, the asks between friends, and the probing of a far peer.  A      *)
(* behaviour is one of one of them, and the rest stay in their initial     *)
(* states.                                                                 *)
(*                                                                         *)
(* Two peers chat over two links, three messages with two of them kept in  *)
(* mind; three peers start sharing twice, with one mishap; two streams     *)
(* send three pictures or sounds of up to two pieces; two friends and the  *)
(* user ask one another twice; peer 1 probes peer 4 over peers 2 and 3,    *)
(* and four links change.                                                  *)
(***************************************************************************)
EXTENDS ServerSession, Messaging, ScreenShare, ScreenVideo, Asks, Reachability

VARIABLE subject

allVars == <<subject, sessionVars, chatVars, shareVars, videoVars, askVars, reachVars>>

Init ==
  /\ subject \in {"server", "chat", "share", "video", "asks", "reach"}
  /\ SessionInit /\ ChatInit /\ ShareInit /\ VideoInit /\ AsksInit
  /\ ReachInit
  /\ subject # "server" => state = "Disabled" /\ grant

ServerTurn ==
  /\ subject = "server" /\ SessionNext
  /\ UNCHANGED <<subject, chatVars, shareVars, videoVars, askVars, reachVars>>

ChatTurn ==
  /\ subject = "chat" /\ ChatNext
  /\ UNCHANGED <<subject, sessionVars, shareVars, videoVars, askVars, reachVars>>

ShareTurn ==
  /\ subject = "share" /\ ShareNext
  /\ UNCHANGED <<subject, sessionVars, chatVars, videoVars, askVars, reachVars>>

VideoTurn ==
  /\ subject = "video" /\ VideoNext
  /\ UNCHANGED <<subject, sessionVars, chatVars, shareVars, askVars, reachVars>>

AskTurn ==
  /\ subject = "asks" /\ AsksNext
  /\ UNCHANGED <<subject, sessionVars, chatVars, shareVars, videoVars, reachVars>>

ReachTurn ==
  /\ subject = "reach" /\ ReachNext
  /\ UNCHANGED <<subject, sessionVars, chatVars, shareVars, videoVars, askVars>>

Next == ServerTurn \/ ChatTurn \/ ShareTurn \/ VideoTurn \/ AskTurn \/ ReachTurn

Spec == Init /\ [][Next]_allVars

=============================================================================
