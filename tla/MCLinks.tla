------------------------------ MODULE MCLinks ------------------------------
(***************************************************************************)
(* Links, in two parts that share no state, one beside the other: both     *)
(* ends of one link, between a and b, and all the links of a mesh of three *)
(* peers.  A behaviour is one of one of them, and the other stays in its   *)
(* initial state.                                                          *)
(*                                                                         *)
(* The mesh grows from nothing, with peer 1 inviting; or it is full, and   *)
(* any peer leaves, one link fails and peer 1 invites.  Packets are read   *)
(* before a user, a link or a timer acts.                                  *)
(***************************************************************************)
EXTENDS Link

CONSTANTS a, b

VARIABLES subject, node, founded, texts, leaves, meshFaults

M == INSTANCE MCMesh WITH
       Peers <- {1, 2, 3}, MaxPeers <- 3, RetryDelays <- 1, Founder <- 1, Inviters <- {1},
       Leavers <- {1, 2, 3}, MaxLinks <- 4, MaxLeaves <- 1, MaxFaults <- 1, Prompt <- TRUE,
       faults <- meshFaults

meshVars == <<node, founded, texts, leaves, meshFaults>>
bothVars == <<subject, vars, meshVars>>

BothInit ==
  /\ subject \in {"link", "mesh"}
  /\ Init
  /\ \/ M!InitFresh
     \/ M!InitFormed /\ subject = "mesh"
  /\ subject = "mesh" => meshManaged /\ initiator = Offerer

LinkTurn == subject = "link" /\ Next /\ UNCHANGED <<subject, meshVars>>

MeshTurn == subject = "mesh" /\ M!MeshNext /\ UNCHANGED <<subject, vars>>

BothSpec == BothInit /\ [][LinkTurn \/ MeshTurn]_bothVars

-----------------------------------------------------------------------------

\* Peers never hold two attempts at one link, whatever is lost, late or refused
\* (MeshCoordinator).
LinksAreSound == subject = "mesh" => M!LinksAreSound

\* No link works to a peer out of view, and at rest none is missing to a peer in
\* view (MeshCoordinator).
ViewsAreLinks == subject = "mesh" => M!ViewsAreLinks

\* A peer that was forgotten is known again only where a link to it has just
\* opened (MeshCoordinator::rememberPeer).
ForgottenStayAway == M!ForgottenStayAway
=============================================================================
