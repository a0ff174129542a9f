-------------------------- MODULE MCSignalingServer --------------------------
(* SignalingServer on four connections, two rooms, four peer ids and three   *)
(* tokens, with a clock that ticks once.  Every limit is reached: a room     *)
(* holds three, has one invitation out, and two rooms is the most there are. *)
(* An invitation made at time 0 expires at time 1.                           *)
EXTENDS SignalingServer, TLC

Symmetry ==
  Permutations(Sessions) \cup Permutations(RoomIds) \cup
  Permutations(PeerIds) \cup Permutations(Tokens)

=============================================================================
