------------------------- MODULE MCPresenceRegistry -------------------------
(* PresenceRegistry with three users, one conversation known by name         *)
(* and two rooms of two.  A user knows everybody or nobody, and is free,      *)
(* busy or in the conversation.                                              *)
EXTENDS PresenceRegistry, TLC

CONSTANT m

Says(known, busy, mesh) == [known |-> known, busy |-> busy, mesh |-> mesh]

FewPublications ==
  {Says(Sessions, FALSE, None), Says(Sessions, TRUE, None), Says(Sessions, FALSE, m),
   Says({}, FALSE, m)}

Symmetry == Permutations(Sessions) \cup Permutations(Tokens) \cup Permutations(RoomIds)

=============================================================================
