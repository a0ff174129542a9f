------------------------------ MODULE MCVoice ------------------------------
(* Voice with two links to the peer.                                       *)
EXTENDS Voice, TLC
=============================================================================
