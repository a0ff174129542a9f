------------------------------- MODULE MCMesh -------------------------------
(***************************************************************************)
(* Mesh of three peers.  InitFormed is where the first peer has invited    *)
(* the other two, these have linked to each other, and the packets of it   *)
(* all are read and out of memory.  InitFresh is a mesh that nobody leaves *)
(* and whose links do not fail once they are open, of peers that have each *)
(* had a connection before.                                                *)
(***************************************************************************)
EXTENDS Mesh

Formed ==
  LET link(p, q) == IF p = 1 THEN [by |-> 1, no |-> q - 1] ELSE [by |-> p, no |-> 1]
      least(p, q) == IF p < q THEN p ELSE q
      other(p, q) == IF p < q THEN q ELSE p
      id(p, q) == link(least(p, q), other(p, q))
      kind(p, q) == IF 1 \in {p, q} THEN (IF p < q THEN "ManualOffer" ELSE "ManualAnswer")
                                    ELSE (IF p < q THEN "MeshOffer" ELSE "MeshAnswer")
      gen(p, q) == IF 1 \in {p, q} THEN 0 ELSE 1
      end(p, q) == [Connection(kind(p, q), q, gen(p, q), other(p, q)) EXCEPT
                      !.produced = TRUE, !.open = TRUE]
      whom(p, i) == CHOOSE q \in Peers \ {p} : id(p, q) = i
  IN  [p \in Peers |->
        [create(p, FreshNode) EXCEPT
           !.known = Peers,
           !.gen   = [q \in Peers |-> IF q = p THEN 0 ELSE gen(p, q)],
           !.conn  = [i \in {id(p, q) : q \in Peers \ {p}} |-> end(p, whom(p, i))],
           !.made  = IF p = 3 THEN 0 ELSE IF p = 1 THEN 2 ELSE 1]]

InitFormed ==
  /\ node = Formed
  /\ founded = TRUE
  /\ texts = {}
  /\ leaves = 0
  /\ faults = 0

InitFresh ==
  /\ node = [p \in Peers |-> [FreshNode EXCEPT !.made = 1]]
  /\ founded = FALSE
  /\ texts = {}
  /\ leaves = MaxLeaves
  /\ faults = MaxFaults

FormedSpec     == InitFormed /\ [][MeshNext]_meshVars
FormedFairSpec == FormedSpec /\ MeshFairness
=============================================================================
