------------------------------ MODULE Admission ------------------------------
(***************************************************************************)
(* What the signaling server promises about its rooms, without peer ids,   *)
(* clocks or messages.  Somebody is in a room either because they opened   *)
(* it or because they spent a ticket that a guest of that room had issued. *)
(* A ticket admits one person, lapses at any time, and does not outlive    *)
(* the stay of the guest who issued it.                                    *)
(***************************************************************************)
EXTENDS Integers, FiniteSets

CONSTANTS Sessions, RoomIds, Tokens, RoomCapacity

VARIABLES
  guests,   \* [RoomIds -> set of sessions]
  tickets,  \* tickets that still admit: [token, room, host]
  offered   \* tokens ever issued; a ticket is never issued twice

Ticket == [token : Tokens, room : RoomIds, host : Sessions]

Elsewhere(s) == \A r \in RoomIds : s \notin guests[r]

\* Tickets may lapse in any step.
TicketsFrom(most) == tickets' \in SUBSET most

Init ==
  /\ guests  = [r \in RoomIds |-> {}]
  /\ tickets = {}
  /\ offered = {}

Open(s, r) ==
  /\ Elsewhere(s)
  /\ guests[r] = {}
  /\ guests' = [guests EXCEPT ![r] = {s}]
  /\ TicketsFrom(tickets)
  /\ UNCHANGED offered

Issue(s, r, t) ==
  /\ s \in guests[r]
  /\ t \notin offered
  /\ offered' = offered \cup {t}
  /\ TicketsFrom(tickets \cup {[token |-> t, room |-> r, host |-> s]})
  /\ UNCHANGED guests

Enter(s, k) ==
  /\ k \in tickets
  /\ Elsewhere(s)
  /\ Cardinality(guests[k.room]) < RoomCapacity
  /\ guests' = [guests EXCEPT ![k.room] = @ \cup {s}]
  /\ TicketsFrom(tickets \ {k})
  /\ UNCHANGED offered

Leave(s, r) ==
  /\ s \in guests[r]
  /\ guests' = [guests EXCEPT ![r] = @ \ {s}]
  /\ TicketsFrom({k \in tickets : k.host # s})
  /\ UNCHANGED offered

Lapse == TicketsFrom(tickets) /\ UNCHANGED <<guests, offered>>

Next ==
  \/ \E s \in Sessions, r \in RoomIds :
       \/ Open(s, r)
       \/ \E t \in Tokens : Issue(s, r, t)
       \/ Leave(s, r)
  \/ \E s \in Sessions, k \in tickets : Enter(s, k)
  \/ Lapse

vars == <<guests, tickets, offered>>

Spec == Init /\ [][Next]_vars

=============================================================================
