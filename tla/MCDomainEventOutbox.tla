------------------------ MODULE MCDomainEventOutbox ------------------------
(***************************************************************************)
(* Instances of DomainEventOutbox: two calls in one process, which share   *)
(* its bus, and one in another.                                            *)
(***************************************************************************)
EXTENDS DomainEventOutbox

CONSTANTS e1, e2, p1, p2, a1, a2, b1

MCProcessOf == [w \in Worker |-> IF w = b1 THEN p2 ELSE p1]
=============================================================================
