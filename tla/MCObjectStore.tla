---------------------------- MODULE MCObjectStore ----------------------------
(* A project, a ticket of it and an assignment of the ticket: a chain, so    *)
(* that retirement has an order and a batch can register a child with its    *)
(* parent.                                                                   *)
EXTENDS ObjectStore

CONSTANTS project, ticket, assignment

Chain == [o \in {ticket, assignment} |-> IF o = ticket THEN project ELSE ticket]

Commits == {<<project, ticket>>, <<ticket, assignment>>, <<assignment>>}

CallerSymmetry == Permutations(Callers)
=============================================================================
