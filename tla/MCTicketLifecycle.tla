------------------------- MODULE MCTicketLifecycle -------------------------
(* A Story with a Task, a Bug either actor can repair, a later Bug of the   *)
(* same failure that blocks both, and a Change Request the first Bug may be  *)
(* handed to.  An actor has one slot, so a Story that resumes while its      *)
(* owner repairs the Bug takes the owner over its capacity.                  *)
EXTENDS TicketLifecycle

CONSTANTS story, task, b1, b2, cr, coder, tester

MCParent == [t \in Tickets |-> IF t = task THEN story ELSE None]

MCQualified ==
    [t \in Tickets |-> CASE t = cr -> {tester}
                         [] t = b1 -> {coder, tester}
                         [] t = b2 -> {}
                         [] OTHER -> {coder}]

MCCapacity == [a \in Actors |-> 1]

MCConcerns ==
    [c \in Bugs \cup Requests |-> IF c = b2 THEN {story, b1} ELSE {}]

MCFailure == [b \in Bugs |-> "failure"]

MCSubmitted == [b \in Bugs |-> IF b = b1 THEN 1 ELSE 2]
=============================================================================
