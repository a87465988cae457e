--------------------------- MODULE TicketLifecycle ---------------------------
(***************************************************************************)
(* Tickets, their assignments and the capacity of the actors who own them: *)
(* what the project manager's services do to the store                     *)
(* (src/application/project_management: ticket_lifecycle_service.ts,       *)
(* ticket_registration_service.ts, ticket_blocker_service.ts, and the      *)
(* operations of ticket_workflow.ts built on them).                        *)
(*                                                                         *)
(* Each action is one commit of the repository, so everything it changes   *)
(* changes together.  The services are called in every order their own     *)
(* guards admit: a crash, a restart or a reconciliation sweep between two  *)
(* commits adds no order that is not here.  Which orders the scheduler     *)
(* really produces is the business of CorrectiveFlow.                      *)
(***************************************************************************)
EXTENDS Naturals, FiniteSetsExt

CONSTANTS
    Work,       \* Stories and Tasks
    Bugs,       \* Bug Tickets that may be opened
    Requests,   \* Change Requests that may be opened
    Actors,     \* actor registrations
    None,       \* no actor, no ticket
    Parent,     \* each Task to the Story it inherits its owner from, else None
    Qualified,  \* the actors whose role and capabilities fit a ticket
    Capacity,   \* how many assignments an actor may hold
    Concerns,   \* the tickets a Bug or a Change Request may block
    Failure,    \* a Bug's structural failure identity and target Step
    Submitted   \* the order the Bugs were submitted in

Tickets == Work \cup Bugs \cup Requests

ASSUME TicketAssumption ==
    /\ Work \cap Bugs = {} /\ Work \cap Requests = {} /\ Bugs \cap Requests = {}
    /\ IsFiniteSet(Tickets) /\ IsFiniteSet(Actors)
    /\ None \notin Actors \cup Tickets
    /\ Parent \in [Tickets -> Tickets \cup {None}]
    /\ Qualified \in [Tickets -> SUBSET Actors]
    /\ Capacity \in [Actors -> Nat]
    /\ Concerns \in [Bugs \cup Requests -> SUBSET Tickets]
    /\ \A c \in Bugs \cup Requests : c \notin Concerns[c]
    /\ DOMAIN Failure = Bugs
    /\ Submitted \in [Bugs -> Nat]
    /\ \A b, c \in Bugs : Submitted[b] = Submitted[c] => b = c

VARIABLES
    state,          \* Ticket.state; "absent" before the ticket exists
    registered,     \* the tickets with a registeredAt
    owner,          \* the actor of the accepted active assignment, or None
    consuming,      \* the tickets whose assignment has capacityConsumed
    held,           \* ActorRegistration.activeAssignmentIds
    blockedBy,      \* Ticket.blockedByTicketIds
    duplicateOf     \* BugTicket.duplicateOfTicketId

ticketVars == <<state, registered, owner, consuming, held, blockedBy, duplicateOf>>

States == {"absent", "created", "in_progress", "pending", "resolved",
           "reopened", "cancelled", "closed"}
Terminal == {"closed", "cancelled"}
Startable == {"created", "pending", "reopened"}

TypeOK ==
    /\ state \in [Tickets -> States]
    /\ registered \subseteq Tickets
    /\ owner \in [Tickets -> Actors \cup {None}]
    /\ consuming \subseteq Tickets
    /\ held \in [Actors -> SUBSET Tickets]
    /\ blockedBy \in [Tickets -> SUBSET Tickets]
    /\ duplicateOf \in [Bugs -> Bugs \cup {None}]

Init ==
    /\ state = [t \in Tickets |-> IF t \in Work THEN "created" ELSE "absent"]
    /\ registered = {}
    /\ owner = [t \in Tickets |-> None]
    /\ consuming = {}
    /\ held = [a \in Actors |-> {}]
    /\ blockedBy = [t \in Tickets |-> {}]
    /\ duplicateOf = [b \in Bugs |-> None]

Exists(t) == state[t] # "absent"
Live(t) == Exists(t) /\ state[t] \notin Terminal

-----------------------------------------------------------------------------
\* TICKET_TRANSITIONS.
Transitions == [
    absent      |-> {},
    created     |-> {"in_progress", "pending", "cancelled"},
    in_progress |-> {"pending", "resolved", "cancelled"},
    pending     |-> {"in_progress", "cancelled"},
    resolved    |-> {"closed", "reopened"},
    reopened    |-> {"in_progress", "cancelled"},
    cancelled   |-> {"reopened", "closed"},
    closed      |-> {}]

\* (mutant) Work that resumes does not reserve its slot again.
ReconciledReleasing(next, parked) ==
    [a \in Actors |->
        {t \in held[a] :
            (t \in consuming /\ owner[t] = a /\ (next[t] # state[t] \/ t \in parked))
                => next[t] = "in_progress"}]

\* reconcileActorCapacity, for every ticket a commit moves or parks: an owner
\* holds its reservation in in_progress and at no other time.
Reconciled(next, parked) ==
    [a \in Actors |->
        {t \in Tickets :
            IF t \in consuming /\ owner[t] = a /\ (next[t] # state[t] \/ t \in parked)
            THEN next[t] = "in_progress"
            ELSE t \in held[a]}]

\* The part of a commit that prepareTransitionPath contributes, for all the
\* tickets it moves: the new states, the assignments that end with them, and the
\* owners' reservations.  `parked' are the tickets blocked where they are.
Move(next, parked) ==
    /\ state' = next
    /\ held' = Reconciled(next, parked)
    /\ owner' = [t \in Tickets |->
                    IF next[t] \in Terminal /\ next[t] # state[t] THEN None ELSE owner[t]]
    /\ UNCHANGED consuming

\* One ticket takes one transition.
To(t, next) == [state EXCEPT ![t] = next]

CanMove(t, next) ==
    /\ t \in registered
    /\ next \in Transitions[state[t]]
    /\ next = "in_progress" => owner[t] # None

\* What blocking does to the states: work that executes is parked, work that
\* does not stays where it is.
Parking(blocked) ==
    [t \in Tickets |-> IF t \in blocked /\ state[t] = "in_progress" THEN "pending" ELSE state[t]]

\* The tickets of one commit are prepared one by one from what the store holds,
\* so two that change one owner's reservations are two revisions of that actor,
\* and the registry refuses the second: the whole commit fails.
OneRevisionEach(next, parked) ==
    \A a \in Actors : Cardinality(held[a] \ Reconciled(next, parked)[a]) <= 1

Blocking(blocked, blocker) ==
    [t \in Tickets |-> IF t \in blocked THEN blockedBy[t] \cup {blocker} ELSE blockedBy[t]]

-----------------------------------------------------------------------------
\* openBug: the Bug and the blocks on the live work it concerns, one commit.
OpenBug(b, blocked) ==
    /\ state[b] = "absent"
    /\ \A t \in blocked : Live(t)
    /\ OneRevisionEach(Parking(blocked), blocked)
    /\ Move([Parking(blocked) EXCEPT ![b] = "created"], blocked)
    /\ blockedBy' = Blocking(blocked, b)
    /\ UNCHANGED <<registered, duplicateOf>>

\* register: PM validates the ticket.
Register(t) ==
    /\ Exists(t) /\ t \notin registered
    /\ registered' = registered \cup {t}
    /\ UNCHANGED <<state, owner, consuming, held, blockedBy, duplicateOf>>

\* The Bugs that make `b' a duplicate: registered, authoritative, still active,
\* of the same failure and submitted before it.
Originals(b) ==
    {o \in (Bugs \cap registered) \ {b} :
        /\ duplicateOf[o] = None
        /\ state[o] \notin Terminal
        /\ Failure[o] = Failure[b]
        /\ Submitted[o] < Submitted[b]}

\* checkAndParkDuplicate and the commit of parkDuplicateBug: the duplicate
\* follows the oldest original.  A resolved or reopened Bug cannot become
\* pending: the commit is refused.
ParkDuplicate(b) ==
    /\ b \in registered /\ duplicateOf[b] = None
    /\ state[b] = "pending" \/ CanMove(b, "pending")
    /\ Move(To(b, "pending"), {b})
    /\ \E o \in Originals(b) :
          /\ \A p \in Originals(b) : Submitted[o] <= Submitted[p]
          /\ duplicateOf' = [duplicateOf EXCEPT ![b] = o]
    /\ UNCHANGED <<registered, blockedBy>>

\* RoleRegistry.ineligibility: the capacity a ticket already holds does not count
\* against it.
MayKeep(t) ==
    /\ owner[t] \in Qualified[t]
    /\ Cardinality(held[owner[t]] \ {t}) < Capacity[owner[t]]

\* The assignment routeAndAssign commits: the previous one is released, and the
\* new owner's capacity is reserved if the new one consumes any.
Assign(t, a, consumes) ==
    /\ owner' = [owner EXCEPT ![t] = a]
    /\ consuming' = IF consumes THEN consuming \cup {t} ELSE consuming \ {t}
    /\ held' = [x \in Actors |->
                    (IF t \in consuming /\ owner[t] = x THEN held[x] \ {t} ELSE held[x])
                    \cup (IF consumes /\ x = a THEN {t} ELSE {})]
    /\ UNCHANGED <<state, registered, blockedBy, duplicateOf>>

\* What routeAndAssign asks of a ticket: registered, no duplicate, and without an
\* owner who may keep it.
Assignable(t) ==
    /\ t \in registered
    /\ t \in Bugs => duplicateOf[t] = None
    /\ owner[t] = None \/ ~MayKeep(t)

\* (mutant) A re-route that forgets to release the previous owner.
RouteWithoutRelease(t, a) ==
    /\ Assignable(t) /\ Parent[t] = None
    /\ state[t] \in Startable \cup {"in_progress"}
    /\ a \in Qualified[t] /\ Cardinality(held[a]) < Capacity[a]
    /\ owner' = [owner EXCEPT ![t] = a]
    /\ consuming' = consuming \cup {t}
    /\ held' = [held EXCEPT ![a] = @ \cup {t}]
    /\ UNCHANGED <<state, registered, blockedBy, duplicateOf>>

\* routeAndAssign of the work the scheduler selected: to a qualified actor with
\* capacity to spare, which it reserves.
Route(t, a) ==
    /\ Assignable(t) /\ Parent[t] = None
    /\ state[t] \in Startable \cup {"in_progress"}
    /\ a \in Qualified[t] /\ Cardinality(held[a]) < Capacity[a]
    /\ Assign(t, a, TRUE)

\* routeAndAssign of a Task, inherited from its Story: the owner's capacity is
\* spent once, on the Story.
Inherit(t) ==
    /\ Assignable(t)
    /\ state[t] \in Startable
    /\ Parent[t] # None
    /\ owner[Parent[t]] \in Qualified[t]
    /\ Assign(t, owner[Parent[t]], FALSE)

\* routeAndAssign, administrative: PM closes what was resolved elsewhere.
Administer(t, a) ==
    /\ Assignable(t) /\ t \in Work
    /\ state[t] \in Startable
    /\ a \in Qualified[t]
    /\ Assign(t, a, FALSE)

\* (mutant) A ticket PM has assigned to nobody starts.
StartUnowned(t) ==
    /\ state[t] \in Startable
    /\ t \in registered
    /\ Move(To(t, "in_progress"), {})
    /\ UNCHANGED <<registered, blockedBy, duplicateOf>>

\* The transition of start, startTasks and setSolution.
Start(t) ==
    /\ state[t] \in Startable
    /\ CanMove(t, "in_progress")
    /\ Move(To(t, "in_progress"), {})
    /\ UNCHANGED <<registered, blockedBy, duplicateOf>>

\* The transition of deferNonProjectAttempt and of reclaimUnreachableWork.
Defer(t) ==
    /\ state[t] = "in_progress"
    /\ CanMove(t, "pending")
    /\ Move(To(t, "pending"), {})
    /\ UNCHANGED <<registered, blockedBy, duplicateOf>>

\* awaitVerification, and a source Story that is delivered.  A Task closes with
\* its Story and never rests there.
Resolve(t) ==
    /\ Parent[t] = None
    /\ CanMove(t, "resolved")
    /\ Move(To(t, "resolved"), {})
    /\ UNCHANGED <<registered, blockedBy, duplicateOf>>

\* openChangeRequest: the request opens and its source, whose repair it carries,
\* is handed over in one commit.
HandOff(b, c) ==
    /\ state[c] = "absent"
    /\ CanMove(b, "resolved")
    /\ Move([state EXCEPT ![c] = "created", ![b] = "resolved"], {})
    /\ UNCHANGED <<registered, blockedBy, duplicateOf>>

\* closeVerified and completeTasks: [in_progress, resolved, closed], as much of
\* it as is left, in one commit.
Close(t) ==
    /\ Live(t) /\ t \in registered
    /\ state[t] \in Startable => owner[t] # None
    /\ Move(To(t, "closed"), {})
    /\ UNCHANGED <<registered, blockedBy, duplicateOf>>

\* reopenResolvedForRecurrence: the verdict came back negative.
Reopen(b, blocked) ==
    /\ CanMove(b, "reopened") /\ state[b] = "resolved"
    /\ \A t \in blocked : Live(t)
    /\ OneRevisionEach(Parking(blocked), blocked)
    /\ Move([Parking(blocked) EXCEPT ![b] = "reopened"], blocked)
    /\ blockedBy' = Blocking(blocked, b)
    /\ UNCHANGED <<registered, duplicateOf>>

\* cancelDuplicate.
Cancel(b) ==
    /\ CanMove(b, "cancelled")
    /\ Move(To(b, "cancelled"), {})
    /\ UNCHANGED <<registered, blockedBy, duplicateOf>>

\* ensureVerificationStoryBlocked: one more blocker on one ticket.
Block(t, c) ==
    /\ Live(t) /\ Live(c) /\ t \in Concerns[c] /\ c \notin blockedBy[t]
    /\ Move(Parking({t}), {t})
    /\ blockedBy' = Blocking({t}, c)
    /\ UNCHANGED <<registered, duplicateOf>>

\* unblock: one blocker off one ticket.  With the last one the work resumes --
\* whatever its owner has taken on in the meantime -- unless the caller only
\* removes the edge.
Unblock(t, c, resume) ==
    /\ c \in blockedBy[t]
    /\ blockedBy' = [blockedBy EXCEPT ![t] = @ \ {c}]
    /\ IF resume /\ blockedBy[t] = {c} /\ state[t] = "pending"
       THEN CanMove(t, "in_progress") /\ Move(To(t, "in_progress"), {})
       ELSE UNCHANGED <<state, owner, consuming, held>>
    /\ UNCHANGED <<registered, duplicateOf>>

Next ==
    \/ \E b \in Bugs :
          \/ ParkDuplicate(b) \/ Cancel(b)
          \/ \E blocked \in SUBSET Concerns[b] : OpenBug(b, blocked) \/ Reopen(b, blocked)
          \/ \E c \in Requests : HandOff(b, c)
    \/ \E t \in Tickets :
          \/ Register(t) \/ Inherit(t) \/ Start(t) \/ Defer(t) \/ Resolve(t) \/ Close(t)
          \/ \E a \in Actors : Route(t, a) \/ Administer(t, a)
          \/ \E c \in Bugs \cup Requests, resume \in BOOLEAN :
                Block(t, c) \/ Unblock(t, c, resume)

Spec == Init /\ [][Next]_ticketVars

-----------------------------------------------------------------------------
\* "Execution ownership is the invariant: no role may work a Ticket PM has not
\* assigned to it": whatever executes was registered and has an owner.
OwnedWork ==
    \A t \in Tickets : state[t] = "in_progress" => t \in registered /\ owner[t] # None

\* An actor holds reservations only for assignments it still has, of work that
\* executes or may start: no path through a ticket's life leaks a slot.
ReservationsAreLive ==
    \A a \in Actors : \A t \in held[a] :
        /\ owner[t] = a /\ t \in consuming
        /\ state[t] \in Startable \cup {"in_progress"}

\* The other way round: work that executes on an assignment of its own holds its
\* owner's slot, so the owner is not given more.
ExecutionHoldsASlot ==
    \A t \in consuming : state[t] = "in_progress" => t \in held[owner[t]]
=============================================================================
