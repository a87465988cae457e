------------------------ MODULE TicketLifecycleProofs ------------------------
(***************************************************************************)
(* What TicketLifecycle keeps for every set of tickets and actors.  All    *)
(* state changes but those of an assignment go through Move, so the        *)
(* inductive step rests on two lemmas: what a Move keeps, and what an      *)
(* Assign keeps.                                                           *)
(***************************************************************************)
EXTENDS TicketLifecycle, TLAPS

\* The inductive invariant: who owns what executes, and the two halves of
\* "held = the consuming assignments that execute or may start".
TicketInv == TypeOK /\ OwnedWork /\ ReservationsAreLive /\ ExecutionHoldsASlot

\* The part of TicketInv a commit's Move or Assign is responsible for.
CoreType ==
    /\ state \in [Tickets -> States]
    /\ owner \in [Tickets -> Actors \cup {None}]
    /\ consuming \subseteq Tickets
    /\ held \in [Actors -> SUBSET Tickets]

\* A commit that moves tickets keeps the invariant whatever it moves, provided
\* that what it sets to work is registered and owned.
LEMMA MoveKeeps ==
    ASSUME TicketInv,
           NEW next \in [Tickets -> States], NEW parked \in SUBSET Tickets,
           Move(next, parked),
           \A t \in Tickets : next[t] = "in_progress" => t \in registered /\ owner[t] # None,
           registered' = registered
    PROVE  CoreType' /\ OwnedWork' /\ ReservationsAreLive' /\ ExecutionHoldsASlot'
PROOF
<1>1. /\ state' = next
      /\ consuming' = consuming
      /\ owner' = [t \in Tickets |->
                      IF next[t] \in Terminal /\ next[t] # state[t] THEN None ELSE owner[t]]
      /\ held' = [a \in Actors |->
                    {t \in Tickets :
                        IF t \in consuming /\ owner[t] = a /\ (next[t] # state[t] \/ t \in parked)
                        THEN next[t] = "in_progress"
                        ELSE t \in held[a]}]
  BY DEF Move, Reconciled
<1>2. CoreType'
  BY <1>1 DEF CoreType, TicketInv, TypeOK
<1>3. OwnedWork'
  BY <1>1 DEF OwnedWork, Terminal
<1>4. ReservationsAreLive'
  <2> SUFFICES ASSUME NEW a \in Actors, NEW t \in held'[a]
               PROVE  /\ owner'[t] = a /\ t \in consuming'
                      /\ state'[t] \in Startable \cup {"in_progress"}
    BY DEF ReservationsAreLive
  <2>1. t \in Tickets
    BY <1>1
  <2>2. CASE t \in consuming /\ owner[t] = a /\ (next[t] # state[t] \/ t \in parked)
    BY <1>1, <2>1, <2>2 DEF Terminal
  <2>3. CASE ~(t \in consuming /\ owner[t] = a /\ (next[t] # state[t] \/ t \in parked))
    <3>1. t \in held[a]
      BY <1>1, <2>1, <2>3
    <3>2. owner[t] = a /\ t \in consuming /\ state[t] \in Startable \cup {"in_progress"}
      BY <3>1 DEF TicketInv, ReservationsAreLive
    <3>3. next[t] = state[t]
      BY <2>3, <3>2
    <3> QED
      BY <1>1, <2>1, <3>2, <3>3
  <2> QED
    BY <2>2, <2>3
<1>5. ExecutionHoldsASlot'
  <2> SUFFICES ASSUME NEW t \in consuming', state'[t] = "in_progress"
               PROVE  t \in held'[owner'[t]]
    BY DEF ExecutionHoldsASlot
  <2>1. t \in Tickets /\ t \in consuming /\ next[t] = "in_progress"
    BY <1>1 DEF TicketInv, TypeOK
  <2>2. owner'[t] = owner[t] /\ owner[t] \in Actors
    BY <1>1, <2>1 DEF Terminal, TicketInv, TypeOK
  <2>3. next[t] = state[t] => t \in held[owner[t]]
    BY <2>1 DEF TicketInv, ExecutionHoldsASlot
  <2> QED
    BY <1>1, <2>1, <2>2, <2>3
<1> QED
  BY <1>2, <1>3, <1>4, <1>5

\* An assignment keeps the invariant: the reservation of the old owner goes with
\* him, and the new one is that of the ticket's only owner.
LEMMA AssignKeeps ==
    ASSUME TicketInv,
           NEW t \in Tickets, NEW a \in Actors, NEW consumes \in BOOLEAN,
           state[t] \in Startable \cup {"in_progress"},
           None \notin Actors,
           Assign(t, a, consumes)
    PROVE  TicketInv'
PROOF
<1>1. /\ owner' = [owner EXCEPT ![t] = a]
      /\ consuming' = IF consumes THEN consuming \cup {t} ELSE consuming \ {t}
      /\ held' = [x \in Actors |->
                     (IF t \in consuming /\ owner[t] = x THEN held[x] \ {t} ELSE held[x])
                     \cup (IF consumes /\ x = a THEN {t} ELSE {})]
      /\ UNCHANGED <<state, registered, blockedBy, duplicateOf>>
  BY DEF Assign
<1>2. TypeOK'
  BY <1>1 DEF TicketInv, TypeOK
<1>3. OwnedWork'
  <2> SUFFICES ASSUME NEW u \in Tickets, state'[u] = "in_progress"
               PROVE  u \in registered' /\ owner'[u] # None
    BY DEF OwnedWork
  <2>1. u \in registered /\ owner[u] # None
    BY <1>1 DEF TicketInv, OwnedWork
  <2> QED
    BY <1>1, <2>1 DEF TicketInv, TypeOK
<1>4. ReservationsAreLive'
  <2> SUFFICES ASSUME NEW x \in Actors, NEW u \in held'[x]
               PROVE  /\ owner'[u] = x /\ u \in consuming'
                      /\ state'[u] \in Startable \cup {"in_progress"}
    BY DEF ReservationsAreLive
  <2>1. CASE u = t
    <3>1. t \in held[x] => t \in consuming /\ owner[t] = x
      BY DEF TicketInv, ReservationsAreLive
    <3>2. consumes /\ x = a
      BY <1>1, <2>1, <3>1
    <3> QED
      BY <1>1, <2>1, <3>2 DEF TicketInv, TypeOK
  <2>2. CASE u # t
    <3>1. u \in held[x]
      BY <1>1, <2>2
    <3>2. u \in Tickets
      BY <3>1 DEF TicketInv, TypeOK
    <3>3. owner[u] = x /\ u \in consuming /\ state[u] \in Startable \cup {"in_progress"}
      BY <3>1 DEF TicketInv, ReservationsAreLive
    <3> QED
      BY <1>1, <2>2, <3>2, <3>3 DEF TicketInv, TypeOK
  <2> QED
    BY <2>1, <2>2
<1>5. ExecutionHoldsASlot'
  <2> SUFFICES ASSUME NEW u \in consuming', state'[u] = "in_progress"
               PROVE  u \in held'[owner'[u]]
    BY DEF ExecutionHoldsASlot
  <2>1. CASE u = t
    BY <1>1, <2>1 DEF TicketInv, TypeOK
  <2>2. CASE u # t
    <3>1. u \in consuming /\ u \in Tickets
      BY <1>1, <2>2 DEF TicketInv, TypeOK
    <3>2. owner'[u] = owner[u] /\ u \in held[owner[u]] /\ owner[u] \in Actors
      BY <1>1, <2>2, <3>1 DEF TicketInv, TypeOK, ExecutionHoldsASlot, OwnedWork
    <3> QED
      BY <1>1, <2>2, <3>1, <3>2
  <2> QED
    BY <2>1, <2>2
<1> QED
  BY <1>2, <1>3, <1>4, <1>5 DEF TicketInv

\* Every action keeps the invariant.
LEMMA StepKeeps == TicketInv /\ [Next]_ticketVars => TicketInv'
PROOF
<1> SUFFICES ASSUME TicketInv, [Next]_ticketVars
             PROVE  TicketInv'
  OBVIOUS
<1> USE TicketAssumption
<1>a. None \notin Actors /\ Bugs \subseteq Tickets /\ Requests \subseteq Tickets /\ Work \subseteq Tickets
  BY DEF Tickets
<1>b. \A t \in Tickets, next \in States : To(t, next) \in [Tickets -> States]
  BY DEF To, TicketInv, TypeOK
<1>c. \A blocked \in SUBSET Tickets : Parking(blocked) \in [Tickets -> States]
  BY DEF Parking, TicketInv, TypeOK, States
<1>d. \A blocked \in SUBSET Tickets, c \in Tickets : Blocking(blocked, c) \in [Tickets -> SUBSET Tickets]
  BY DEF Blocking, TicketInv, TypeOK
<1>e. \A t \in Tickets : state[t] = "in_progress" => t \in registered /\ owner[t] # None
  BY DEF TicketInv, OwnedWork
<1>f. /\ {"created", "in_progress", "pending", "resolved", "reopened", "cancelled", "closed"} \subseteq States
      /\ registered \subseteq Tickets /\ blockedBy \in [Tickets -> SUBSET Tickets]
      /\ duplicateOf \in [Bugs -> Bugs \cup {None}] /\ state \in [Tickets -> States]
      /\ owner \in [Tickets -> Actors \cup {None}]
  BY DEF TicketInv, TypeOK, States
<1>1. ASSUME NEW b \in Bugs, NEW blocked \in SUBSET Concerns[b], OpenBug(b, blocked) PROVE TicketInv'
  <2>1. blocked \in SUBSET Tickets /\ b \in Tickets
    BY <1>a
  <2> DEFINE next == [Parking(blocked) EXCEPT ![b] = "created"]
  <2>2. next \in [Tickets -> States]
    BY <1>c, <1>f, <2>1
  <2>3. \A t \in Tickets : next[t] = "in_progress" => t \in registered /\ owner[t] # None
    BY <1>c, <1>e, <2>1 DEF Parking
  <2>4. Move(next, blocked) /\ UNCHANGED <<registered, duplicateOf>> /\ blockedBy' = Blocking(blocked, b)
    BY <1>1 DEF OpenBug
  <2>5. CoreType' /\ OwnedWork' /\ ReservationsAreLive' /\ ExecutionHoldsASlot'
    <3> HIDE DEF next
    <3> QED
      BY <2>1, <2>2, <2>3, <2>4, MoveKeeps
  <2> QED
    BY <1>d, <1>f, <2>1, <2>4, <2>5 DEF TicketInv, TypeOK, CoreType
<1>2. ASSUME NEW b \in Bugs, ParkDuplicate(b) PROVE TicketInv'
  <2>1. /\ Move(To(b, "pending"), {b}) /\ UNCHANGED <<registered, blockedBy>>
        /\ \E o \in Originals(b) : duplicateOf' = [duplicateOf EXCEPT ![b] = o]
    BY <1>2 DEF ParkDuplicate
  <2>2. To(b, "pending") \in [Tickets -> States] /\ {b} \in SUBSET Tickets
    BY <1>a, <1>b, <1>f
  <2>3. \A t \in Tickets : To(b, "pending")[t] = "in_progress" => t \in registered /\ owner[t] # None
    BY <1>a, <1>e, <1>f DEF To
  <2>4. CoreType' /\ OwnedWork' /\ ReservationsAreLive' /\ ExecutionHoldsASlot'
    BY <2>1, <2>2, <2>3, MoveKeeps
  <2>5. duplicateOf' \in [Bugs -> Bugs \cup {None}]
    BY <1>f, <2>1 DEF Originals
  <2> QED
    BY <1>f, <2>1, <2>4, <2>5 DEF TicketInv, TypeOK, CoreType
<1>3. ASSUME NEW t \in Tickets, NEW a \in Actors, Route(t, a) PROVE TicketInv'
  BY <1>3, <1>a, AssignKeeps DEF Route
<1>4. ASSUME NEW t \in Tickets, Inherit(t) PROVE TicketInv'
  <2>1. Qualified[t] \subseteq Actors
    OBVIOUS
  <2> QED
    BY <1>4, <1>a, <2>1, AssignKeeps DEF Inherit
<1>5. ASSUME NEW t \in Tickets, NEW a \in Actors, Administer(t, a) PROVE TicketInv'
  BY <1>5, <1>a, AssignKeeps DEF Administer
<1>6. ASSUME NEW t \in Tickets, Register(t) PROVE TicketInv'
  BY <1>6 DEF Register, TicketInv, TypeOK, OwnedWork, ReservationsAreLive, ExecutionHoldsASlot
<1>7. ASSUME NEW t \in Tickets, Start(t) PROVE TicketInv'
  <2>1. CanMove(t, "in_progress") /\ Move(To(t, "in_progress"), {}) /\ UNCHANGED <<registered, blockedBy, duplicateOf>>
    BY <1>7 DEF Start
  <2>2. To(t, "in_progress") \in [Tickets -> States] /\ {} \in SUBSET Tickets
    BY <1>a, <1>b, <1>f
  <2>3. \A u \in Tickets : To(t, "in_progress")[u] = "in_progress" => u \in registered /\ owner[u] # None
    BY <1>a, <1>e, <1>f, <2>1 DEF To, CanMove
  <2>4. CoreType' /\ OwnedWork' /\ ReservationsAreLive' /\ ExecutionHoldsASlot'
    BY <2>1, <2>2, <2>3, MoveKeeps
  <2> QED
    BY <1>f, <2>1, <2>4 DEF TicketInv, TypeOK, CoreType
<1>8. ASSUME NEW t \in Tickets, Defer(t) PROVE TicketInv'
  <2>1. CanMove(t, "pending") /\ Move(To(t, "pending"), {}) /\ UNCHANGED <<registered, blockedBy, duplicateOf>>
    BY <1>8 DEF Defer
  <2>2. To(t, "pending") \in [Tickets -> States] /\ {} \in SUBSET Tickets
    BY <1>a, <1>b, <1>f
  <2>3. \A u \in Tickets : To(t, "pending")[u] = "in_progress" => u \in registered /\ owner[u] # None
    BY <1>a, <1>e, <1>f, <2>1 DEF To, CanMove
  <2>4. CoreType' /\ OwnedWork' /\ ReservationsAreLive' /\ ExecutionHoldsASlot'
    BY <2>1, <2>2, <2>3, MoveKeeps
  <2> QED
    BY <1>f, <2>1, <2>4 DEF TicketInv, TypeOK, CoreType
<1>9. ASSUME NEW t \in Tickets, Resolve(t) PROVE TicketInv'
  <2>1. CanMove(t, "resolved") /\ Move(To(t, "resolved"), {}) /\ UNCHANGED <<registered, blockedBy, duplicateOf>>
    BY <1>9 DEF Resolve
  <2>2. To(t, "resolved") \in [Tickets -> States] /\ {} \in SUBSET Tickets
    BY <1>a, <1>b, <1>f
  <2>3. \A u \in Tickets : To(t, "resolved")[u] = "in_progress" => u \in registered /\ owner[u] # None
    BY <1>a, <1>e, <1>f, <2>1 DEF To, CanMove
  <2>4. CoreType' /\ OwnedWork' /\ ReservationsAreLive' /\ ExecutionHoldsASlot'
    BY <2>1, <2>2, <2>3, MoveKeeps
  <2> QED
    BY <1>f, <2>1, <2>4 DEF TicketInv, TypeOK, CoreType
<1>10. ASSUME NEW b \in Bugs, Cancel(b) PROVE TicketInv'
  <2>1. CanMove(b, "cancelled") /\ Move(To(b, "cancelled"), {}) /\ UNCHANGED <<registered, blockedBy, duplicateOf>>
    BY <1>10 DEF Cancel
  <2>2. To(b, "cancelled") \in [Tickets -> States] /\ {} \in SUBSET Tickets
    BY <1>a, <1>b, <1>f
  <2>3. \A u \in Tickets : To(b, "cancelled")[u] = "in_progress" => u \in registered /\ owner[u] # None
    BY <1>a, <1>e, <1>f, <2>1 DEF To, CanMove
  <2>4. CoreType' /\ OwnedWork' /\ ReservationsAreLive' /\ ExecutionHoldsASlot'
    BY <2>1, <2>2, <2>3, MoveKeeps
  <2> QED
    BY <1>f, <2>1, <2>4 DEF TicketInv, TypeOK, CoreType
<1>11. ASSUME NEW t \in Tickets, Close(t) PROVE TicketInv'
  <2>1. Move(To(t, "closed"), {}) /\ UNCHANGED <<registered, blockedBy, duplicateOf>>
    BY <1>11 DEF Close
  <2>2. To(t, "closed") \in [Tickets -> States] /\ {} \in SUBSET Tickets
    BY <1>a, <1>b, <1>f
  <2>3. \A u \in Tickets : To(t, "closed")[u] = "in_progress" => u \in registered /\ owner[u] # None
    BY <1>a, <1>e, <1>f, <2>1 DEF To, CanMove
  <2>4. CoreType' /\ OwnedWork' /\ ReservationsAreLive' /\ ExecutionHoldsASlot'
    BY <2>1, <2>2, <2>3, MoveKeeps
  <2> QED
    BY <1>f, <2>1, <2>4 DEF TicketInv, TypeOK, CoreType
<1>12. ASSUME NEW b \in Bugs, NEW c \in Requests, HandOff(b, c) PROVE TicketInv'
  <2> DEFINE next == [state EXCEPT ![c] = "created", ![b] = "resolved"]
  <2>1. Move(next, {}) /\ UNCHANGED <<registered, blockedBy, duplicateOf>>
    BY <1>12 DEF HandOff
  <2>2. next \in [Tickets -> States] /\ {} \in SUBSET Tickets
    BY <1>a, <1>f
  <2>3. \A u \in Tickets : next[u] = "in_progress" => u \in registered /\ owner[u] # None
    BY <1>a, <1>e, <1>f
  <2> HIDE DEF next
  <2>4. CoreType' /\ OwnedWork' /\ ReservationsAreLive' /\ ExecutionHoldsASlot'
    BY <2>1, <2>2, <2>3, MoveKeeps
  <2> QED
    BY <1>f, <2>1, <2>4 DEF TicketInv, TypeOK, CoreType
<1>13. ASSUME NEW b \in Bugs, NEW blocked \in SUBSET Concerns[b], Reopen(b, blocked) PROVE TicketInv'
  <2>1. blocked \in SUBSET Tickets /\ b \in Tickets
    BY <1>a
  <2> DEFINE next == [Parking(blocked) EXCEPT ![b] = "reopened"]
  <2>2. next \in [Tickets -> States]
    BY <1>c, <1>f, <2>1
  <2>3. \A t \in Tickets : next[t] = "in_progress" => t \in registered /\ owner[t] # None
    BY <1>c, <1>e, <2>1 DEF Parking
  <2>4. Move(next, blocked) /\ UNCHANGED <<registered, duplicateOf>> /\ blockedBy' = Blocking(blocked, b)
    BY <1>13 DEF Reopen
  <2>5. CoreType' /\ OwnedWork' /\ ReservationsAreLive' /\ ExecutionHoldsASlot'
    <3> HIDE DEF next
    <3> QED
      BY <2>1, <2>2, <2>3, <2>4, MoveKeeps
  <2> QED
    BY <1>d, <1>f, <2>1, <2>4, <2>5 DEF TicketInv, TypeOK, CoreType
<1>14. ASSUME NEW t \in Tickets, NEW c \in Bugs \cup Requests, Block(t, c) PROVE TicketInv'
  <2>1. /\ Move(Parking({t}), {t}) /\ UNCHANGED <<registered, duplicateOf>>
        /\ blockedBy' = Blocking({t}, c)
    BY <1>14 DEF Block
  <2>2. Parking({t}) \in [Tickets -> States] /\ {t} \in SUBSET Tickets
    BY <1>c
  <2>3. \A u \in Tickets : Parking({t})[u] = "in_progress" => u \in registered /\ owner[u] # None
    BY <1>e DEF Parking
  <2>4. CoreType' /\ OwnedWork' /\ ReservationsAreLive' /\ ExecutionHoldsASlot'
    BY <2>1, <2>2, <2>3, MoveKeeps
  <2> QED
    BY <1>a, <1>d, <1>f, <2>1, <2>2, <2>4 DEF TicketInv, TypeOK, CoreType
<1>15. ASSUME NEW t \in Tickets, NEW c \in Bugs \cup Requests, NEW resume \in BOOLEAN,
              Unblock(t, c, resume)
       PROVE  TicketInv'
  <2>1. blockedBy' \in [Tickets -> SUBSET Tickets] /\ UNCHANGED <<registered, duplicateOf>>
    BY <1>15, <1>f DEF Unblock
  <2>2. CASE resume /\ blockedBy[t] = {c} /\ state[t] = "pending"
    <3>1. CanMove(t, "in_progress") /\ Move(To(t, "in_progress"), {})
      BY <1>15, <2>2 DEF Unblock
    <3>2. To(t, "in_progress") \in [Tickets -> States] /\ {} \in SUBSET Tickets
      BY <1>b, <1>f
    <3>3. \A u \in Tickets : To(t, "in_progress")[u] = "in_progress" => u \in registered /\ owner[u] # None
      BY <1>e, <1>f, <3>1 DEF To, CanMove
    <3>4. CoreType' /\ OwnedWork' /\ ReservationsAreLive' /\ ExecutionHoldsASlot'
      BY <2>1, <3>1, <3>2, <3>3, MoveKeeps
    <3> QED
      BY <1>f, <2>1, <3>4 DEF TicketInv, TypeOK, CoreType
  <2>3. CASE ~(resume /\ blockedBy[t] = {c} /\ state[t] = "pending")
    <3>1. UNCHANGED <<state, owner, consuming, held>>
      BY <1>15, <2>3 DEF Unblock
    <3> QED
      BY <2>1, <3>1 DEF TicketInv, TypeOK, OwnedWork, ReservationsAreLive, ExecutionHoldsASlot
  <2> QED
    BY <2>2, <2>3
<1>16. CASE UNCHANGED ticketVars
  BY <1>16 DEF ticketVars, TicketInv, TypeOK, OwnedWork, ReservationsAreLive, ExecutionHoldsASlot
<1> QED
  BY <1>1, <1>2, <1>3, <1>4, <1>5, <1>6, <1>7, <1>8, <1>9, <1>10, <1>11, <1>12, <1>13, <1>14,
     <1>15, <1>16 DEF Next

LEMMA TicketsInvariant == Spec => []TicketInv
PROOF
<1>1. Init => TicketInv
  BY TicketAssumption
     DEF Init, TicketInv, TypeOK, OwnedWork, ReservationsAreLive, ExecutionHoldsASlot, States
<1> QED
  BY <1>1, StepKeeps, PTL DEF Spec

\* The variables keep their types: no assignment names anybody but an actor, no
\* actor holds a slot of a ticket that is not one.
THEOREM TicketTypes == Spec => []TypeOK
PROOF
<1>1. TicketInv => TypeOK
  BY DEF TicketInv
<1> QED
  BY <1>1, TicketsInvariant, PTL

\* "No role may work a Ticket PM has not assigned to it", whatever the services
\* are called with and in whatever order.
THEOREM ExecutionIsOwned == Spec => []OwnedWork
PROOF
<1>1. TicketInv => OwnedWork
  BY DEF TicketInv
<1> QED
  BY <1>1, TicketsInvariant, PTL

\* No path through a ticket's life leaks a slot of the actor who held it.
THEOREM NoSlotLeaks == Spec => []ReservationsAreLive
PROOF
<1>1. TicketInv => ReservationsAreLive
  BY DEF TicketInv
<1> QED
  BY <1>1, TicketsInvariant, PTL

\* Work that executes occupies the slot of the actor who executes it.
THEOREM ExecutionIsCounted == Spec => []ExecutionHoldsASlot
PROOF
<1>1. TicketInv => ExecutionHoldsASlot
  BY DEF TicketInv
<1> QED
  BY <1>1, TicketsInvariant, PTL
=============================================================================
