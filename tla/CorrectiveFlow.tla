---------------------------- MODULE CorrectiveFlow ----------------------------
(***************************************************************************)
(* The V-model of one Phase and the corrective workflow that carries a     *)
(* repair through it: the scheduler, the processing of an attempt's result *)
(* and the hand-offs between Bugs and Change Requests                      *)
(* (src/application/project_management: orchestrator.ts, work_scheduler.ts,*)
(* project_controller.ts, attempt_result_processor.ts,                     *)
(* corrective_workflow_service.ts, ticket_workflow.ts).                    *)
(*                                                                         *)
(* The project manager runs one turn after the other: it selects a ticket, *)
(* starts it, lets its owner attempt it and processes the result.  A turn  *)
(* is a series of commits; `todo' holds the ones still to come, and each   *)
(* action below is one commit (or one read that decides on them).  A crash *)
(* loses todo and nothing else; the next run repairs what it finds.        *)
(*                                                                         *)
(* A Step is its place in the V: the first half are the source Steps, the  *)
(* second half the Steps that verify them, in the opposite order, and each *)
(* depends on the one before.  Registration, ownership, capacity and       *)
(* duplicates are the business of TicketLifecycle: here whatever is routed *)
(* finds an owner.                                                         *)
(***************************************************************************)
EXTENDS Naturals, Sequences, FiniteSetsExt, Folds

CONSTANTS
    Pairs,          \* the number of source Steps
    MaxBugs,        \* bound on the Bugs opened
    MaxRequests,    \* bound on the Change Requests opened
    MaxCrashes,     \* bound on the crashes
    Failures,       \* <<s, g>>: an attempt of the Story of s may fail on what g owns
    HopFailures,    \* <<s, g>>: so may a Change Request applied at s
    Recurs,         \* may the failure come back of a Bug that waits for its verdict:
                    \* of one handed over (TRUE), of one that waits where it was found (FALSE)
    Partial,        \* may a gate pass that leaves out the replay of a Bug waiting for it?
    CrashAt,        \* the operations a crash may come before
    None

Steps == 1..(2 * Pairs)
Story(s) == <<"story", s>>
Stories == {Story(s) : s \in Steps}
Bugs == {<<"bug", i>> : i \in 1..MaxBugs}
Requests == {<<"request", i>> : i \in 1..MaxRequests}
Tickets == Stories \cup Bugs \cup Requests

\* isVerificationStep and Step.pairedStepId.
Verifies(s) == s > Pairs
Paired(s) == 2 * Pairs + 1 - s

Operations == {"start", "begin", "attempt", "park", "defer", "stop",
    "deliver", "deliver story", "close step", "close pair", "close pair story", "verify pair",
    "propose", "await", "release", "open", "activate", "record", "prove", "prove here",
    "prove raised", "open child", "solve", "close", "close source", "wake", "close stories",
    "reclaim", "suspend", "break cycles", "drop", "reconcile", "restore", "activate all"}

ASSUME CorrectiveAssumption ==
    /\ Pairs \in Nat \ {0} /\ MaxBugs \in Nat /\ MaxRequests \in Nat /\ MaxCrashes \in Nat
    /\ Failures \cup HopFailures \subseteq Steps \X Steps
    /\ Recurs \subseteq BOOLEAN /\ Partial \in BOOLEAN /\ CrashAt \subseteq Operations
    /\ None \notin Tickets

VARIABLES
    step,       \* each Step's state
    state,      \* each Ticket's state; "absent" before it is opened
    blockedBy,  \* Ticket.blockedByTicketIds
    bug,        \* what else a Bug records
    request,    \* what else a Change Request records
    todo,       \* the commits the turn has still to make
    up,         \* a run is on
    delivered,  \* the Phase is complete
    crashes     \* the number of crashes so far

ticketVars == <<state, blockedBy, bug, request>>
runVars == <<up, delivered, crashes>>
vars == <<step, ticketVars, todo, runVars>>

Startable == {"created", "pending", "reopened"}

(* A Bug has                                                               *)
(*   failed, target  failure.failedStepId and targetStepId, where it is    *)
(*                   repaired                                              *)
(*   proving         verificationContract.verificationStepId               *)
(*   parent          the Change Request it was raised in                   *)
(*   handed          changeRequestTicketIds is not empty                   *)
(*   solved, proven  it has a solution, a verificationRecord               *)
(* and a Change Request                                                    *)
(*   sources         the Bugs it carries                                   *)
(*   from, to        sourceStepId and targetStepId                         *)
(*   scope           propagationStepIds, in the order of the V             *)
(*   parent          parentChangeRequestId                                 *)
(*   applied         it has an application at `to'                         *)
(*   verified        its solution is verified                              *)

Init ==
    /\ step = [s \in Steps |-> "created"]
    /\ state = [t \in Tickets |-> IF t \in Stories THEN "created" ELSE "absent"]
    /\ blockedBy = [t \in Tickets |-> {}]
    /\ bug = [b \in Bugs |-> [failed |-> 1, target |-> 1, proving |-> 1, parent |-> None,
                              handed |-> FALSE, solved |-> FALSE, proven |-> FALSE]]
    /\ request = [r \in Requests |-> [sources |-> {}, from |-> 1, to |-> 1, scope |-> {},
                              parent |-> None, applied |-> FALSE, verified |-> FALSE]]
    /\ todo = <<>> /\ up = TRUE /\ delivered = FALSE /\ crashes = 0

-----------------------------------------------------------------------------
Satisfies(s) == step[s] \in {"delivered", "closed"}     \* stepSatisfiesDependency
Exists(t) == state[t] # "absent"
Live(t) == Exists(t) /\ state[t] # "closed"
Blocked(t) == blockedBy[t] # {}

\* workStepId, and targetStepId of a Change Request.
StepOf(t) ==
    IF t \in Stories THEN t[2] ELSE IF t \in Bugs THEN bug[t].target ELSE request[t].to

\* The Change Requests that carry bug b and are not closed.
OpenChain(b) == {r \in Requests : Live(r) /\ b \in request[r].sources}

\* A hop of the same chain, or the head of one that repairs a Bug raised here.
HasChild(r) == \E c \in Requests : Exists(c) /\ request[c].parent = r

\* The rest of the turn after the operation at its head.
Then(ops) == todo' = ops \o Tail(todo)
Now == Head(todo)
Doing(operation) == up /\ todo # <<>> /\ Now.do = operation

\* The operations of each element of a set, one after the other.
Each(S, Ops(_)) == MapThenFoldSet(\o, <<>>, Ops, LAMBDA T : CHOOSE t \in T : TRUE, S)

-----------------------------------------------------------------------------
(* WorkScheduler *)

\* stepDependenciesReady and ticketDependenciesReady.
Ready(t) ==
    LET s == StepOf(t)
    IN  s = 1 \/ /\ Satisfies(s - 1)
                 /\ t \in Stories => state[Story(s - 1)] \in {"resolved", "closed"}

\* correctionRank.
Rank(t) == IF t \in Requests THEN 3 ELSE IF t \in Bugs THEN 2 ELSE 0

\* (mutant) the later Step first.
LastFirst(T) ==
    {t \in T : \A u \in T : \/ StepOf(t) > StepOf(u)
                            \/ StepOf(t) = StepOf(u) /\ Rank(t) >= Rank(u)}

\* The tickets the sort puts first.  Their ids, which are random, decide between
\* them.
First(T) ==
    {t \in T : \A u \in T : \/ StepOf(t) < StepOf(u)
                            \/ StepOf(t) = StepOf(u) /\ Rank(t) >= Rank(u)}

\* inProgressWork: what executes already.
InProgress ==
    {t \in Tickets : /\ state[t] = "in_progress" /\ ~Blocked(t)
                     /\ step[StepOf(t)] # "closed" /\ Ready(t)}

\* activeCorrectiveTickets, of Step s.
Corrective(s) ==
    {t \in Bugs \cup Requests :
        /\ Live(t) /\ state[t] # "resolved" /\ ~Blocked(t)
        /\ StepOf(t) = s
        /\ IF t \in Bugs THEN ~bug[t].handed ELSE ~request[t].applied}

\* The Story next() offers of Step s, when it offers one.
Ordinary(s) ==
    {t \in {Story(s)} : /\ step[s] # "closed" /\ Ready(t) /\ ~Blocked(t)
                        /\ state[t] \in Startable \cup {"in_progress"}}

\* next(), when nothing executes.
Offered == First(UNION {IF Corrective(s) # {} THEN Corrective(s) ELSE Ordinary(s) : s \in Steps})

Busy == {s \in Steps : step[s] = "in_progress"}

\* resume(): the tickets it may return.
Selection ==
    IF InProgress # {} THEN First(InProgress)
    ELSE IF Busy = {} THEN Offered
    ELSE LET offered == UNION {Corrective(s) : s \in Busy}
         IN  IF offered # {} THEN First(offered)
             ELSE {t \in Stories : StepOf(t) \in Busy /\ state[t] = "in_progress"}

\* resume() throws: several Steps are in progress, or one that nothing works on.
Refuses == Cardinality(Busy) > 1 \/ (Busy # {} /\ Selection = {})

Idle == up /\ todo = <<>> /\ ~delivered

-----------------------------------------------------------------------------
(* The orchestrator's loop *)

Schedule(t) ==
    /\ Idle /\ ~Refuses /\ t \in Selection
    /\ todo' = <<[do |-> "start", t |-> t], [do |-> "begin", t |-> t], [do |-> "attempt", t |-> t]>>
    /\ UNCHANGED <<step, ticketVars, runVars>>

\* What completePhase requires.
Complete ==
    /\ \A s \in Steps : step[s] = "closed" /\ state[Story(s)] = "closed"
    /\ \A t \in Bugs \cup Requests : ~Live(t)

\* Nothing is offered: the Phase is delivered, or the run ends in failure.
Finish ==
    /\ Idle /\ (Refuses \/ Selection = {})
    /\ delivered' = (~Refuses /\ Complete)
    /\ up' = delivered'
    /\ UNCHANGED <<step, ticketVars, todo, crashes>>

\* start(): the Step, in one commit or in two ...
StartStep ==
    /\ Doing("start")
    /\ LET s == StepOf(Now.t)
       IN  IF Satisfies(s)
           THEN step' = [step EXCEPT ![s] = "reopened"] /\ UNCHANGED todo
           ELSE step' = [step EXCEPT ![s] = "in_progress"] /\ Then(<<>>)
    /\ UNCHANGED <<ticketVars, runVars>>

\* ... then the ticket.
Begin ==
    /\ Doing("begin")
    /\ state' = [state EXCEPT ![Now.t] = IF @ \in Startable THEN "in_progress" ELSE @]
    /\ Then(<<>>)
    /\ UNCHANGED <<step, blockedBy, bug, request, runVars>>

\* The attempt fails and the ticket stays with its owner, who tries again: an
\* execution stall, a Bug not repaired yet, a replay that does not pass.
Retry ==
    /\ Doing("attempt")
    /\ Then(<<>>)
    /\ UNCHANGED <<step, ticketVars, runVars>>

\* (mutant) the Step stays in progress.
DeferTicketOnly ==
    /\ Doing("attempt") /\ crashes < MaxCrashes
    /\ crashes' = crashes + 1
    /\ Then(<<[do |-> "park", t |-> Now.t], [do |-> "stop"]>>)
    /\ UNCHANGED <<step, ticketVars, up, delivered>>

\* deferNonProjectAttempt: the model provider fails, the work goes back to the
\* project manager and the run ends.
Defer ==
    /\ Doing("attempt") /\ crashes < MaxCrashes
    /\ crashes' = crashes + 1
    /\ Then(<<[do |-> "park", t |-> Now.t], [do |-> "defer", s |-> StepOf(Now.t)], [do |-> "stop"]>>)
    /\ UNCHANGED <<step, ticketVars, up, delivered>>

Park ==
    /\ \/ /\ Doing("park")
          /\ state' = [state EXCEPT ![Now.t] = "pending"]
          /\ UNCHANGED step
       \/ /\ Doing("defer")
          /\ step' = [step EXCEPT ![Now.s] = "pending"]
          /\ UNCHANGED state
    /\ Then(<<>>)
    /\ UNCHANGED <<blockedBy, bug, request, runVars>>

\* The run ends and reports a failure.
Stop ==
    /\ Doing("stop")
    /\ up' = FALSE /\ todo' = <<>>
    /\ UNCHANGED <<step, ticketVars, delivered, crashes>>

\* What a turn has not committed is lost.
Crash ==
    /\ up /\ ~delivered /\ crashes < MaxCrashes
    /\ todo # <<>> => Now.do \in CrashAt
    /\ crashes' = crashes + 1
    /\ up' = FALSE /\ todo' = <<>>
    /\ UNCHANGED <<step, ticketVars, delivered>>

-----------------------------------------------------------------------------
(* deliverNormal *)

DeliverNormal ==
    /\ Doing("attempt") /\ Now.t \in Stories
    /\ LET s == StepOf(Now.t)
       IN  Then(<<[do |-> "deliver", s |-> s], [do |-> "deliver story", s |-> s]>>
                \o IF Verifies(s)
                   THEN <<[do |-> "close step", s |-> s], [do |-> "close pair", s |-> Paired(s)],
                          [do |-> "close pair story", s |-> Paired(s)]>>
                   ELSE <<>>)
    /\ UNCHANGED <<step, ticketVars, runVars>>

\* The Steps' side: deliver, close and close the source Step with its
\* verification.  deliverNormal wants that source delivered, and fails when it is
\* not; a Change Request closes it when it is ("verify pair").
AdvanceStep ==
    /\ \/ /\ Doing("deliver")
          /\ step' = [step EXCEPT ![Now.s] = IF @ = "in_progress" THEN "delivered" ELSE @]
          /\ Then(<<>>)
       \/ /\ Doing("close step")
          /\ step' = [step EXCEPT ![Now.s] = "closed"]
          /\ Then(<<>>)
       \/ /\ Doing("close pair")
          /\ IF step[Now.s] = "delivered"
             THEN step' = [step EXCEPT ![Now.s] = "closed"] /\ Then(<<>>)
             ELSE UNCHANGED step /\ Then(<<[do |-> "stop"]>>)
       \/ /\ Doing("verify pair")
          /\ IF step[Now.s] = "delivered"
             THEN /\ step' = [step EXCEPT ![Now.s] = "closed"]
                  /\ Then(<<[do |-> "close stories", steps |-> {Now.s}]>>)
             ELSE UNCHANGED step /\ Then(<<>>)
    /\ UNCHANGED <<ticketVars, runVars>>

\* A source Story waits for the Step that verifies it; a verification closes.
DeliverStory ==
    /\ \/ /\ Doing("deliver story")
          /\ state' = [state EXCEPT ![Story(Now.s)] = IF Verifies(Now.s) THEN "closed" ELSE "resolved"]
       \/ /\ Doing("close pair story")
          /\ state' = [state EXCEPT ![Story(Now.s)] = IF @ = "resolved" THEN "closed" ELSE @]
    /\ Then(<<>>)
    /\ UNCHANGED <<step, blockedBy, bug, request, runVars>>

\* closeStoriesForClosedSteps, one Story a commit.
CloseStories ==
    /\ Doing("close stories")
    /\ LET due == {t \in Stories : /\ StepOf(t) \in Now.steps /\ step[StepOf(t)] = "closed"
                                   /\ Live(t) /\ ~Blocked(t)}
       IN  IF due = {} THEN Then(<<>>) /\ UNCHANGED state
           ELSE /\ \E t \in due : state' = [state EXCEPT ![t] = "closed"]
                /\ UNCHANGED todo
    /\ UNCHANGED <<step, blockedBy, bug, request, runVars>>

-----------------------------------------------------------------------------
(* Blockers *)

\* prepare: ticket c blocks those of T, in the commit it is part of.
Block(T, c) ==
    /\ state' = [t \in Tickets |-> IF t \in T /\ state[t] = "in_progress" THEN "pending" ELSE state[t]]
    /\ blockedBy' = [t \in Tickets |-> IF t \in T THEN blockedBy[t] \cup {c} ELSE blockedBy[t]]

\* unblock: the last blocker gone, what it parked executes again.
Unblock(t, c, resume) ==
    /\ blockedBy' = [blockedBy EXCEPT ![t] = @ \ {c}]
    /\ state' = [state EXCEPT ![t] =
           IF resume /\ @ = "pending" /\ blockedBy[t] \subseteq {c} THEN "in_progress" ELSE @]

\* release, one ticket a commit.
Release ==
    /\ Doing("release")
    /\ LET held == {t \in Tickets : Now.t \in blockedBy[t]}
       IN  IF held = {} THEN Then(<<>>) /\ UNCHANGED <<state, blockedBy>>
           ELSE (\E t \in held : Unblock(t, Now.t, TRUE)) /\ UNCHANGED todo
    /\ UNCHANGED <<step, bug, request, runVars>>

-----------------------------------------------------------------------------
(* routeFailure *)

FirstAbsent(S) == {t \in S : ~Exists(t) /\ \A u \in S : ~Exists(u) => t[2] <= u[2]}

\* The Steps that may own what the attempt of t fails on.
Faulty(t) ==
    {g \in Steps : \/ t \in Stories /\ <<StepOf(t), g>> \in Failures
                   \/ t \in Requests /\ <<StepOf(t), g>> \in HopFailures}

\* Where a failure of f that g repairs is to be replayed.
Proving(f, g) == IF Verifies(g) THEN g ELSE IF Verifies(f) THEN f ELSE Paired(g)

\* One commit parks the failed Step, reopens the one that owns the defect, opens
\* the Bug, or reopens the one that waits for just this verdict, and blocks both
\* Stories and the Change Request that failed.
RouteFailure ==
    /\ Doing("attempt")
    /\ \E g \in Faulty(Now.t) :
         LET f == StepOf(Now.t)
             parent == IF Now.t \in Requests THEN Now.t ELSE None
             waiting == {b \in Bugs : /\ state[b] = "resolved" /\ bug[b].failed = f /\ bug[b].target = g
                                      /\ bug[b].handed \in Recurs}
             stories == {t \in {Story(f), Story(g)} : Live(t)}
             parked == IF parent = None THEN stories ELSE stories \cup {parent}
         IN  /\ step' = [s \in Steps |->
                    IF s = f THEN "pending"
                    ELSE IF s = g /\ Satisfies(g) THEN "reopened" ELSE step[s]]
             /\ \/ \E b \in FirstAbsent(Bugs) :
                     /\ state' = [t \in Tickets |->
                            IF t = b THEN "created"
                            ELSE IF t \in parked /\ state[t] = "in_progress" THEN "pending"
                            ELSE state[t]]
                     /\ blockedBy' = [t \in Tickets |->
                            IF t \in parked THEN blockedBy[t] \cup {b} ELSE blockedBy[t]]
                     /\ bug' = [bug EXCEPT ![b].failed = f, ![b].target = g,
                                           ![b].proving = Proving(f, g), ![b].parent = parent]
                \/ \E b \in waiting :
                     /\ state' = [t \in Tickets |->
                            IF t = b THEN "reopened"
                            ELSE IF t \in parked /\ state[t] = "in_progress" THEN "pending"
                            ELSE state[t]]
                     /\ blockedBy' = [t \in Tickets |->
                            IF t \in parked THEN blockedBy[t] \cup {b} ELSE blockedBy[t]]
                     /\ UNCHANGED bug
    /\ Then(<<>>)
    /\ UNCHANGED <<request, runVars>>

-----------------------------------------------------------------------------
(* propagateCorrectiveChange *)

\* correctivePropagationStepIds: every Step downstream, or, for a change of its
\* tests only, the Step that runs them, when the way there is clear.
Scopes(s) ==
    {{d \in Steps : d > s}}
    \cup {{Paired(p)} : p \in {q \in {s} : /\ ~Verifies(q)
                                          /\ \A d \in Steps : q < d /\ d < Paired(q) => Satisfies(d)}}

\* repairedChangeRequestTargetsStep.
Meets(b, s) == bug[b].parent # None /\ request[bug[b].parent].to = s

\* The Bug's Step delivers the repair.  It goes on with the Change Request it was
\* raised in, when that one works on the next Step, else with one of its own.
Propagate ==
    /\ Doing("attempt") /\ Now.t \in Bugs
    /\ LET b == Now.t
           s == bug[b].target
           parent == bug[b].parent
       IN  \E scope \in Scopes(s) :
             IF scope = {} THEN Then(<<[do |-> "stop"]>>)
             ELSE Then(<<[do |-> "deliver", s |-> s], [do |-> "propose", t |-> b]>>
                       \o IF Meets(b, Min(scope))
                          THEN <<[do |-> "await", t |-> b], [do |-> "release", t |-> b],
                                 [do |-> "activate", t |-> parent]>>
                          ELSE <<[do |-> "open", t |-> b, scope |-> scope]>>)
    /\ UNCHANGED <<step, ticketVars, runVars>>

\* The Bug's own records: a proposed solution, the verdict it waits for, and the
\* replay that proves it.
RecordBug ==
    /\ \/ /\ Doing("propose")
          /\ bug' = [bug EXCEPT ![Now.t].solved = TRUE]
          /\ UNCHANGED state
       \/ /\ Doing("prove")
          /\ bug' = [bug EXCEPT ![Now.t].proven = TRUE]
          /\ UNCHANGED state
       \/ /\ Doing("await")
          /\ state' = [state EXCEPT ![Now.t] = IF @ = "in_progress" THEN "resolved" ELSE @]
          /\ UNCHANGED bug
    /\ Then(<<>>)
    /\ UNCHANGED <<step, blockedBy, request, runVars>>

\* originFailures[0]: what is merged into a hop shares it.
Origin(r) == {bug[b].failed : b \in request[r].sources}

\* mergeChangeRequestHop: the hop carries both repairs, and the chain goes as far as either.
JoinHop(r, b) == [request EXCEPT ![r].sources = @ \cup {b}, ![r].scope = @ \cup Now.scope]

\* openChangeRequest, of the head of a chain: an open one for the same sources is
\* reused, one on the same way is joined, else it is created.  The Bug is handed
\* over in the same commit.
OpenRequest ==
    /\ Doing("open")
    /\ LET b == Now.t
           hop == [sources |-> {b}, from |-> bug[b].target, to |-> Min(Now.scope), scope |-> Now.scope,
                   parent |-> bug[b].parent, applied |-> FALSE, verified |-> FALSE]
           siblings == {r \in Requests : Live(r) /\ request[r].parent = hop.parent}
           same == {r \in siblings : request[r].sources = {b}}
           joined == {r \in siblings : /\ request[r].from = hop.from /\ request[r].to = hop.to
                                       /\ Origin(r) = {bug[b].failed}}
           HandOver(r) ==
               /\ state' = [state EXCEPT ![b] = "resolved", ![r] = IF @ = "absent" THEN "created" ELSE @]
               /\ bug' = [bug EXCEPT ![b].handed = TRUE]
               /\ Then(<<[do |-> "activate", t |-> r]>>)
       IN  IF same # {}
           THEN /\ \E r \in same : Then(<<[do |-> "activate", t |-> r]>>)
                /\ UNCHANGED <<state, bug, request>>
           ELSE IF joined # {}
           THEN \E r \in joined :
                  /\ request' = JoinHop(r, b)
                  /\ HandOver(r)
           ELSE \E r \in FirstAbsent(Requests) :
                  /\ request' = [request EXCEPT ![r] = hop]
                  /\ HandOver(r)
    /\ UNCHANGED <<step, blockedBy, runVars>>

\* hopWaitsOnDiscoveringStep.
WaitsOn(r, s) == ~Satisfies(s) /\ request[r].to > s

\* activateChangeRequest: it blocks the Stories that found what it repairs, one a
\* commit, and then its Step reopens.
Activate ==
    /\ Doing("activate")
    /\ LET r == Now.t
           due == {t \in Stories : /\ StepOf(t) \in Origin(r) /\ Live(t)
                                   /\ r \notin blockedBy[t] /\ ~WaitsOn(r, StepOf(t))}
       IN  IF Live(r) /\ due # {}
           THEN (\E t \in due : Block({t}, r)) /\ UNCHANGED <<step, todo>>
           ELSE /\ step' = [step EXCEPT ![request[r].to] =
                       IF Live(r) /\ ~request[r].applied /\ Satisfies(request[r].to) THEN "reopened" ELSE @]
                /\ Then(<<>>)
                /\ UNCHANGED <<state, blockedBy>>
    /\ UNCHANGED <<bug, request, runVars>>

-----------------------------------------------------------------------------
(* completeChangeRequestStep *)

\* The sources of r whose failure is still to be replayed when the replays of P
\* pass at Step s.
Unproven(r, s, P) ==
    {b \in request[r].sources : Live(b) /\ ~bug[b].proven /\ ~(b \in P /\ bug[b].proving = s)}

Later(S, s) == {d \in S : d > s}

\* A hop is applied, and the replays of the Bugs P pass with it.  It hands over to
\* the Change Request under repair if that one works on the next Step (met), else
\* to a hop of its own for the next Step of its scope, or for the Step that is to
\* prove a source.  While a replay due here has not passed, nothing of this
\* happens: the Bugs that were met are released, and the hop is tried again.
ApplyRequest(P) ==
    /\ Doing("attempt") /\ Now.t \in Requests
    /\ LET c == Now.t
           s == request[c].to
           rest == Later(request[c].scope, s)
           met == rest # {} /\ \E b \in request[c].sources : Meets(b, Min(rest))
           unproven == Unproven(c, s, P)
           elsewhere == {bug[b].proving : b \in unproven} \ {s}
           nexts == IF met THEN {None}
                    ELSE IF rest # {} THEN {Min(rest)}
                    ELSE IF elsewhere # {} THEN elsewhere ELSE {None}
           Meeting(b) == <<[do |-> "await", t |-> b], [do |-> "release", t |-> b],
                           [do |-> "activate", t |-> bug[b].parent]>>
           handovers == Each({b \in request[c].sources : met /\ bug[b].parent # None}, Meeting)
           due == \E b \in unproven : bug[b].proving = s
       IN  /\ Partial \/ P = Bugs \/ due
           /\ \E next \in nexts :
             IF due \/ (next = None /\ ~met /\ unproven # {})
             THEN Then(handovers)
             ELSE Then(handovers
                  \o <<[do |-> "deliver", s |-> s]>>
                  \o (IF Verifies(s)
                      THEN <<[do |-> "close step", s |-> s], [do |-> "verify pair", s |-> Paired(s)]>>
                      ELSE <<>>)
                  \o <<[do |-> "record", t |-> c]>>
                  \o Each({b \in P \cap request[c].sources : bug[b].proving = s},
                          LAMBDA b : <<[do |-> "prove", t |-> b]>>)
                  \o <<[do |-> "prove here", s |-> s, passed |-> P],
                       [do |-> "prove raised", s |-> s, passed |-> P, t |-> c]>>
                  \o (IF next = None THEN <<>> ELSE <<[do |-> "open child", t |-> c, s |-> next]>>)
                  \o <<[do |-> "solve", t |-> c], [do |-> "close", t |-> c], [do |-> "wake", t |-> c],
                       [do |-> "close stories",
                        steps |-> IF next = None THEN Steps ELSE {request[c].from, s}]>>)
    /\ UNCHANGED <<step, ticketVars, runVars>>

\* recordChange, and setSolution, which starts what nobody has started.
RecordRequest ==
    /\ \/ /\ Doing("record")
          /\ request' = [request EXCEPT ![Now.t].applied = TRUE]
          /\ Then(<<>>)
          /\ UNCHANGED state
       \/ /\ Doing("solve")
          /\ IF state[Now.t] \in Startable
             THEN state' = [state EXCEPT ![Now.t] = "in_progress"] /\ UNCHANGED <<request, todo>>
             ELSE /\ request' = [r \in Requests |-> [request[r] EXCEPT !.verified = @ \/ r = Now.t]]
                  /\ Then(<<>>)
                  /\ UNCHANGED state
    /\ UNCHANGED <<step, blockedBy, bug, runVars>>

\* (mutant) a Bug that no chain carries is left out.
ProveCarried ==
    /\ \/ Doing("prove here")
       \/ Doing("prove raised")
    /\ LET passed == {b \in Now.passed : Live(b) /\ bug[b].solved /\ bug[b].proving = Now.s}
           due == IF Now.do = "prove here" THEN {b \in passed : OpenChain(b) # {}}
                  ELSE {b \in passed : bug[b].parent = Now.t}
       IN  Then(Each(due, LAMBDA b : <<[do |-> "prove", t |-> b], [do |-> "solve", t |-> b],
                                       [do |-> "close", t |-> b]>>))
    /\ UNCHANGED <<step, ticketVars, runVars>>

\* closeBugsProvenAt and verifyCorrectionsRaisedBy: the open Bugs, with a solution,
\* whose replay has just passed: those no chain carries, and those raised in the
\* Change Request.
ProveOthers ==
    /\ \/ Doing("prove here")
       \/ Doing("prove raised")
    /\ LET passed == {b \in Now.passed : Live(b) /\ bug[b].solved /\ bug[b].proving = Now.s}
           due == IF Now.do = "prove here" THEN {b \in passed : OpenChain(b) = {}}
                  ELSE {b \in passed : bug[b].parent = Now.t}
       IN  Then(Each(due, LAMBDA b : <<[do |-> "prove", t |-> b], [do |-> "solve", t |-> b],
                                       [do |-> "close", t |-> b]>>))
    /\ UNCHANGED <<step, ticketVars, runVars>>

\* (mutant) any open hop with these sources is taken for the next one.
OpenChildAnywhere ==
    /\ Doing("open child")
    /\ LET c == Now.t
           left == {d \in request[c].scope : d >= Now.s}
           hop == [sources |-> request[c].sources, from |-> request[c].to, to |-> Now.s,
                   scope |-> IF Now.s \in left THEN left ELSE {Now.s},
                   parent |-> c, applied |-> FALSE, verified |-> FALSE]
           same == {r \in Requests : Live(r) /\ request[r].sources = hop.sources}
       IN  IF same # {}
           THEN /\ \E r \in same : Then(<<[do |-> "activate", t |-> r]>>)
                /\ UNCHANGED <<state, request>>
           ELSE \E r \in FirstAbsent(Requests) :
                  /\ request' = [request EXCEPT ![r] = hop]
                  /\ state' = [state EXCEPT ![r] = "created"]
                  /\ Then(<<[do |-> "activate", t |-> r]>>)
    /\ UNCHANGED <<step, blockedBy, bug, runVars>>

\* (mutant) the hop's own Step is all that is left of the scope.
OpenChildAlone ==
    /\ Doing("open child")
    /\ LET c == Now.t
           hop == [sources |-> request[c].sources, from |-> request[c].to, to |-> Now.s,
                   scope |-> {Now.s}, parent |-> c, applied |-> FALSE, verified |-> FALSE]
       IN  \E r \in FirstAbsent(Requests) :
             /\ request' = [request EXCEPT ![r] = hop]
             /\ state' = [state EXCEPT ![r] = "created"]
             /\ Then(<<[do |-> "activate", t |-> r]>>)
    /\ UNCHANGED <<step, blockedBy, bug, runVars>>

\* openChildChangeRequest: the next hop of the chain, before this one closes.  It
\* exists already when a crash interrupted the turn that opened it.
OpenChild ==
    /\ Doing("open child")
    /\ LET c == Now.t
           n == Now.s
           left == {d \in request[c].scope : d >= n}
           hop == [sources |-> request[c].sources, from |-> request[c].to, to |-> n,
                   scope |-> IF n \in left THEN left ELSE {n},
                   parent |-> c, applied |-> FALSE, verified |-> FALSE]
           same == {r \in Requests : /\ Live(r) /\ request[r].parent = c
                                     /\ request[r].sources = hop.sources}
       IN  IF same # {}
           THEN /\ \E r \in same : Then(<<[do |-> "activate", t |-> r]>>)
                /\ UNCHANGED <<state, request>>
           ELSE \E r \in FirstAbsent(Requests) :
                  /\ request' = [request EXCEPT ![r] = hop]
                  /\ state' = [state EXCEPT ![r] = "created"]
                  /\ Then(<<[do |-> "activate", t |-> r]>>)
    /\ UNCHANGED <<step, blockedBy, bug, runVars>>

\* (mutant) a hop that has handed over counts as the last one too.
FinalWithChild(r) == HasChild(r) \/ Max(request[r].scope) = request[r].to

\* closeVerified, of a Bug and of a Change Request.  The last hop of a chain
\* carries its sources to closure; it stays open while one of them is unproven.
Final(r) == ~HasChild(r) /\ Max(request[r].scope) = request[r].to

Close ==
    /\ Doing("close")
    /\ LET t == Now.t
           open == t \in Requests /\ Final(t) /\ \E b \in request[t].sources : Live(b) /\ ~bug[b].proven
           refused == IF t \in Bugs THEN Live(t) /\ ~bug[t].proven ELSE open
           sources == IF t \in Requests /\ Final(t) THEN request[t].sources ELSE {}
       IN  IF refused THEN Then(<<>>) /\ UNCHANGED state
           ELSE /\ state' = [state EXCEPT ![t] = "closed"]
                /\ Then(Each(sources, LAMBDA b : <<[do |-> "close source", t |-> b, r |-> t]>>)
                        \o <<[do |-> "release", t |-> t]>>)
    /\ UNCHANGED <<step, blockedBy, bug, request, runVars>>

CloseSource ==
    /\ Doing("close source")
    /\ LET b == Now.t
       IN  IF OpenChain(b) \ {Now.r} # {} \/ (Live(b) /\ ~bug[b].proven) THEN Then(<<>>)
           ELSE Then(<<[do |-> "solve", t |-> b], [do |-> "close", t |-> b]>>)
    /\ UNCHANGED <<step, ticketVars, runVars>>

\* What a closed hop wakes: the Change Request under repair.
Wake ==
    /\ Doing("wake")
    /\ Then(IF request[Now.t].parent = None THEN <<>>
            ELSE <<[do |-> "activate", t |-> request[Now.t].parent]>>)
    /\ UNCHANGED <<step, ticketVars, runVars>>

-----------------------------------------------------------------------------
(* The reconciliation a run starts with *)

Boot ==
    /\ ~up /\ ~delivered
    /\ up' = TRUE
    /\ todo' = <<[do |-> "reclaim"], [do |-> "break cycles"], [do |-> "reconcile"],
                 [do |-> "activate all"], [do |-> "close stories", steps |-> Steps]>>
    /\ UNCHANGED <<step, ticketVars, delivered, crashes>>

\* Ticket.parentTicketId.
ParentOf(t) ==
    LET b == IF t \in Bugs THEN t ELSE CHOOSE b \in request[t].sources : TRUE
    IN  IF bug[b].parent # None THEN bug[b].parent ELSE Story(bug[b].target)

\* reclaimUnreachableWork: what executes under a parent that cannot.
Reclaim ==
    /\ Doing("reclaim")
    /\ Then(Each({t \in Bugs \cup Requests :
                     /\ state[t] = "in_progress"
                     /\ state[ParentOf(t)] = "pending" \/ Blocked(ParentOf(t))},
                 LAMBDA t : <<[do |-> "suspend", t |-> t]>>))
    /\ UNCHANGED <<step, ticketVars, runVars>>

\* releaseCyclicCorrectiveBlockers: what holds a ticket whose Step it waits for.
OwnStep(t) == IF t \in Bugs THEN bug[t].failed ELSE StepOf(t)

BreakCycles ==
    /\ Doing("break cycles")
    /\ LET Hops(c) == IF c \in Requests THEN {c} \cap {r \in Requests : Live(r)} ELSE OpenChain(c)
           cyclic == {e \in Tickets \X Tickets :
                        /\ e[2] \in blockedBy[e[1]] /\ ~Satisfies(OwnStep(e[1]))
                        /\ \E r \in Hops(e[2]) : request[r].to > OwnStep(e[1])}
       IN  Then(Each(cyclic, LAMBDA e : <<[do |-> "drop", t |-> e[1], c |-> e[2]]>>))
    /\ UNCHANGED <<step, ticketVars, runVars>>

Repair ==
    /\ \/ /\ Doing("suspend")
          /\ state' = [state EXCEPT ![Now.t] = "pending"]
          /\ UNCHANGED blockedBy
       \/ /\ Doing("drop")
          /\ Unblock(Now.t, Now.c, FALSE)
    /\ Then(<<>>)
    /\ UNCHANGED <<step, bug, request, runVars>>

\* reconcileClosedCorrectiveTickets: the hand-offs a crash interrupted are finished,
\* and whatever is closed closes again.
Reconcile ==
    /\ Doing("reconcile")
    /\ LET interrupted == {r \in Requests : Live(r) /\ request[r].verified /\ request[r].applied /\ HasChild(r)}
           closed == {t \in Bugs \cup Requests : state[t] = "closed"}
           Again(t) == <<[do |-> "close", t |-> t]>>
                       \o IF t \in Requests
                          THEN Each(request[t].sources, LAMBDA b : <<[do |-> "restore", t |-> b]>>)
                          ELSE <<>>
       IN  Then(Each(interrupted, LAMBDA r : <<[do |-> "close", t |-> r]>>)
                \o Each(closed, Again))
    /\ UNCHANGED <<step, ticketVars, runVars>>

\* A Bug whose hand-off did not get as far as its state.
Restore ==
    /\ Doing("restore")
    /\ LET b == Now.t
       IN  IF state[b] = "in_progress" /\ bug[b].solved /\ OpenChain(b) = {}
           THEN /\ state' = [state EXCEPT ![b] = "resolved"]
                /\ Then(<<[do |-> "release", t |-> b]>>)
           ELSE Then(<<>>) /\ UNCHANGED state
    /\ UNCHANGED <<step, blockedBy, bug, request, runVars>>

ActivateAll ==
    /\ Doing("activate all")
    /\ Then(Each({r \in Requests : Live(r)}, LAMBDA r : <<[do |-> "activate", t |-> r]>>))
    /\ UNCHANGED <<step, ticketVars, runVars>>

-----------------------------------------------------------------------------
Commit ==
    \/ StartStep \/ Begin \/ Park \/ Stop
    \/ AdvanceStep \/ DeliverStory \/ CloseStories \/ Release
    \/ RecordBug \/ OpenRequest \/ Activate
    \/ RecordRequest \/ ProveOthers \/ OpenChild \/ Close \/ CloseSource \/ Wake
    \/ Reclaim \/ BreakCycles \/ Repair \/ Reconcile \/ Restore \/ ActivateAll

Attempt ==
    \/ DeliverNormal \/ Propagate \/ (\E P \in SUBSET Bugs : ApplyRequest(P))
    \/ Retry \/ Defer \/ RouteFailure

\* What a run does of itself, and a new run after one that has ended.
Proceed == (\E t \in Tickets : Schedule(t)) \/ Commit \/ Finish \/ Boot

Next == Proceed \/ Attempt \/ Crash

\* It always proceeds, and work that is attempted again and again succeeds in the
\* end.
Fairness ==
    /\ WF_vars(Proceed)
    /\ SF_vars(DeliverNormal) /\ SF_vars(Propagate) /\ SF_vars(ApplyRequest(Bugs))

Spec == Init /\ [][Next]_vars /\ Fairness

-----------------------------------------------------------------------------
(* Properties *)

\* Between two turns at most one Step is in progress, and there is a ticket to go on
\* with: resume() never throws, whatever was interrupted before.
Resumable == Idle => ~Refuses

\* From the commit that hands a Bug over until its failure has been replayed, a
\* Change Request that carries it is open, or the one it was raised in: there is no
\* instant, and no crash, between two hops (openChangeRequest, openChildChangeRequest,
\* closeVerified).
Carried ==
    \A b \in Bugs : Live(b) /\ bug[b].handed /\ ~bug[b].proven =>
        OpenChain(b) # {} \/ (bug[b].parent # None /\ Live(bug[b].parent))

\* A repaired Bug that waits for its verdict will get one: a Change Request that is
\* still to be applied carries it, or has the Step that replays its failure before it
\* (awaitVerification parks a Bug without a Change Request of its own).
VerdictComes ==
    Idle => \A b \in Bugs : state[b] = "resolved" /\ ~bug[b].proven =>
        \E r \in Requests : /\ Live(r) /\ ~request[r].applied
                            /\ b \in request[r].sources \/ bug[b].proving \in request[r].scope

\* The Story of a Step is started when no earlier Step is under repair, though the
\* scheduler looks at the one before only (stepDependenciesReady).
InOrder ==
    [][\A s \in Steps : state[Story(s)] \in Startable /\ state'[Story(s)] = "in_progress"
                        => \A q \in 1..(s - 1) : Satisfies(q)]_vars

\* A run ends with the Phase delivered, in a crash, or because the model provider
\* failed; it never finds itself with open work and nothing to do.
NeverStuck == [][up /\ ~up' => delivered' \/ crashes' # crashes \/ Doing("stop")]_vars

\* The Phase is delivered in the end, whatever failed and wherever a run ended.
Delivered == <>delivered

=============================================================================
