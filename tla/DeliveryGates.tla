----------------------------- MODULE DeliveryGates -----------------------------
(***************************************************************************)
(* The attempts of a Phase and what becomes of them: an attempt runs       *)
(* through the gates of runAttempt (attempt_runner.ts), the result is      *)
(* turned into corrections (attempt_result_processor.ts), the corrections  *)
(* travel to the Steps that answer for them and back to those that found   *)
(* the fault, and the retry policy decides how often each is tried.        *)
(*                                                                         *)
(* A turn is one action for each of start, attempt and process: a crash    *)
(* between two commits of one of them, a Bug that comes back after it was  *)
(* resolved, and chains that merge are in CorrectiveFlow.  A chain of      *)
(* Change Requests is one ticket that moves from Step to Step.             *)
(***************************************************************************)
EXTENDS AttemptPolicy

CONSTANTS
    Happens,        \* what an attempt can come to at a Step, besides success
    Budget,         \* the attempts a ticket has to begin with
    MaxRaised,      \* the tickets that are opened: a bound
    Strays,         \* BOOLEAN: a ticket that works away from its Step fails as often as it likes
    Patches         \* BOOLEAN: the toolchain may change between two runs

Kinds == {"story", "bug", "enhancement"} \cup Requests

\* What a gate finds: a Step that has to answer for it, and in which way.
Findings ==
    [category : {"test-defect", "product-defect", "change-request", "test-incomplete",
                 "quality-shortfall", "deliverable-defect", "dependency"},
     target : Steps]

ASSUME GatesAssumption ==
    /\ "missing" \in Codes
    /\ Budget \in Nat \ {0} /\ MaxRaised \in Nat /\ Strays \in BOOLEAN /\ Patches \in BOOLEAN
    /\ Happens \subseteq [at : Steps, of : SUBSET Kinds, code : Codes, found : SUBSET Findings,
                          gap : BOOLEAN, defect : {"none", "role", "rendered"}, asks : BOOLEAN]

VARIABLES
    step,           \* the state of each Step
    tickets,        \* the Stories, one for each Step, and then what was opened
    work,           \* the ticket an attempt is made for, or 0
    result,         \* what came of the attempt
    up,             \* a run is under way
    tried           \* an attempt was made at CODE

vars == <<step, tickets, work, result, up, tried>>

Fresh(kind, at, context) ==
    [kind |-> kind, at |-> at, context |-> context, parent |-> 0, bug |-> 0, source |-> 0,
     origins |-> {}, trigger |-> 0, cause |-> 0, route |-> {}, code |-> "none", hopped |-> FALSE,
     on |-> {}, after |-> {}, state |-> "created", proven |-> FALSE,
     left |-> Budget, log |-> NoLog]

NoResult == [code |-> "none", ok |-> FALSE, found |-> {}, gap |-> FALSE, defect |-> "none",
             asks |-> FALSE, gate |-> "none", testsOnly |-> FALSE, routing |-> FALSE, queued |-> <<>>]

Init ==
    /\ step = [s \in Steps |-> "created"] /\ tickets = [s \in Steps |-> Fresh("story", s, s)]
    /\ work = 0 /\ result = NoResult /\ up = TRUE /\ tried = FALSE

Live(t) == t.state # "closed"
All == 1..Len(tickets)

-----------------------------------------------------------------------------
(* WorkScheduler                                                            *)

Done(t) == t.state \in {"resolved", "closed"}
AfterReady(t) == \A j \in t.after : Done(tickets[j])
Ready(t) ==
    /\ AfterReady(t)
    /\ t.at > 1 => /\ step[t.at - 1] \in Satisfied
                   /\ t.kind = "story" => Done(tickets[t.at - 1])

Rank(t) == CASE IsRequest(t) -> 3 [] t.kind = "bug" -> 2 [] t.kind = "enhancement" -> 1 [] OTHER -> 0

First(T) ==
    {i \in T : \A j \in T : LET t == tickets[i] u == tickets[j]
                            IN  t.at < u.at \/ (t.at = u.at /\ Rank(t) >= Rank(u))}

Executing ==
    {i \in All : LET t == tickets[i] IN
        t.state = "in_progress" /\ t.on = {} /\ step[t.at] # "closed" /\ Ready(t)}

Corrective(s) ==
    {i \in All : LET t == tickets[i] IN
        IsCorrective(t) /\ t.at = s /\ ~ Done(t) /\ t.on = {} /\ AfterReady(t)}

Ordinary(s) ==
    {i \in {s} : LET t == tickets[i] IN
        step[s] # "closed" /\ Ready(t) /\ t.on = {} /\ ~ Done(t)}

Busy == {s \in Steps : step[s] = "in_progress"}

\* resume() and next().
Selection ==
    IF Executing # {} THEN First(Executing)
    ELSE IF Busy = {} THEN First(UNION {IF Corrective(s) # {} THEN Corrective(s) ELSE Ordinary(s) : s \in Steps})
    ELSE LET offered == UNION {Corrective(s) : s \in Busy}
         IN  IF offered # {} THEN First(offered)
             ELSE {s \in Busy : tickets[s].state = "in_progress"}

Refuses == Cardinality(Busy) > 1 \/ (Busy # {} /\ Selection = {})

-----------------------------------------------------------------------------
(* start()                                                                  *)

\* A Change Request whose attempts were all lost has one failure recorded for them.
Evidence(t) ==
    IF IsRequest(t) /\ t.log = NoLog THEN Logged(t.log, "missing") ELSE t.log

Extended(t) == Extends(Evidence(t), t.at = t.context)

\* The ticket is out of attempts, and nothing speaks for another: the run ends.
Exhausted(i) ==
    /\ tickets[i].left = 0 /\ ~ Extended(tickets[i])
    /\ up' = FALSE
    /\ UNCHANGED <<step, tickets, work, tried>>

Begin(i) ==
    LET t == tickets[i]
        log == IF t.left = 0 THEN Evidence(t) ELSE t.log
    IN  /\ t.left > 0 \/ Extended(t)
        /\ step' = [step EXCEPT ![t.at] = "in_progress"]
        /\ tickets' = [tickets EXCEPT ![i].left = IF @ = 0 THEN 0 ELSE @ - 1, ![i].log = log,
                                      ![i].state = "in_progress"]
        /\ work' = i /\ tried' = (tried \/ t.at = CODE)
        /\ UNCHANGED up

Idle == up /\ work = 0

Start ==
    /\ Idle /\ ~ Refuses
    /\ \E i \in Selection : Exhausted(i) \/ Begin(i)
    /\ UNCHANGED result

\* Nothing is left to do, or nothing can be done.
Finish ==
    /\ Idle /\ (Refuses \/ Selection = {}) /\ up' = FALSE
    /\ UNCHANGED <<step, tickets, work, result, tried>>

-----------------------------------------------------------------------------
(* runAttempt                                                               *)

Gate(i) == BaselineGate(tickets[i].at, ChainOrigin(tickets, i))

\* Where a failure of f that g repairs is replayed.
Proving(b) ==
    LET f == tickets[b].context g == tickets[b].at
    IN  IF Verifies(g) THEN g ELSE IF Verifies(f) THEN f ELSE Paired(g)

BugsOf(t) == {b \in {t.source} \ {0} : tickets[b].kind = "bug"}
Unproven(t, s) == {b \in BugsOf(t) : Live(tickets[b]) /\ ~ tickets[b].proven /\ Proving(b) # s}

\* A manifest's own Step does not ask for packages, and the tests a development Step has to have
\* are not missing where there is nothing to run them on.
Can(o, i) ==
    LET t == tickets[i]
    IN  /\ o.at = t.at /\ t.kind \in o.of
        \* what is wrong with the manifest is for its own Step to correct, and no failure
        /\ o.code = "contract invalid" => t.kind = "story" \/ \E f \in o.found : f.target # t.at
        \* only a Change Request is asked to replay what its sources failed of
        /\ o.code = "not replayed" => \E b \in BugsOf(t) : ~ tickets[b].proven /\ Proving(b) = t.at
        /\ Strays \/ t.at = t.context \/ t.log.count[o.code] < RepeatedFailureLimit
        /\ Len(tickets) + Max({1, Cardinality(o.found)}) <= Cardinality(Steps) + MaxRaised

\* failAttempt: the failure is recorded.
Fail ==
    /\ up /\ work # 0 /\ result = NoResult
    /\ \E o \in Happens :
        /\ Can(o, work)
        /\ result' = [NoResult EXCEPT !.code = o.code, !.ok = o.code = "not replayed", !.found = o.found,
                          !.gap = o.gap, !.defect = o.defect, !.asks = o.asks, !.gate = Gate(work)]
        /\ tickets' = [tickets EXCEPT ![work].log = Logged(@, o.code)]
    /\ UNCHANGED <<step, work, up, tried>>

Succeed ==
    /\ up /\ work # 0 /\ result = NoResult
    /\ \E testsOnly \in BOOLEAN :
        /\ testsOnly => tickets[work].kind \in {"bug", "enhancement"} /\ tickets[work].at \in Development
        /\ result' = [NoResult EXCEPT !.code = "passed", !.ok = TRUE, !.gate = Gate(work),
                                      !.testsOnly = testsOnly]
    /\ UNCHANGED <<step, tickets, work, up, tried>>

\* deferCancelledAttempt.
Cancelled ==
    /\ up /\ work # 0 /\ result = NoResult
    /\ tickets' = [tickets EXCEPT ![work].left = @ + 1, ![work].state = "pending"]
    /\ step' = [step EXCEPT ![tickets[work].at] = "pending"]
    /\ work' = 0 /\ up' = FALSE
    /\ UNCHANGED <<result, tried>>

Crash ==
    /\ up /\ up' = FALSE /\ work' = 0 /\ result' = NoResult
    /\ UNCHANGED <<step, tickets, tried>>

\* A run is resumed, with the build it had or with another.
Resume ==
    /\ ~ up /\ up' = TRUE
    /\ \E patched \in BOOLEAN :
        /\ patched => Patches
        /\ tickets' = IF patched
                      THEN [i \in All |-> IF Done(tickets[i]) THEN tickets[i]
                                          ELSE [tickets[i] EXCEPT !.log = Aged(@)]]
                      ELSE tickets
    /\ UNCHANGED <<step, work, result, tried>>

-----------------------------------------------------------------------------
(* What the routing of a result does, as functions of the Steps and the    *)
(* tickets, `p' here: a result may open several tickets one after another. *)

Both == [step |-> step, tickets |-> tickets]

Reopened(state) == IF state \in Satisfied THEN "reopened" ELSE state

\* moveStepPending.
Parked(p, s) == [p EXCEPT !.step[s] = "pending"]

Changed(p, T) == [p EXCEPT !.tickets = T]

\* Ticket c blocks those of T that are still open.
BlockedBy(t, c) ==
    [t EXCEPT !.on = @ \cup {c}, !.state = IF @ = "in_progress" THEN "pending" ELSE @]
Block(p, T, c) ==
    Changed(p, [i \in DOMAIN p.tickets |->
        IF i \in T /\ Live(p.tickets[i]) THEN BlockedBy(p.tickets[i], c) ELSE p.tickets[i]])

\* The tickets of C go, and what they alone held executes again.
ReleasedFrom(t, C) ==
    [t EXCEPT !.on = @ \ C,
              !.state = IF @ = "pending" /\ t.on \subseteq C THEN "in_progress" ELSE @]
Release(p, C) ==
    Changed(p, [i \in DOMAIN p.tickets |->
        IF p.tickets[i].on \cap C # {} THEN ReleasedFrom(p.tickets[i], C) ELSE p.tickets[i]])

Close(t) == [t EXCEPT !.state = "closed"]
Closed(p, C) ==
    Release(Changed(p, [i \in DOMAIN p.tickets |->
                IF i \in C THEN Close(p.tickets[i]) ELSE p.tickets[i]]), C)

\* The ticket is opened behind the others, and blocks those of T.
Open(p, t, T) == Block([p EXCEPT !.tickets = Append(@, t)], T, Len(p.tickets) + 1)

ParentOf(i) == IF IsRequest(tickets[i]) THEN i ELSE 0

\* routeFailure: a failure of s that g repairs, met in an attempt of ticket i.
RouteFailure(p, i, s, g, parent, code) ==
    LET found == IF tickets[i].at \in {s, g} THEN Parked(p, s) ELSE Parked(Parked(p, s), tickets[i].at)
        routed == [found EXCEPT !.step[g] = IF g = s THEN @ ELSE Reopened(@)]
    IN  Open(routed, [Fresh("bug", g, s) EXCEPT !.parent = parent, !.cause = i, !.code = code],
             {s, g} \cup ({parent} \ {0}))

\* Where a gap of s that g repairs is verified.
GapVerifier(s, g) == IF Verifies(g) THEN g ELSE IF Verifies(s) THEN s ELSE Paired(g)

\* The open tickets a finding would open again.
SameGap(s, g, parent, bug, code) ==
    {j \in All : LET t == tickets[j] IN
        /\ t.kind = "enhancement" /\ Live(t) /\ t.at = g /\ t.context = s
        /\ t.parent = parent /\ t.bug = bug /\ t.code = code /\ code # "quality"}

SameRequest(kind, g, s) ==
    {j \in All : LET t == tickets[j] IN t.kind = kind /\ Live(t) /\ t.at = g /\ t.trigger = s}

\* routeQualityGap: the Story of the Step that found it is not blocked.
RouteGap(p, i, s, g, parent, bug, code) ==
    LET routed == [Parked(p, s) EXCEPT !.step[g] = IF g = s THEN @ ELSE Reopened(@)]
    IN  IF SameGap(s, g, parent, bug, code) # {} THEN p
        ELSE Open(routed, [Fresh("enhancement", g, s) EXCEPT !.parent = parent, !.cause = i,
                                                             !.bug = bug, !.code = code],
                  {g} \cup ({parent} \ {0}) \cup ({bug} \ {0}))

\* routeDependencyChange.
RouteDependency(p, i, s) ==
    LET routed == [Parked(p, s) EXCEPT !.step[Design] = Reopened(@)]
    IN  IF SameRequest("dependency", Design, s) # {} THEN routed
        ELSE Open(routed, [Fresh("dependency", Design, Design) EXCEPT !.trigger = s, !.source = s,
                                   !.cause = s, !.route = {d \in Steps : d > Design}], {i})

\* activateChangeRequest: the Stories of the Steps that found the fault wait for the request,
\* unless the request waits for one of them.
Activate(p, c) ==
    LET t == p.tickets[c]
        Found(b) == LET u == p.tickets[b] IN
                    CASE u.kind = "bug" -> {u.context}
                      [] u.kind = "enhancement" -> {GapVerifier(u.context, u.at)}
                      [] OTHER -> {}
        waiting == {s \in IF t.source = 0 THEN {} ELSE Found(t.source) : p.step[s] \in Satisfied \/ t.at <= s}
    IN  IF ~ Live(t) THEN p
        ELSE [Block(p, waiting, c) EXCEPT !.step[t.at] = Reopened(@)]

\* routeContractChange: it leaves the Step that reported it as it is.
RouteContract(p, i, s, g) ==
    LET same == SameRequest("contract", g, s)
    IN  IF same # {} THEN Activate(p, Min(same))
        ELSE Activate(Open(p, [Fresh("contract", g, g) EXCEPT !.trigger = s, !.source = s,
                                       !.cause = s, !.route = {d \in Steps : d > g}], {}),
                      Len(p.tickets) + 1)

Category(f) ==
    CASE f.category = "change-request" -> "contract"
      [] f.category = "dependency" -> "dependency"
      [] f.category \in {"test-defect", "product-defect"} -> "defect"
      [] OTHER -> "gap"

RouteFinding(p, i, f) ==
    LET t == tickets[i] s == t.at IN
    CASE Category(f) = "contract" -> RouteContract(p, i, s, f.target)
      [] Category(f) = "dependency" -> RouteDependency(p, i, s)
      [] Category(f) = "defect" -> RouteFailure(p, i, s, f.target, ParentOf(i), result.code)
      [] OTHER -> RouteGap(p, i, s, f.target, ParentOf(i), IF t.kind = "bug" THEN i ELSE 0, result.code)

\* The ticket a finding of ticket i came to.
Routed(q, i, f) ==
    LET t == tickets[i] s == t.at IN
    IF Len(q.tickets) > Len(tickets) THEN Len(q.tickets)
    ELSE IF Category(f) = "gap"
    THEN Min(SameGap(s, f.target, ParentOf(i), IF t.kind = "bug" THEN i ELSE 0, result.code))
    ELSE Min(SameRequest(Category(f), IF Category(f) = "dependency" THEN Design ELSE f.target, s))

\* The Steps in their order, and what asks for packages last.
BatchOrder(f) == IF f.category = "dependency" THEN 2 * Pairs + 1 ELSE f.target

\* (mutant) Each waits for the one after it as well.
BatchedBothWays(q) ==
    [p \in DOMAIN tickets |->
        [tickets[p] EXCEPT !.after = @ \cup {q[k] : k \in {n \in DOMAIN q :
            \E m \in DOMAIN q : q[m] = p /\ (m = n + 1 \/ n = m + 1)}}]]

\* registerGateBatch: each waits for the one before it.
Batched(q) ==
    [i \in DOMAIN tickets |->
        [tickets[i] EXCEPT !.after = @ \cup {q[k] : k \in {n \in DOMAIN q : n + 1 \in DOMAIN q /\ q[n + 1] = i}}]]

-----------------------------------------------------------------------------
(* The Steps' side of a delivery.                                           *)

Deliver(p, s) ==
    IF ~ Verifies(s) THEN [p EXCEPT !.step[s] = "delivered"]
    ELSE [p EXCEPT !.step[s] = "closed",
                   !.step[Paired(s)] = IF @ = "delivered" THEN "closed" ELSE @]

\* closeStoriesForClosedSteps.
CloseStories(p, S) ==
    Changed(p, [i \in DOMAIN p.tickets |->
        IF i \in S /\ p.step[i] = "closed" /\ p.tickets[i].on = {} THEN Close(p.tickets[i])
        ELSE p.tickets[i]])

\* deliverNormal; the source of a verification has to be delivered.
DeliverNormal(i) ==
    LET s == tickets[i].at
        p == Deliver(Both, s)
    IN  [p EXCEPT !.tickets[i].state = IF Verifies(s) THEN "closed" ELSE "resolved",
                  !.tickets[Paired(s)].state =
                      IF Verifies(s) /\ p.step[Paired(s)] = "closed" /\ @ = "resolved" THEN "closed" ELSE @]

\* repairedChangeRequestTargetsStep.
Meets(p, i, s) == p.tickets[i].parent # 0 /\ p.tickets[p.tickets[i].parent].at = s

\* awaitVerification, and the Change Request under repair goes on.
Await(p, i) ==
    Activate(Release([p EXCEPT !.tickets[i].state = "resolved"], {i}), p.tickets[i].parent)

\* propagateCorrectiveChange.
Propagate(i, affected) ==
    LET t == tickets[i]
        p == [Both EXCEPT !.step[t.at] = "delivered"]
        next == Min(affected)
        request == [Fresh("correction", next, next) EXCEPT
                        !.parent = t.parent, !.source = i, !.trigger = t.context, !.cause = i,
                        !.origins = IF t.kind = "bug" THEN {t.context} ELSE {},
                        !.route = affected \ {next}]
    IN  IF Meets(p, i, next) THEN Await(p, i)
        ELSE Activate(Open([p EXCEPT !.tickets[i].state = "resolved"], request, {}), Len(tickets) + 1)

-----------------------------------------------------------------------------
(* completeChangeRequestStep                                                *)

\* closeBugsProvenAt and verifyCorrectionsRaisedBy, of the corrections whose solution is there.
Carried(p, b) == \E r \in DOMAIN p.tickets : Live(p.tickets[r]) /\ p.tickets[r].source = b
ProvenHere(p, c, s) ==
    LET here == {b \in DOMAIN p.tickets : LET t == p.tickets[b] IN
                    /\ t.state = "resolved"
                    /\ \/ t.kind = "bug" /\ Proving(b) = s /\ (~ Carried(p, b) \/ t.parent = c)
                       \/ t.kind = "enhancement" /\ t.parent = c}
    IN  Closed(p, here)

\* The request moves on to the next Step of its way: another ticket, with attempts of its own.
Moved(t, next) ==
    [t EXCEPT !.at = next, !.context = next, !.route = @ \ {next}, !.state = "created",
              !.left = Budget, !.log = NoLog, !.hopped = TRUE]
Hop(p, c, next) ==
    Activate(Release([p EXCEPT !.tickets[c] = Moved(p.tickets[c], next)], {c}), c)

\* The last hop: the request closes, and its source with it when its failure was replayed.
LastHop(p, c) ==
    LET due == {b \in {p.tickets[c].source} \ {0} :
                    IsCorrective(p.tickets[b]) /\ (p.tickets[b].kind = "bug" => p.tickets[b].proven)}
    IN  Closed(p, {c} \cup due)

\* A Change Request that was parked while a correction was made inside it goes on.
Wake(p, c) ==
    LET t == p.tickets[c] IN IF t.parent = 0 \/ t.hopped THEN p ELSE Activate(p, t.parent)

\* completeDependencyRequest, of the last recheck: the Step that asked goes on.
Answered(p, t) ==
    [p EXCEPT !.step = [s \in Steps |->
        IF t.kind = "dependency" /\ s = t.trigger /\ @[s] = "pending" THEN "in_progress" ELSE @[s]]]

Apply(c) ==
    LET t == tickets[c]
        s == t.at
        met == t.route # {} /\ t.source # 0 /\ Meets(Both, t.source, Min(t.route))
        q == Deliver(Both, s)
        proven == Changed(q, [b \in DOMAIN q.tickets |->
                       [q.tickets[b] EXCEPT !.proven = @ \/ (b \in BugsOf(t) /\ Proving(b) = s)]])
        p == ProvenHere(proven, c, s)
        elsewhere == {Proving(b) : b \in Unproven(t, s)}
        rest == IF t.route # {} THEN t.route ELSE elsewhere
    IN  IF met THEN CloseStories(Closed(Await(p, t.source), {c}), Steps)
        ELSE IF rest = {} THEN CloseStories(Answered(Wake(LastHop(p, c), c), t), Steps)
        ELSE CloseStories(Wake(Hop(p, c, Min(rest)), c), {s})

-----------------------------------------------------------------------------
(* AttemptResultProcessor                                                   *)

\* The attempts of a ticket that is done, and their evidence, are looked at no more.
Settled(t) == IF Done(t) THEN [t EXCEPT !.left = 0, !.log = NoLog] ELSE t

Becomes(p, runs) ==
    /\ \E q \in {p} : step' = q.step /\ tickets' = [i \in DOMAIN q.tickets |-> Settled(q.tickets[i])]
    /\ up' = runs /\ work' = 0 /\ result' = NoResult /\ UNCHANGED tried

Outcome(p) == Becomes(p, up)

\* The run ends, and the state is as p has it.
StopWith(p) == Becomes(p, FALSE)

\* process(), of an attempt that passed.
ProcessPassed ==
    LET t == tickets[work]
        s == t.at
        affected == Propagation(step, s, result.testsOnly)
    IN  CASE t.kind = "story" ->
               IF Verifies(s) /\ step[Paired(s)] # "delivered"
               THEN StopWith([Both EXCEPT !.step[s] = "closed", !.tickets[work].state = "closed"])
               ELSE Outcome(DeliverNormal(work))
          [] t.kind \in {"bug", "enhancement"} ->
               IF affected = {} THEN StopWith(Both) ELSE Outcome(Propagate(work, affected))
          [] OTHER ->
               \* a hop whose replay is missing is neither delivered nor landed
               IF result.code = "not replayed" THEN Outcome(Both) ELSE Outcome(Apply(work))

Infrastructure == {"provider", "permission", "sandbox"}

\* deferNonProjectAttempt.
Deferred(i) ==
    [Both EXCEPT !.tickets[i].left = @ + 1, !.tickets[i].state = "pending", !.step[tickets[i].at] = "pending"]

\* alreadyContradicted.
Contradicted(i) == \E b \in All : tickets[b].kind = "bug" /\ tickets[b].code = "contradicted" /\ tickets[b].parent = i

\* processFailure, in its order.
ProcessFailed ==
    LET i == work
        t == tickets[i]
        s == t.at
        mode == Mode(t)
        routable == Routable(mode, s, result.found)
        carries == mode \in {"normal", "change-request"}
        own == mode # "normal" /\ result.found # {}
               /\ \A f \in result.found : QualityGap(f) /\ f.target = s
        source == IF Verifies(s) THEN Paired(s) ELSE s
        gap == RouteGap(Both, i, s, source, ParentOf(i), 0, result.code)
    IN  IF result.asks
        THEN IF s = Design THEN StopWith(Both) ELSE Outcome(RouteDependency(Both, i, s))
        ELSE IF result.code \in Infrastructure THEN StopWith(Deferred(i))
        ELSE IF result.code = "stalled" THEN Outcome(Both)
        ELSE IF routable # {}
        THEN /\ result' = [result EXCEPT !.routing = TRUE, !.found = routable]
             /\ UNCHANGED <<step, tickets, work, up, tried>>
        ELSE IF own THEN Outcome(Both)
        ELSE IF mode = "change-request" /\ result.defect = "role" /\ t.origins # {} /\ ~ Contradicted(i)
        THEN \E failed \in t.origins :
                 Outcome(RouteFailure(Both, i, failed, IF Verifies(failed) THEN Paired(failed) ELSE failed,
                                      i, "contradicted"))
        ELSE IF carries /\ (result.code = "assets" \/ result.defect # "none" \/ result.gap) THEN Outcome(gap)
        ELSE IF result.code = "replay miss" THEN Outcome(gap)
        ELSE IF carries
        THEN \E g \in {s, source} :
                 Outcome(RouteFailure(Both, i, s, g, ParentOf(i), result.code))
        ELSE Outcome(Both)

Due == up /\ work # 0 /\ result # NoResult

Process ==
    /\ Due /\ ~ result.routing
    /\ IF result.ok THEN ProcessPassed ELSE ProcessFailed

\* routeGateFindings: one ticket after another, by the Steps they are for and what asks for
\* packages last ...
RouteNext ==
    /\ Due /\ result.routing
    /\ \E f \in result.found :
        /\ \A g \in result.found : BatchOrder(f) <= BatchOrder(g)
        /\ \E q \in {RouteFinding(Both, work, f)} :
            /\ step' = q.step /\ tickets' = q.tickets
            /\ \E i \in {Routed(q, work, f)} :
                   result' = [result EXCEPT !.found = @ \ {f},
                                            !.queued = IF \E n \in DOMAIN @ : @[n] = i THEN @ ELSE Append(@, i)]
    /\ UNCHANGED <<work, up, tried>>

\* ... and then the order they are worked on.
Batch ==
    /\ Due /\ result.routing /\ result.found = {}
    /\ Outcome([step |-> step, tickets |-> Batched(result.queued)])

\* A run goes on by itself; what stops it does not have to happen.
Attempt == Fail \/ Succeed
Run == Start \/ Finish \/ Attempt \/ Process \/ RouteNext \/ Batch

Next == Run \/ Cancelled \/ Crash \/ Resume

\* The last conjunct is the weak fairness of the processing, one action of which is enabled
\* exactly when a result is due, written so that TLC does not have to evaluate ENABLED for it.
Fairness == WF_vars(Start) /\ WF_vars(Finish) /\ WF_vars(Attempt) /\ []<>(~ Due)

Spec == Init /\ [][Next]_vars /\ Fairness

-----------------------------------------------------------------------------

\* An Enhancement that says neither in what Bug nor in what Enhancement it was found.
Orphan(t) == t.kind = "enhancement" /\ t.parent = 0 /\ t.bug = 0

\* The tickets because of which ticket i is there, itself among them, as far as they are said.
Causes(i) ==
    LET Cause(j) == IF Orphan(tickets[j]) THEN {} ELSE {tickets[j].cause} \ {0}
    IN  {j \in All : \A S \in SUBSET All : i \in S /\ (\A k \in S : Cause(k) \subseteq S) => j \in S}

\* Where the fault of a correction was met.
MetAt(t) == IF IsRequest(t) THEN t.trigger ELSE IF t.kind = "story" THEN 0 ELSE t.context

\* A development Step that is corrected because of what was met at CODE or later runs the tests it
\* wrote before it delivers again, however many corrections are in between.
BaselineHeld ==
    result # NoResult /\ tickets[work].at \in Development
        /\ (\E j \in Causes(work) : MetAt(tickets[j]) >= CODE)
    => result.gate = "execute"

\* A development Step before CODE is made to run its tests only when there was an attempt at the
\* code they test.
CodeIsThere == result # NoResult /\ result.gate = "execute" => tried

\* When the scheduler has nothing to offer, nothing is left to do: no correction waits for
\* another that waits for it, and none is left behind parked.
Complete ==
    /\ \A s \in Steps : step[s] = "closed"
    /\ \A i \in All : ~ Live(tickets[i])
NeverIdle == Idle /\ (Refuses \/ Selection = {}) => Complete

\* However an attempt fails, and with whatever it fails again, a run comes to an end: the retry
\* policy lets no ticket be tried without end, as long as it is tried at the Step that keeps its
\* records (Strays = FALSE).
RetriesEnd == up ~> ~ up

\* README.md:69: "Repeated identical failures stop the Ticket instead of exhausting its budget":
\* none is tried again once it failed of the same thing as often as the policy allows.
RepeatedFailuresStop ==
    \A i \in All : \A c \in Codes \ Infrastructure : tickets[i].log.count[c] <= RepeatedFailureLimit

=============================================================================
