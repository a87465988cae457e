---------------------------- MODULE ProjectHistory ----------------------------
(***************************************************************************)
(* What the processes that take the project lock do with the project: one  *)
(* builds it, anew or on top of what is delivered (src/runtime/build.ts),  *)
(* the others run it, a Phase each (src/runtime/run.ts).  The plan is kept *)
(* twice, in the control files phasePlan.json and plan.P<k>.json and as    *)
(* objects in the registry, and no commit covers both: a process that ends *)
(* midway, by a crash or because the planner fails, leaves them apart, and *)
(* the next one goes on from there.                                        *)
(*                                                                         *)
(* A Phase is called by its number.  Every build has a number too, and a   *)
(* plan, a Phase and the Steps of a Phase are told apart by the build they *)
(* come from.  What a run does inside a Phase is ProjectRun's.             *)
(***************************************************************************)
EXTENDS ProjectLock, Sequences

CONSTANTS
    Split,          \* the Phases of one build
    MaxBuilds,      \* bound
    MaxFaults       \* bound, on crashes and failed sessions together

ASSUME HistoryAssumption ==
    /\ Split \in Nat \ {0} /\ MaxBuilds \in Nat \ {0} /\ MaxFaults \in Nat

VARIABLES
    job,            \* the session of each process that holds the lock
    phasePlan,      \* phasePlan.json
    plan,           \* plan.P<k>.json, where there is one: the build it is of
    projects,       \* the live projects of the registry, the newest last
    torn,           \* the builds that ended before their graph was in the registry
    builds, faults  \* counters

lock == vars
disk == <<phasePlan, plan, projects>>
counts == <<torn, builds, faults>>
everything == <<lock, job, disk, counts>>

NoPhasePlan == [build |-> 0, intent |-> "none", status |-> <<>>, current |-> 0]
Idle == [at |-> "idle", intent |-> "none", build |-> 0, k |-> 0, size |-> 0,
         base |-> NoPhasePlan, recover |-> FALSE]

HistoryInit ==
    /\ Init
    /\ job = [p \in Processes |-> Idle]
    /\ phasePlan = NoPhasePlan
    /\ plan = <<>>
    /\ projects = <<>>
    /\ torn = {} /\ builds = 0 /\ faults = 0

-----------------------------------------------------------------------------
\* A holder works; one that --force has overridden is taken to be the stale process
\* the option is meant for, and does nothing more.
Works(p) == pc[p] = "held" /\ p \notin ousted
At(p, label) == Works(p) /\ job[p].at = label
GoOn(p, label) == job' = [job EXCEPT ![p].at = label]

\* A session that gives up leaves the files as they are.
LeftBehind(p) ==
    IF Works(p) /\ job[p].at \in {"decompose", "save", "refer", "graph"}
    THEN {job[p].build} \ {projects[i].build : i \in DOMAIN projects} ELSE {}
GivesUp(p) ==
    /\ GoOn(p, "end")
    /\ torn' = torn \cup LeftBehind(p)
    /\ UNCHANGED <<lock, disk, builds>>
Refused(p) == GivesUp(p) /\ UNCHANGED faults

\* The planner, a gate or the work on a Phase fails.
Fail(p) ==
    /\ \E label \in {"planning", "decompose", "deliver", "advance"} : At(p, label)
    /\ faults < MaxFaults /\ faults' = faults + 1
    /\ GivesUp(p)

-----------------------------------------------------------------------------
(* The build. *)

BeginBuild(p) ==
    /\ At(p, "idle") /\ builds < MaxBuilds
    /\ builds' = builds + 1
    /\ \E intent \in {"greenfield", "feature"} :
        /\ intent = "feature" => phasePlan # NoPhasePlan
        /\ job' = [job EXCEPT ![p] = [Idle EXCEPT !.at = "planning", !.intent = intent,
                                                  !.build = builds + 1, !.base = phasePlan]]
    /\ UNCHANGED <<lock, disk, torn, faults>>

\* planPhasePlan, and the PhasePlan it yields saved before anything else is planned.
Checkpoint(p) ==
    /\ At(p, "planning")
    /\ phasePlan' = [build |-> job[p].build, intent |-> job[p].intent, current |-> 1,
                     status |-> [k \in 1..Split |-> IF k = 1 THEN "current" ELSE "planned"]]
    /\ GoOn(p, "decompose")
    /\ UNCHANGED <<lock, plan, projects, counts>>

\* The checkpoint of the same requirement is used again.  What an increment is compared
\* by includes the memory of the project, which every run changes.
Reusable(p) ==
    /\ phasePlan # NoPhasePlan /\ phasePlan.intent = job[p].intent
    /\ {k \in DOMAIN phasePlan.status : phasePlan.status[k] = "current"} = {phasePlan.current}
    /\ job[p].intent = "feature" => phasePlan.build \in torn
Reuse(p) ==
    /\ At(p, "planning") /\ p \notin Forced /\ Reusable(p)
    /\ job' = [job EXCEPT ![p].at = "decompose", ![p].build = phasePlan.build]
    /\ UNCHANGED <<lock, disk, counts>>

\* The place of a Phase in the PhasePlan.
Place(k) == Cardinality({i \in DOMAIN phasePlan.status : i <= k})
\* decomposePhase; then findProject, which throws when there are several, and what an
\* increment asks of the project it finds.  Its Phases are renamed, by their places, to
\* follow those there are.
Plannable(p) ==
    /\ Len(projects) <= 1
    /\ job[p].intent = "feature" => projects # <<>> /\ projects[1].state = "closed"
Decompose(p) ==
    /\ At(p, "decompose") /\ Plannable(p)
    /\ job' = [job EXCEPT
            ![p].at = "save",
            ![p].size = Cardinality(DOMAIN phasePlan.status),
            ![p].k = IF job[p].intent = "feature"
                     THEN Len(projects[1].phase) + Place(phasePlan.current) ELSE phasePlan.current]
    /\ UNCHANGED <<lock, disk, counts>>
CannotPlan(p) == At(p, "decompose") /\ ~ Plannable(p) /\ Refused(p)

\* savePlan, over the plan of that Phase there may be.
WithPlan(k, b) == [i \in DOMAIN plan \cup {k} |-> IF i = k THEN b ELSE plan[i]]
SavePlan(p) ==
    /\ At(p, "save")
    /\ plan' = WithPlan(job[p].k, job[p].build)
    /\ GoOn(p, "refer")
    /\ UNCHANGED <<lock, phasePlan, projects, counts>>

\* (mutant) An increment's Phases keep the names the planner gave them.
NoOffset(p) == 0

Offset(p) == job[p].k - Place(phasePlan.current)
Renamed(p) ==
    [k \in {Offset(p) + Place(i) : i \in DOMAIN phasePlan.status} |->
        phasePlan.status[CHOOSE i \in DOMAIN phasePlan.status : k = Offset(p) + Place(i)]]
\* buildPhasePlanFromCurrentPlan: an increment keeps the Phases of the PhasePlan that was
\* there when the build began.
Preserved(p) == job[p].base.status
Joined(new, old) ==
    [k \in DOMAIN new \cup DOMAIN old |-> IF k \in DOMAIN new THEN new[k] ELSE old[k]]
SavePhasePlan(p) ==
    /\ At(p, "refer")
    /\ phasePlan' = [phasePlan EXCEPT
            !.build = job[p].build, !.current = job[p].k,
            !.status = IF job[p].intent = "feature" THEN Joined(Renamed(p), Preserved(p)) ELSE @]
    /\ GoOn(p, "graph")
    /\ UNCHANGED <<lock, plan, projects, counts>>

\* compileActivePhase: only the current Phase has its Steps.
ActiveSteps(p, k) == IF k = job[p].k THEN job[p].build ELSE 0
\* compileProjectGraph, compileProjectExtension: the Phases of a build, the first with its Steps.
Compiled(p, after) ==
    [i \in 1..job[p].size |-> [build |-> job[p].build, state |-> "created",
                               steps |-> ActiveSteps(p, after + i)]]
PersistGraph(p) ==
    /\ At(p, "graph") /\ job[p].intent = "greenfield"
    /\ projects' = Append(projects,
            [build |-> job[p].build, current |-> job[p].k, state |-> "planning",
             phase |-> Compiled(p, 0)])
    /\ GoOn(p, IF projects = <<>> THEN "end" ELSE "retire")
    /\ UNCHANGED <<lock, phasePlan, plan, counts>>
PersistExtension(p) ==
    /\ At(p, "graph") /\ job[p].intent = "feature"
    /\ projects' = [projects EXCEPT ![1] =
            [build |-> job[p].build, current |-> job[p].k, state |-> "planning",
             phase |-> @.phase \o Compiled(p, Len(@.phase))]]
    /\ GoOn(p, "end")
    /\ UNCHANGED <<lock, phasePlan, plan, counts>>

\* retireProject: leaf by leaf, the project itself last.
RetireProject(p) ==
    /\ At(p, "retire")
    /\ projects' = Tail(projects)
    /\ GoOn(p, "end")
    /\ UNCHANGED <<lock, phasePlan, plan, counts>>

-----------------------------------------------------------------------------
(* The run. *)

Project == projects[1]
Phase(p) == Project.phase[job[p].k]
WithPhase(k, field, value) == [projects EXCEPT ![1].phase[k] = [@ EXCEPT ![field] = value]]

BeginRun(p) ==
    /\ At(p, "idle")
    /\ GoOn(p, "load")
    /\ UNCHANGED <<lock, disk, counts>>

\* loadPlanTarget and findProject: the plan of the Phase the PhasePlan has as current, and
\* the Phase of that name.
Loadable ==
    /\ phasePlan # NoPhasePlan /\ phasePlan.current \in DOMAIN plan
    /\ Len(projects) = 1 /\ phasePlan.current \in DOMAIN Project.phase
Load(p) ==
    /\ At(p, "load") /\ Loadable
    /\ job' = [job EXCEPT
            ![p].k = phasePlan.current,
            ![p].at = IF Project.phase[phasePlan.current].steps = 0 THEN "materialize" ELSE "check"]
    /\ UNCHANGED <<lock, disk, counts>>
CannotLoad(p) == At(p, "load") /\ ~ Loadable /\ Refused(p)

Materialize(p) ==
    /\ At(p, "materialize")
    /\ projects' = WithPhase(job[p].k, "steps", plan[job[p].k])
    /\ GoOn(p, "check")
    /\ UNCHANGED <<lock, phasePlan, plan, counts>>

\* (mutant) A Phase the registry has closed is not looked at.
NeverUnadvanced(p) == FALSE

Unadvanced(p) == Phase(p).state = "closed" /\ Project.current # job[p].k
\* recoverUnadvancedPhase.
Check(p) ==
    /\ At(p, "check")
    /\ job' = [job EXCEPT ![p].at = IF Unadvanced(p) THEN "advance" ELSE "execute",
                          ![p].recover = Unadvanced(p)]
    /\ UNCHANGED <<lock, disk, counts>>

\* A Phase that is past its work passes its gates and cannot be delivered twice.
Execute(p) ==
    /\ At(p, "execute") /\ Phase(p).state \in {"created", "in_progress"}
    /\ projects' = [WithPhase(job[p].k, "state", "in_progress") EXCEPT ![1].state = "in_progress"]
    /\ GoOn(p, "deliver")
    /\ UNCHANGED <<lock, phasePlan, plan, counts>>
CannotDeliver(p) ==
    At(p, "execute") /\ Phase(p).state \notin {"created", "in_progress"} /\ Refused(p)

\* completePhase: the tickets of the Phase, the Phase delivered, the Phase closed, and what
\* comes after it, each a commit.
After == [deliver |-> "tickets", tickets |-> "delivered", delivered |-> "select"]
Becomes == [deliver |-> "leaving", tickets |-> "delivered", delivered |-> "closed"]
CompletePhase(p) ==
    /\ Works(p) /\ job[p].at \in DOMAIN After
    /\ projects' = WithPhase(job[p].k, "state", Becomes[job[p].at])
    /\ GoOn(p, After[job[p].at])
    /\ UNCHANGED <<lock, phasePlan, plan, counts>>
\* The first Phase of a build waits for none that is open.
Dependent(k) == (k - 1) % Split # 0
NextPhases ==
    {k \in DOMAIN Project.phase : /\ Project.phase[k].state # "closed"
                                  /\ Dependent(k) => Project.phase[k - 1].state = "closed"}
Least(names) == CHOOSE k \in names : \A i \in names : k <= i
SelectCurrentPhase(p) ==
    /\ At(p, "select") /\ NextPhases # {}
    /\ projects' = [projects EXCEPT ![1].current = Least(NextPhases)]
    /\ GoOn(p, "advance")
    /\ UNCHANGED <<lock, phasePlan, plan, counts>>
DeliverProject(p) ==
    /\ At(p, "select") /\ NextPhases = {}
    /\ projects' = [projects EXCEPT ![1].state = "delivered"]
    /\ GoOn(p, "close")
    /\ UNCHANGED <<lock, phasePlan, plan, counts>>
CloseProject(p) ==
    /\ At(p, "close")
    /\ projects' = [projects EXCEPT ![1].state = "closed"]
    /\ GoOn(p, "advance")
    /\ UNCHANGED <<lock, phasePlan, plan, counts>>

\* advancePhasePlan: the first planned Phase that waits for none.
Completed == [phasePlan.status EXCEPT ![phasePlan.current] = "complete"]
Planned == {k \in DOMAIN Completed : Completed[k] = "planned"}
ReadyToPlan == {k \in Planned : Dependent(k) => Completed[k - 1] = "complete"}
CannotAdvance(p) == At(p, "advance") /\ ReadyToPlan = {} /\ Planned # {} /\ Refused(p)
FinishPhasePlan(p) ==
    /\ At(p, "advance") /\ Planned = {}
    /\ phasePlan' = [phasePlan EXCEPT !.status = Completed]
    /\ GoOn(p, "end")
    /\ UNCHANGED <<lock, plan, projects, counts>>
\* The plan of the next Phase is there before the PhasePlan names it.
Publish(p) ==
    /\ At(p, "advance") /\ ReadyToPlan # {}
    /\ plan' = WithPlan(Least(ReadyToPlan), phasePlan.build)
    /\ GoOn(p, "reference")
    /\ UNCHANGED <<lock, phasePlan, projects, counts>>
Reference(p) ==
    /\ At(p, "reference")
    /\ phasePlan' = [phasePlan EXCEPT
            !.current = Least(ReadyToPlan),
            !.status = [Completed EXCEPT ![Least(ReadyToPlan)] = "current"]]
    /\ GoOn(p, "enter")
    /\ UNCHANGED <<lock, plan, projects, counts>>

\* PhaseMaterializationService.materialize, of the Phase the project has gone on to.
Enterable ==
    /\ phasePlan.current = Project.current
    /\ Project.phase[Project.current].state = "created" /\ Project.phase[Project.current].steps = 0
Enter(p) ==
    /\ At(p, "enter") /\ Enterable
    /\ projects' = WithPhase(Project.current, "steps", plan[Project.current])
    /\ job' = [job EXCEPT ![p].at = IF job[p].recover THEN "execute" ELSE "end",
                          ![p].k = Project.current]
    /\ UNCHANGED <<lock, phasePlan, plan, counts>>
CannotEnter(p) == At(p, "enter") /\ ~ Enterable /\ Refused(p)

-----------------------------------------------------------------------------
(* The processes. *)

\* A process that has ended gives its place to another one, which is told from it as long
\* as the lock records it.  Nobody is waited for: a refused process does not try again
\* before the holder has ended.
Recycle(p) ==
    /\ pc[p] \in Gone /\ Recorded # p /\ \A q \in Processes : pc[q] # "held"
    /\ pc' = [pc EXCEPT ![p] = "new"]
    /\ fd' = [fd EXCEPT ![p] = None]
    /\ content' = [content EXCEPT ![p] = IF path = p THEN @ ELSE Empty]
    /\ ousted' = ousted \ {p}
    /\ UNCHANGED <<path, job, disk, counts>>

Leave(p) ==
    /\ job[p].at = "end" \/ p \in ousted
    /\ Release(p)
    /\ job' = [job EXCEPT ![p] = Idle]
    /\ UNCHANGED <<disk, counts>>

Die(p) ==
    /\ faults < MaxFaults /\ faults' = faults + 1
    /\ Crash(p)
    /\ job' = [job EXCEPT ![p] = Idle]
    /\ torn' = torn \cup LeftBehind(p)
    /\ UNCHANGED <<disk, builds>>

Build(p) ==
    \/ Checkpoint(p) \/ Reuse(p) \/ Decompose(p) \/ CannotPlan(p)
    \/ SavePlan(p) \/ SavePhasePlan(p) \/ PersistGraph(p) \/ PersistExtension(p) \/ RetireProject(p)
Run(p) ==
    \/ BeginRun(p) \/ Load(p) \/ CannotLoad(p) \/ Materialize(p) \/ Check(p)
    \/ Execute(p) \/ CannotDeliver(p) \/ CompletePhase(p)
    \/ SelectCurrentPhase(p) \/ DeliverProject(p) \/ CloseProject(p)
    \/ CannotAdvance(p) \/ FinishPhasePlan(p) \/ Publish(p) \/ Reference(p)
    \/ Enter(p) \/ CannotEnter(p)

\* --force on a session at work is a fault like another.
Locks(p) ==
    /\ Acquire(p) \/ Unlink(p)
    /\ IF pc'[p] = "truncate" /\ Recorded # None /\ Works(Recorded)
       THEN faults < MaxFaults /\ faults' = faults + 1
       ELSE UNCHANGED faults
    /\ torn' = torn \cup UNION {LeftBehind(q) : q \in ousted' \ ousted}
    /\ UNCHANGED <<job, disk, builds>>
Starts(p) == Start(p) /\ UNCHANGED <<job, disk, counts>>

Goes(p) == Build(p) \/ Run(p) \/ Locks(p) \/ Leave(p)
HistoryNext ==
    \E p \in Processes : Goes(p) \/ Starts(p) \/ BeginBuild(p) \/ Recycle(p) \/ Fail(p) \/ Die(p)

\* A process goes on while it lives, and somebody starts the next one.
HistorySpec ==
    /\ HistoryInit /\ [][HistoryNext]_everything
    /\ \A p \in Processes : WF_everything(Goes(p)) /\ WF_everything(Recycle(p))
    /\ WF_everything(\E p \in Processes : Starts(p))

-----------------------------------------------------------------------------
(* Properties *)

OfItsBuild(phase) ==
    phase.steps \in {0, phase.build} \cup torn \/ phase.build \in torn

\* A build that went on from a later Phase has left Phases out.
LeavesOut(project) ==
    \E i, k \in DOMAIN project.phase :
        i < k /\ project.phase[k].steps # 0 /\ project.phase[i].state # "closed"

InStep(project) ==
    /\ project.current \in {phasePlan.current, phasePlan.current + 1}
    /\ torn = {} => DOMAIN phasePlan.status \subseteq DOMAIN project.phase
    /\ \A k \in DOMAIN phasePlan.status \cap DOMAIN project.phase :
        (project.phase[k].build = phasePlan.build \/ torn = {}) =>
            /\ phasePlan.status[k] = "complete" => project.phase[k].state = "closed"
            /\ phasePlan.status[k] = "planned" => project.phase[k].steps = 0

\* The files and the registry tell one story, at every instant and whatever ended midway: the
\* Steps of a Phase come from the plan of the build the Phase is of, unless from one that was
\* broken off; the registry is at the Phase the PhasePlan names or at the next one; and what the
\* PhasePlan has as complete is closed, and what it has as planned has not been begun.
Coherent ==
    /\ \A i \in DOMAIN projects : \A k \in DOMAIN projects[i].phase :
        OfItsBuild(projects[i].phase[k])
    /\ Len(projects) = 1 /\ phasePlan.build = Project.build /\ ~ LeavesOut(Project)
            => InStep(Project)

\* What no run gets out of.
TwoProjects == Len(projects) > 1
BetweenPhases ==
    \/ \E k \in DOMAIN Project.phase : Project.phase[k].state \in {"leaving", "delivered"}
    \/ Project.phase[Project.current].state = "closed"
NothingPlanned ==
    /\ Planned = {}
    /\ phasePlan.current \in {k \in DOMAIN Project.phase : Project.phase[k].state = "closed"}
Completing(p) == job[p].at \in {"tickets", "delivered", "select", "close", "advance"}

Finished == Len(projects) = 1 /\ Project.state = "closed"
Wedged ==
    \/ TwoProjects
    \/ /\ Len(projects) = 1 /\ \A p \in Processes : ~ Completing(p)
       /\ BetweenPhases \/ NothingPlanned

\* Runs started one after the other bring a project to its end, whatever they and the builds
\* before them left behind, but for three endings the code has no way out of: a process that died
\* before the replaced project was retired, one that died inside completePhase, and a build that
\* went on from a later Phase, after which the PhasePlan is done and the project is not.
Delivered == (Len(projects) = 1) ~> (Finished \/ Wedged)
=============================================================================
