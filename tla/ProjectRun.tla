------------------------------ MODULE ProjectRun ------------------------------
(***************************************************************************)
(* The run of a Phase, from its start to its delivery, over and over until *)
(* it gets there (src/runtime/run.ts,                                      *)
(* src/application/project_management/orchestrator.ts): the tickets are    *)
(* taken in their order, each is attempted in its working copy             *)
(* (ChangeSets), what it delivers is integrated (MergeIntegration), and a  *)
(* run may end at every step.                                              *)
(*                                                                         *)
(* The schedule is the plain one, CorrectiveFlow has the details: a Bug    *)
(* goes before the Stories, and these go in the order of their Steps.      *)
(***************************************************************************)
EXTENDS MergeIntegration

vars == <<git, domain, run, record, counts, ends>>

Init ==
    /\ ChangeSetInit
    /\ run = Idle
    /\ left = {} /\ cut = {} /\ skipped = {}

Unmerged == {c \in ChangeSetIds : Active(c)}
Undone == {t \in DOMAIN ticket : ticket[t].state = "open"}
OpenBugs == {t \in Undone : t[1] = "bug"}

-----------------------------------------------------------------------------
\* (mutant) a run begins with the tickets.
StartRunWithTickets ==
    /\ At("down")
    /\ run' = [Idle EXCEPT !.at = "pending"]
    /\ UNCHANGED <<git, domain, record, counts, ends>>

\* (mutant) a run begins with every change set that has not landed.
StartRunWithAll ==
    /\ At("down")
    /\ run' = [Idle EXCEPT !.at = "pending", !.todo = Unmerged]
    /\ UNCHANGED <<git, domain, record, counts, ends>>

\* A run begins with what waits for its authorization.
StartRun ==
    /\ At("down")
    /\ run' = [Idle EXCEPT !.at = "pending",
                           !.todo = {c \in Unmerged : changeSet[c].state = "gate-passed"}]
    /\ UNCHANGED <<git, domain, record, counts, ends>>

\* scheduler.resume.
Offered == IF OpenBugs # {} THEN OpenBugs
           ELSE {t \in Undone : \A u \in Undone : t[2] <= u[2]}
Schedule ==
    /\ At("loop")
    /\ \E t \in Offered :
        run' = [Idle EXCEPT !.at = "scope", !.t = t]
    /\ UNCHANGED <<git, domain, record, counts, ends>>

\* The gate of the Phase, when nothing is left to do.
PhaseGatePasses ==
    /\ At("loop") /\ Undone = {}
    /\ run' = [Idle EXCEPT !.at = "phase", !.caller = "phase", !.todo = Unmerged]
    /\ UNCHANGED <<git, domain, record, counts, ends>>
PhaseGateFails ==
    /\ At("loop") /\ Undone = {} /\ Fails
    /\ run' = [Idle EXCEPT !.at = "bug", !.caller = "phase"]
    /\ UNCHANGED <<git, domain, record, ends>>

\* processIntegrationFailure, and the same at the end of the Phase: the Bug inherits
\* the working copy the change was rejected in.  The Phase names none, and the Bug
\* goes where its Story is.
RejectedIn ==
    IF run.caller = "phase" THEN Binding(Story(CodeStep))
    ELSE IF run.b = None THEN InChangeSet(run.c) ELSE InGate(run.c, run.b)
OpenIntegrationBug ==
    /\ At("bug")
    /\ OpenBug(RejectedIn)
    /\ Go("loop")
    /\ UNCHANGED <<git, changeSet, gate, record, counts, ends>>

\* completePhase.
Complete ==
    /\ At("phase") /\ run.todo = {}
    /\ Go("complete")
    /\ UNCHANGED <<git, domain, record, counts, ends>>

-----------------------------------------------------------------------------
(* The environment. *)

Crash ==
    /\ run.at \notin {"down", "complete"} /\ Fault
    /\ UNCHANGED <<git, domain, record>>
    /\ Blocked

\* Somebody deletes a working copy between two runs.
LoseTree ==
    /\ At("down") /\ Fault
    /\ \E c \in Unmerged :
        /\ changeSet[c].source \in DOMAIN tree
        /\ tree' = Without(changeSet[c].source)
    /\ UNCHANGED <<branch, staged, domain, run, record, ends>>

\* Somebody else commits on the canonical branch, between two runs or while one waits
\* for the checks of a gate or for an authorization.
UserCommit ==
    /\ run.at \in {"down", "check", "authorize"} /\ staged = {}
    /\ faults < MaxFaults /\ faults' = faults + 1
    /\ branch' = [branch EXCEPT ![Main] = Append(@, Commit({made + 1}, None))]
    /\ accepted' = accepted \cup {made + 1}
    /\ made' = made + 1
    /\ UNCHANGED <<tree, staged, domain, run, by, failures, ends>>

-----------------------------------------------------------------------------
Work ==
    /\ \/ UseCanonical \/ UseChangeSet \/ DropOldTree \/ Promote \/ AddTree \/ Create
       \/ Baseline \/ Execute \/ Verified \/ Deliver
       \/ CannotPreserve \/ Pin \/ Restore \/ Route
    /\ UNCHANGED ends
GoesWrong == (RollBack \/ Reject) /\ UNCHANGED ends
Stops == (InTheWay \/ Cancelled) /\ Cut

Integrate ==
    \/ NothingToMerge \/ IntegrateTicket \/ IntegrateNext \/ Open \/ Review
    \/ MakeCandidate \/ Validate \/ Pass \/ CleanUp \/ GatePassed
    \/ VerdictHolds \/ VerdictFails \/ Approve \/ Intend \/ Refused
    \/ MergeSquash \/ CommitMerge \/ Persist \/ Release
    \/ ResumeGate \/ ResumeMerged \/ CannotReconcile \/ NothingPending
Rejected == Conflict \/ Fail
Interrupted ==
    CannotStart \/ CannotRun \/ CleanUpFails \/ Deny \/ CommitFails \/ ReleaseFails

\* What a run does of itself, and the next run after one that ended.
Proceed ==
    \/ StartRun \/ Schedule \/ PhaseGatePasses \/ OpenIntegrationBug \/ Complete
    \/ Work \/ Stops \/ Integrate

Next ==
    \/ Proceed \/ PhaseGateFails \/ GoesWrong \/ Rejected \/ Interrupted
    \/ Crash \/ LoseTree \/ UserCommit

Spec == Init /\ [][Next]_vars /\ WF_vars(Proceed)

-----------------------------------------------------------------------------
(* Properties *)

Labels ==
    {"down", "pending", "loop", "scope", "promote", "create", "baseline", "execute", "judge",
     "verified", "preserve", "preserved", "restore", "route", "integrate", "open", "review",
     "gate", "gated", "check", "cleanup", "passed", "verdict", "authorize", "intend", "squash",
     "commit", "persist", "release", "bug", "phase", "complete"}
Bindings ==
    {Unbound, Canonical} \cup {InChangeSet(c) : c \in ChangeSetIds}
        \cup {InGate(c, b) : c \in ChangeSetIds, b \in DOMAIN branch}

\* The types of the state: every working copy has its branch, and what is recorded of the
\* tickets and the change sets names things that exist.
TypeOK ==
    /\ DOMAIN tree \subseteq DOMAIN branch
    /\ \A b \in DOMAIN branch : Content(branch[b]) \subseteq 1..made
    /\ \A t \in DOMAIN ticket : ticket[t].state \in {"open", "done"} /\ ticket[t].binding \in Bindings
    /\ DOMAIN by = DOMAIN ticket \ Undone
    /\ \A c \in ChangeSetIds :
        /\ changeSet[c].state \in {"developing", "reviewing", "gate-passed", "merged"}
        /\ changeSet[c].source \in DOMAIN branch /\ changeSet[c].tickets \subseteq DOMAIN ticket
        /\ gate[c].request \in {"none", "draft", "validating", "approved", "changes-requested",
                                "mergeable", "merged"}
        /\ gate[c].status \in {"none", "running", "passed", "failed", "stale", "infrastructure-failed"}
    /\ run.at \in Labels
    /\ left \cup accepted \subseteq 1..made /\ cut \cup skipped \subseteq ChangeSetIds

\* Once a run is past its start, Git and the record agree: what is squashed on the
\* canonical branch is recorded as merged, whenever the run before was interrupted,
\* and what is recorded as merged is there with all its branch holds
\* (reconcileMergeIntent, persistMergedState).
Working == run.at \notin {"down", "pending", "persist"} /\ run.caller \notin {"start", "reconcile"}
Holds(c) == Content(branch[changeSet[c].source]) \subseteq Content(branch[Main])
RecordAgrees ==
    /\ Working => \A i \in 1..Len(branch[Main]) :
            branch[Main][i].of # None => ~ Active(branch[Main][i].of)
    /\ \A c \in ChangeSetIds : ~ Active(c) => Holds(c)

\* What lands is what a gate has passed, on the target it was judged with: neither
\* an attempt on the source branch, nor a commit of somebody else, nor what an
\* interrupted squash left in the index gets in between (currentVerdict, squashMerge).
Lands == branch'[Main] # branch[Main] /\ Last(branch'[Main]).of # None
                                      /\ Len(branch'[Main]) > Len(branch[Main])
LandedAsGated ==
    [][Lands => LET c == Last(branch'[Main]).of IN
            /\ gate[c].status = "passed" /\ gate[c].tgt = branch[Main]
            /\ gate[c].src = branch[changeSet[c].source]
            /\ Content(branch'[Main]) = Content(gate[c].src) \cup Content(gate[c].tgt)]_vars

\* Between two tickets the canonical branch holds nothing but what an attempt or a
\* gate accepted, and what a run that ended midway left there: a rejected candidate
\* is always taken back (failAttempt, runAttempt's baseline).
OnlyAccepted ==
    At("loop") => Content(branch[Main]) \subseteq accepted \cup left

\* The work a ticket was delivered with is on the canonical branch or on its way
\* there, through every roll-back, promotion of a gate's candidate and interruption
\* (failAttempt, promoteGateBinding, mergeGatePassed).
NoWorkLost ==
    \A t \in DOMAIN by :
        \/ by[t] \in Content(branch[Main])
        \/ \E c \in Unmerged : by[t] \in Content(branch[changeSet[c].source])

\* A Story is developed on top of all that has been delivered before it, except for
\* a change set whose integration was given up: that one is not tried again before
\* the end of the Phase (merge_integration_service.ts:84-87, run.ts:510).
DownstreamSees ==
    At("execute") /\ run.b = Main /\ run.t[1] = "story" =>
        \A c \in Unmerged : (\E t \in changeSet[c].tickets : ticket[t].state = "done")
            => c \in cut \cup skipped

\* The canonical branch is a main line: nothing that has landed is taken back, and
\* nothing lands twice.
ToMainline == INSTANCE Mainline WITH
    main <- [i \in 1..Len(branch[Main]) |-> branch[Main][i].of],
    ChangeSet <- ChangeSetNames
IsMainline == ToMainline!Spec

\* Whatever fails, the Phase is delivered, or the project has got to where no further
\* run can help: the working copy of an interrupted creation is in the way, or a
\* change set that passed its gate can be neither merged nor judged again, because
\* the index or the working copy holds what an interrupted step left, or because one
\* of the branches has moved.
CannotCreate == Orphaned(Story(CodeStep)) /\ \E t \in Undone : IsCode(t)
Overtaken(c) ==
    /\ Active(c) /\ changeSet[c].state = "gate-passed"
    /\ \/ gate[c].status # "passed"
       \/ gate[c].tgt # branch[Main] /\ ~ (gate[c].request = "mergeable" /\ Landed(c))
       \/ gate[c].src # branch[changeSet[c].source]
       \/ ~ Clean(Main)
Wedged ==
    /\ At("down")
    /\ CannotCreate \/ \E c \in ChangeSetIds : Overtaken(c)
Delivered == <>(At("complete") \/ Wedged)
=============================================================================
