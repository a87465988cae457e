--------------------------- MODULE MergeIntegration ---------------------------
(***************************************************************************)
(* How a change set lands: merge request, gate, authorization and squash   *)
(* (src/application/workspace/merge_integration_service.ts,                *)
(* merge_gate_service.ts, src/domain/workspace/merge_request.ts).          *)
(*                                                                         *)
(* `caller' says who integrates: the delivery of a ticket, the end of the  *)
(* Phase, or the start of a run ("start", and "reconcile" for a squash     *)
(* that landed without its record).  `todo' are the change sets the caller *)
(* goes through.                                                           *)
(***************************************************************************)
EXTENDS ChangeSets

CONSTANTS
    Owned           \* the repository was made by XCompiler: no authorization is needed

ASSUME OwnedAssumption == Owned \in BOOLEAN

VARIABLES
    left,           \* what a run that ended midway left on the canonical branch
    cut,            \* the change sets whose integration was given up before a verdict
    skipped         \* the change sets the end of the Phase was not reached for

ends == <<left, cut, skipped>>

TheGate == gate[run.c]
Source == changeSet[run.c].source

\* Whose turn it is when one change set is done with.
Return(from) == IF from = "ticket" THEN "loop" ELSE IF from = "phase" THEN "phase" ELSE "pending"

\* The work on the canonical branch nobody has accepted, and the change sets the run
\* was about to integrate.
Unaccepted == (tree'[Main] \cup staged' \cup Content(branch'[Main])) \ accepted
InHand ==
    {c \in ChangeSetIds : Active(c) /\ changeSet[c].state # "gate-passed"
        /\ \/ c = run.c /\ run.at \in {"open", "review", "gate", "gated", "check", "cleanup", "passed", "bug"}
           \/ run.at \in {"verified", "integrate"} /\ run.t \in changeSet[c].tickets}
Cut ==
    /\ left' = left \cup Unaccepted
    /\ cut' = cut \cup InHand
    /\ UNCHANGED skipped

\* An outcome that is no defect of the project stops the run.
Blocked == End /\ Cut

-----------------------------------------------------------------------------
(* integrateTicket, integratePhase. *)

\* (mutant) a Bug is not looked for among the tickets of a change set.
NothingToMergeForBugs ==
    /\ At("integrate")
    /\ \A c \in ChangeSetIds : Active(c) => changeSet[c].root # run.t
    /\ Go("loop")
    /\ UNCHANGED <<git, domain, record, counts, ends>>

NothingToMerge ==
    /\ At("integrate")
    /\ \A c \in ChangeSetIds : Active(c) => run.t \notin changeSet[c].tickets
    /\ Go("loop")
    /\ UNCHANGED <<git, domain, record, counts, ends>>
IntegrateTicket ==
    /\ At("integrate")
    /\ \E c \in ChangeSetIds :
        /\ Active(c) /\ run.t \in changeSet[c].tickets
        /\ run' = [run EXCEPT !.at = "open", !.c = c, !.caller = "ticket"]
    /\ UNCHANGED <<git, domain, record, counts, ends>>
IntegrateNext ==
    /\ At("phase")
    /\ \E c \in run.todo :
        run' = [run EXCEPT !.at = "open", !.c = c, !.caller = "phase", !.todo = @ \ {c}]
    /\ UNCHANGED <<git, domain, record, counts, ends>>

\* gates.open: a request for the branch the change set has now.
Open ==
    /\ At("open")
    /\ gate' = [gate EXCEPT ![run.c].request = IF @ = "none" THEN "draft" ELSE @]
    /\ Go("review")
    /\ UNCHANGED <<git, ticket, changeSet, record, counts, ends>>
Review ==
    /\ At("review")
    /\ changeSet' = [changeSet EXCEPT ![run.c].state = IF @ = "developing" THEN "reviewing" ELSE @]
    /\ Go("gate")
    /\ UNCHANGED <<git, ticket, gate, record, counts, ends>>

\* gates.start: the candidate is made in a working copy of its own before the run of
\* the gate is on record; with a conflict the working copy goes again.
FreshGate(c) ==
    GateBranch(c, Min({i \in 1..(1 + Cardinality(DOMAIN branch)) : GateBranch(c, i) \notin DOMAIN branch}))
MakeCandidate ==
    /\ At("gate")
    /\ CheckOut(FreshGate(run.c), Candidate(branch[Main], branch[Source]))
    /\ run' = [run EXCEPT !.at = "gated", !.b = FreshGate(run.c), !.base = branch[Main]]
    /\ UNCHANGED <<domain, record, counts, ends>>
CannotStart ==
    /\ At("gate") /\ Fault
    /\ UNCHANGED <<git, domain, record>>
    /\ Blocked
Conflict ==
    /\ At("gate") /\ MayConflict(branch[Main], branch[Source])
    /\ Fails
    /\ run' = [run EXCEPT !.at = "bug", !.b = None]
    /\ UNCHANGED <<git, domain, record, ends>>
Validate ==
    /\ At("gated")
    /\ gate' = [gate EXCEPT ![run.c] =
                    [request |-> "validating", status |-> "running",
                     src |-> branch[Source], tgt |-> run.base]]
    /\ Go("check")
    /\ UNCHANGED <<git, ticket, changeSet, record, counts, ends>>

\* gates.complete: the verdict and the state of the request are one commit.
Pass ==
    /\ At("check")
    /\ gate' = [gate EXCEPT ![run.c].status = "passed", ![run.c].request = "approved"]
    /\ accepted' = accepted \cup Content(branch[run.b])
    /\ Go("cleanup")
    /\ UNCHANGED <<git, ticket, changeSet, by, counts, ends>>
Fail ==
    /\ At("check") /\ Fails
    /\ gate' = [gate EXCEPT ![run.c].status = "failed", ![run.c].request = "changes-requested"]
    /\ Go("bug")
    /\ UNCHANGED <<git, ticket, changeSet, record, ends>>
CannotRun ==
    /\ At("check") /\ Fault
    /\ gate' = [gate EXCEPT ![run.c].status = "infrastructure-failed"]
    /\ tree' = Without(run.b)
    /\ branch' = [n \in DOMAIN branch \ {run.b} |-> branch[n]]
    /\ UNCHANGED <<staged, ticket, changeSet, record>>
    /\ Blocked

\* cleanupGate: only a rejected candidate is kept.  A failure of it blocks the merge.
CleanUp ==
    /\ At("cleanup")
    /\ tree' = Without(run.b)
    /\ branch' = [n \in DOMAIN branch \ {run.b} |-> branch[n]]
    /\ run' = [run EXCEPT !.at = "passed", !.b = None]
    /\ UNCHANGED <<staged, domain, record, counts, ends>>
CleanUpFails ==
    /\ At("cleanup") /\ Fault
    /\ UNCHANGED <<git, domain, record>>
    /\ Blocked

GatePassed ==
    /\ At("passed")
    /\ changeSet' = [changeSet EXCEPT ![run.c].state = "gate-passed"]
    /\ Go("verdict")
    /\ UNCHANGED <<git, ticket, gate, record, counts, ends>>

-----------------------------------------------------------------------------
(* currentVerdict: a pass counts for the heads it was given for. *)
IsCurrent == TheGate.src = branch[Source] /\ TheGate.tgt = branch[Main]

VerdictHolds ==
    /\ At("verdict") /\ TheGate.status = "passed" /\ IsCurrent
    /\ Go(IF Owned THEN "intend" ELSE "authorize")
    /\ UNCHANGED <<git, domain, record, counts, ends>>
VerdictFails ==
    /\ At("verdict") /\ ~ (TheGate.status = "passed" /\ IsCurrent)
    /\ gate' = [gate EXCEPT ![run.c].status = IF @ = "passed" THEN "stale" ELSE @]
    /\ UNCHANGED <<git, ticket, changeSet, record, counts>>
    /\ IF run.caller = "start" THEN Blocked
       ELSE /\ run' = [run EXCEPT !.at = "bug", !.b = None]
            /\ UNCHANGED ends

(* mergeGatePassed. *)
Approve ==
    /\ At("authorize")
    /\ Go("intend")
    /\ UNCHANGED <<git, domain, record, counts, ends>>
Deny ==
    /\ At("authorize") /\ Fault
    /\ UNCHANGED <<git, domain, record>>
    /\ Blocked

\* The intent is on record before the squash, so that the next run can tell.
Intend ==
    /\ At("intend")
    /\ gate' = [gate EXCEPT ![run.c].request = "mergeable"]
    /\ Go("squash")
    /\ UNCHANGED <<git, ticket, changeSet, record, counts, ends>>
Refused ==
    /\ At("squash")
    /\ Refuses(TheGate.tgt) \/ MayRefuse
    /\ UNCHANGED <<git, domain, record, counts>>
    /\ Blocked
MergeSquash ==
    /\ At("squash") /\ ~ Refuses(TheGate.tgt)
    /\ Squash(Source)
    /\ Go("commit")
    /\ UNCHANGED <<domain, record, counts, ends>>
CommitMerge ==
    /\ At("commit")
    /\ CommitSquash(run.c)
    /\ Go("persist")
    /\ UNCHANGED <<domain, record, counts, ends>>
\* (mutant) the commit that failed is taken for done.
CommitFailsUnnoticed ==
    /\ At("commit") /\ Fault
    /\ RevertTo(Main, TheGate.tgt)
    /\ Go("persist")
    /\ UNCHANGED <<domain, record, ends>>

\* (mutant) the branch is reset as well when the record cannot be written.
CommitFailsLate ==
    /\ run.at \in {"commit", "persist"} /\ Fault
    /\ RevertTo(Main, TheGate.tgt)
    /\ UNCHANGED <<domain, record>>
    /\ Blocked

CommitFails ==
    /\ At("commit") /\ Fault
    /\ RevertTo(Main, TheGate.tgt)
    /\ UNCHANGED <<domain, record>>
    /\ Blocked

\* persistMergedState.
Merged(c) ==
    /\ gate' = [gate EXCEPT ![c].request = "merged"]
    /\ changeSet' = [changeSet EXCEPT ![c].state = "merged"]
Persist ==
    /\ At("persist")
    /\ Merged(run.c)
    /\ Go("release")
    /\ UNCHANGED <<git, ticket, record, counts, ends>>

\* releaseChangeSet.  A failure of it ends the loop over the change sets as if all of
\* them had been merged, but not the one that reconciles.
Release ==
    /\ At("release")
    /\ tree' = Without(Source)
    /\ Go(Return(run.caller))
    /\ UNCHANGED <<branch, staged, domain, record, counts, ends>>
ReleaseFails ==
    /\ At("release") /\ Fault
    /\ LET early == run.caller # "reconcile" IN
       /\ run' = [run EXCEPT !.at = Return(run.caller), !.todo = IF early THEN {} ELSE @]
       /\ skipped' = IF early THEN skipped \cup run.todo ELSE skipped
    /\ UNCHANGED <<git, domain, record, left, cut>>

-----------------------------------------------------------------------------
(* integratePendingAuthorization and reconcileMergeIntent, when a run starts. *)

Landed(c) ==
    /\ Last(branch[Main]).of = c
    /\ Front(branch[Main]) = gate[c].tgt
Resume(c, label, caller) ==
    run' = [run EXCEPT !.at = label, !.c = c, !.caller = caller, !.todo = @ \ {c}]

\* Nothing was merged yet: the verdict is looked at again.
ResumeGate ==
    /\ At("pending")
    /\ \E c \in run.todo :
        /\ gate[c].request = "mergeable" => branch[Main] = gate[c].tgt /\ gate[c].status = "passed"
        /\ Resume(c, "verdict", "start")
    /\ UNCHANGED <<git, domain, record, counts, ends>>
ResumeMerged ==
    /\ At("pending")
    /\ \E c \in run.todo :
        /\ gate[c].request = "mergeable" /\ gate[c].status = "passed" /\ Landed(c)
        /\ Merged(c)
        /\ Resume(c, "release", "reconcile")
    /\ UNCHANGED <<git, ticket, record, counts, ends>>
CannotReconcile ==
    /\ At("pending")
    /\ \E c \in run.todo :
        /\ gate[c].request = "mergeable"
        /\ gate[c].status # "passed" \/ ~ (branch[Main] = gate[c].tgt \/ Landed(c))
    /\ UNCHANGED <<git, domain, record, counts>>
    /\ Blocked
NothingPending ==
    /\ At("pending") /\ run.todo = {}
    /\ Go("loop")
    /\ UNCHANGED <<git, domain, record, counts, ends>>
=============================================================================
