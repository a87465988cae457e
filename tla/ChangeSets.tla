------------------------------ MODULE ChangeSets ------------------------------
(***************************************************************************)
(* Where a ticket works: the change sets, the working copies they are      *)
(* developed in, and the attempt as a transaction over one of them         *)
(* (src/application/workspace/ticket_change_set_service.ts,                *)
(* src/application/execution/attempt_runner.ts).                           *)
(*                                                                         *)
(* A run of the project is one sequential process: `run' holds what its    *)
(* call stack holds and nothing of it outlives it.  Each action is one Git *)
(* command or one commit of domain objects, with the reads before it; a    *)
(* run may end before any of them.  The revisions a change set records are *)
(* left out: they only serve to recreate a branch that somebody deleted.   *)
(***************************************************************************)
EXTENDS GitRepository

CONSTANTS
    Steps,          \* the number of Steps
    CodeStep,       \* the Step whose work is isolated in a change set
    MaxBugs,        \* bound on the Bugs opened
    MaxFailures,    \* bound on the attempts and gates that fail
    MaxFaults       \* bound on the crashes, the failures of the environment and the
                    \* commits somebody else makes on the canonical branch

ASSUME ProjectAssumption ==
    /\ Steps \in Nat \ {0} /\ CodeStep \in 1..Steps
    /\ {MaxBugs, MaxFailures, MaxFaults} \subseteq Nat
    /\ MaxBugs >= MaxFailures + MaxFaults

VARIABLES
    ticket,         \* the tickets there are: their Step, the ticket they belong to, their
                    \* state and their workspaceBinding
    changeSet,      \* the change sets there are
    gate,           \* the merge request of a change set, and its latest gate run
    run,            \* where the run is
    accepted,       \* the work an attempt or a gate accepted
    by,             \* the work each ticket was delivered with
    made,           \* the number of pieces of work there are
    failures, faults \* what the bounds count

domain == <<ticket, changeSet, gate>>
record == <<accepted, by>>
counts == <<made, failures, faults>>

Story(s) == <<"story", s>>
Bug(i) == <<"bug", i>>
Tickets == {Story(s) : s \in 1..Steps} \cup {Bug(i) : i \in 1..MaxBugs}
TicketBranch(root, generation) == <<"ticket", root, generation>>
GateBranch(c, n) == <<"gate", c, n>>

\* The names there are, of change sets and of their branches; the canonical branch has
\* another.
ChangeSetNames == Tickets \X Nat
TicketBranches == {"ticket"} \X Tickets \X Nat
GateBranches == {"gate"} \X ChangeSetNames \X Nat
ASSUME NamesAssumption ==
    /\ Main \notin TicketBranches \cup GateBranches
    /\ None \notin TicketBranches \cup GateBranches \cup ChangeSetNames \cup Tickets \cup {Main}

Unbound == [kind |-> "none", branch |-> None, of |-> None]
Canonical == [kind |-> "canonical", branch |-> Main, of |-> None]
InChangeSet(c) == [kind |-> "ticket", branch |-> None, of |-> c]
InGate(c, b) == [kind |-> "gate", branch |-> b, of |-> c]

OpenTicket(s, parent, binding) ==
    [step |-> s, parent |-> parent, state |-> "open", binding |-> binding]

ChangeSetInit ==
    /\ GitInit
    /\ ticket = [t \in {Story(s) : s \in 1..Steps} |-> OpenTicket(t[2], None, Unbound)]
    /\ changeSet = <<>> /\ gate = <<>>
    /\ accepted = {} /\ by = <<>>
    /\ made = 0 /\ failures = 0 /\ faults = 0

-----------------------------------------------------------------------------
Idle == [at |-> "down", t |-> None, c |-> None, caller |-> None, todo |-> {},
         base |-> <<>>, w |-> 0, b |-> None]
At(label) == run.at = label
Go(label) == run' = [run EXCEPT !.at = label]
End == run' = Idle
Fails == failures < MaxFailures /\ failures' = failures + 1
               /\ UNCHANGED <<made, faults>>
Fault == faults < MaxFaults /\ faults' = faults + 1
               /\ UNCHANGED <<made, failures>>

ChangeSetIds == DOMAIN changeSet
Active(c) == changeSet[c].state # "merged"
Generation(root) ==
    1 + Cardinality({c \in ChangeSetIds : changeSet[c].root = root})

\* findLineageChangeSet: the newest active change set of the ticket, or of the tickets
\* that caused it.
Lineage(t) == {t, ticket[t].parent} \ {None}
Newest(C) == CHOOSE c \in C : \A d \in C : d[2] <= c[2]
Inherited(t) ==
    {c \in ChangeSetIds : Active(c) /\ changeSet[c].tickets \cap Lineage(t) # {}}

\* resolveBinding and ensureFor: where a ticket goes on.
Binding(t) == ticket[t].binding
Follows(t) ==
    /\ Binding(t).of # None
    /\ Active(Binding(t).of)
IsCode(t) == ticket[t].step = CodeStep
OnCanonical(t) ==
    /\ ~ Follows(t)
    /\ ~ IsCode(t)
    /\ Binding(t).kind = "canonical" \/ Inherited(t) = {}
InItsChangeSet(t) ==
    \/ Follows(t) /\ Binding(t).kind = "ticket"
    \/ ~ Follows(t) /\ ~ OnCanonical(t) /\ Inherited(t) # {}
TheChangeSet(t) == IF Follows(t) THEN Binding(t).of ELSE Newest(Inherited(t))

BoundTo(t, binding) == ticket' = [ticket EXCEPT ![t].binding = binding]

UseCanonical ==
    /\ At("scope") /\ OnCanonical(run.t)
    /\ BoundTo(run.t, Canonical)
    /\ run' = [run EXCEPT !.at = "baseline", !.b = Main]
    /\ UNCHANGED <<git, changeSet, gate, record, counts>>

\* A change set is followed wherever its source branch is now.
UseChangeSet ==
    /\ At("scope") /\ InItsChangeSet(run.t)
    /\ LET c == TheChangeSet(run.t) IN
       /\ tree' = Present(changeSet[c].source)
       /\ changeSet' = [changeSet EXCEPT ![c].tickets = @ \cup {run.t}]
       /\ BoundTo(run.t, InChangeSet(c))
       /\ run' = [run EXCEPT !.at = "baseline", !.b = changeSet[c].source]
    /\ UNCHANGED <<branch, staged, gate, record, counts>>

\* promoteGateBinding: the rejected candidate becomes the source of its change set.
\* The old working copy goes first, and the commit may never come.
DropOldTree ==
    /\ At("scope") /\ Follows(run.t) /\ Binding(run.t).kind = "gate"
    /\ LET old == changeSet[Binding(run.t).of].source
           new == Binding(run.t).branch IN
       /\ tree' = IF old = new THEN Present(new)
                  ELSE [n \in (DOMAIN tree \cup {new}) \ {old} |-> Present(new)[n]]
       /\ Go("promote")
    /\ UNCHANGED <<branch, staged, domain, record, counts>>
Promote ==
    /\ At("promote")
    /\ LET c == Binding(run.t).of
           b == Binding(run.t).branch IN
       /\ changeSet' = [changeSet EXCEPT ![c].source = b, ![c].tickets = @ \cup {run.t}]
       /\ ticket' = [x \in DOMAIN ticket |-> IF x \in {run.t, changeSet[c].root}
            THEN [ticket[x] EXCEPT !.binding = InChangeSet(c)] ELSE ticket[x]]
       /\ run' = [run EXCEPT !.at = "baseline", !.b = b]
    /\ UNCHANGED <<git, gate, record, counts>>

\* create: the branch and its working copy first, then the record of them.  A working
\* copy that an interrupted creation left behind is in the way, and stays there.
RootFor(t) == IF run.at = "preserve" THEN t ELSE Story(CodeStep)
NewId(root) == <<root, Generation(root)>>
NewBranch(root) == TicketBranch(root, Generation(root))
Orphaned(root) == NewBranch(root) \in DOMAIN tree
Opens(t) ==
    \/ At("scope") /\ ~ Follows(t) /\ ~ OnCanonical(t) /\ Inherited(t) = {}
    \/ At("preserve")
AddTree ==
    /\ Opens(run.t) /\ ~ Orphaned(RootFor(run.t))
    /\ CheckOut(NewBranch(RootFor(run.t)), branch[Main])
    /\ Go(IF At("preserve") THEN "preserved" ELSE "create")
    /\ UNCHANGED <<domain, record, counts>>
InTheWay ==
    /\ Opens(run.t) /\ Orphaned(RootFor(run.t))
    /\ IF At("preserve") THEN RevertTo(Main, run.base) ELSE UNCHANGED git
    /\ End
    /\ UNCHANGED <<domain, record, counts>>
\* The same while a candidate is kept, where runAttempt catches the error: the attempt has
\* failed of that, and nothing of the candidate is left.  Only the error of an attempt that
\* failed of an error already ends the run (InTheWay).
CannotPreserve ==
    /\ At("preserve") /\ Orphaned(run.t)
    /\ RevertTo(Main, run.base)
    /\ Go("route")
    /\ UNCHANGED <<domain, record, counts>>
RecordChangeSet(root) ==
    LET c == NewId(root) IN
    /\ changeSet' = With(changeSet, c, [root |-> root, tickets |-> {root, run.t},
                                        state |-> "developing", source |-> NewBranch(root)])
    /\ gate' = With(gate, c, [request |-> "none", status |-> "none", src |-> <<>>, tgt |-> <<>>])
    /\ ticket' = [x \in DOMAIN ticket |-> IF x \in {run.t, root}
            THEN [ticket[x] EXCEPT !.binding = InChangeSet(c)] ELSE ticket[x]]
Create ==
    /\ At("create")
    /\ RecordChangeSet(Story(CodeStep))
    /\ run' = [run EXCEPT !.at = "baseline", !.b = NewBranch(Story(CodeStep))]
    /\ UNCHANGED <<git, record, counts>>

-----------------------------------------------------------------------------
(* runAttempt. *)

\* The head is what a failed attempt goes back to.  What is not committed before the
\* attempt is taken for prepared material and committed.
Baseline ==
    /\ At("baseline")
    /\ IF Clean(run.b) THEN UNCHANGED git ELSE Snapshot(run.b)
    /\ run' = [run EXCEPT !.at = "execute", !.base = branch'[run.b]]
    /\ UNCHANGED <<domain, record, counts>>

\* The executor changes files.
Execute ==
    /\ At("execute")
    /\ made' = made + 1
    /\ tree' = [tree EXCEPT ![run.b] = @ \cup {made + 1}]
    /\ run' = [run EXCEPT !.at = "judge", !.w = made + 1]
    /\ UNCHANGED <<branch, staged, domain, record, failures, faults>>

\* recordTicketCommit: the work is committed where it was done.
Verified ==
    /\ At("judge")
    /\ Snapshot(run.b)
    /\ accepted' = accepted \cup {run.w}
    /\ Go("verified")
    /\ UNCHANGED <<domain, by, counts>>

\* The result is processed: the Step and the ticket are delivered.
Deliver ==
    /\ At("verified")
    /\ ticket' = [ticket EXCEPT ![run.t].state = "done"]
    /\ by' = With(by, run.t, run.w)
    /\ Go("integrate")
    /\ UNCHANGED <<git, changeSet, gate, accepted, counts>>

\* failAttempt, with nothing worth keeping; a cancellation does the same and ends the run.
RollBack ==
    /\ At("judge") /\ Fails
    /\ RevertTo(run.b, run.base)
    /\ Go("loop")
    /\ UNCHANGED <<domain, record>>
Cancelled ==
    /\ At("judge") /\ Fault
    /\ RevertTo(run.b, run.base)
    /\ End
    /\ UNCHANGED <<domain, record>>

\* failAttempt, with a candidate: it is committed; a candidate on the canonical branch
\* is then pinned to a change set of its own, and the branch goes back to the baseline.
Reject ==
    /\ At("judge") /\ Fails
    /\ Snapshot(run.b)
    /\ Go(IF run.b = Main THEN "preserve" ELSE "route")
    /\ UNCHANGED <<domain, record>>
Pin ==
    /\ At("preserved")
    /\ RecordChangeSet(run.t)
    /\ Go("restore")
    /\ UNCHANGED <<git, record, counts>>
\* (mutant) the branch keeps the candidate.
RestoreNothing ==
    /\ At("restore")
    /\ Go("route")
    /\ UNCHANGED <<git, domain, record, counts>>

Restore ==
    /\ At("restore")
    /\ RevertTo(Main, run.base)
    /\ Go("route")
    /\ UNCHANGED <<domain, record, counts>>

\* The failure is routed: the ticket tries again, or a Bug is opened at the Step that
\* owns the code and inherits the candidate.
NextBug == Bug(1 + Cardinality({t \in DOMAIN ticket : t[1] = "bug"}))
OpenBug(binding) ==
    /\ NextBug \in Tickets
    /\ ticket' = With(ticket, NextBug, OpenTicket(CodeStep, Story(CodeStep), binding))
Route ==
    /\ At("route")
    /\ \/ UNCHANGED ticket
       \/ ticket[run.t].step > CodeStep /\ OpenBug(Binding(run.t))
    /\ Go("loop")
    /\ UNCHANGED <<git, changeSet, gate, record, counts>>
=============================================================================
