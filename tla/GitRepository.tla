---------------------------- MODULE GitRepository ----------------------------
(***************************************************************************)
(* The Git repository of a project as the services use it: branches, the   *)
(* working copies that are checked out of them, and the index of the       *)
(* canonical one (src/infrastructure/git/git_repository_service.ts,        *)
(* src/workspace/git.ts).                                                  *)
(*                                                                         *)
(* What a commit changes is a set of pieces of work, each with a number of *)
(* its own.  A revision is the history it names, so that two revisions are *)
(* the same commit exactly when they are the same sequence.                *)
(***************************************************************************)
EXTENDS Naturals, SequencesExt

CONSTANTS
    Main,           \* the canonical branch, and the working copy that is on it
    None

VARIABLES
    branch,         \* the history of each branch that exists
    tree,           \* what is not committed, in each working copy there is
    staged          \* what is in the index of the canonical copy

git == <<branch, tree, staged>>

\* Function f, with v at x whether x was in its domain or not.
With(f, x, v) == [y \in DOMAIN f \cup {x} |-> IF y = x THEN v ELSE f[y]]

\* A commit: what it adds, and the change set whose marker it carries.
Commit(adds, of) == [adds |-> adds, of |-> of]

Content(history) == UNION {history[i].adds : i \in 1..Len(history)}

GitInit ==
    /\ branch = [b \in {Main} |-> <<Commit({}, None)>>]
    /\ tree = [b \in {Main} |-> {}]
    /\ staged = {}

Clean(b) == tree[b] = {} /\ (b = Main => staged = {})

\* addWorktree: checks out branch b, made at `start' unless it is there already.
CheckOut(b, start) ==
    /\ branch' = IF b \in DOMAIN branch THEN branch ELSE With(branch, b, start)
    /\ tree' = With(tree, b, {})
    /\ UNCHANGED staged

\* reconcilePhysicalWorktree: a working copy whose directory is gone is checked out again.
Present(b) == IF b \in DOMAIN tree THEN tree ELSE With(tree, b, {})

\* removeWorktree, forced: what is not committed goes with it.
Without(b) == [n \in DOMAIN tree \ {b} |-> tree[n]]

\* snapshot: everything in the working copy becomes a commit, an empty one if need be.
Snapshot(b) ==
    LET all == tree[b] \cup (IF b = Main THEN staged ELSE {})
    IN  /\ branch' = [branch EXCEPT ![b] = Append(@, Commit(all, None))]
        /\ tree' = [tree EXCEPT ![b] = {}]
        /\ staged' = IF b = Main THEN {} ELSE staged

\* revertTo: reset --hard and clean.
RevertTo(b, revision) ==
    /\ branch' = [branch EXCEPT ![b] = revision]
    /\ tree' = [tree EXCEPT ![b] = {}]
    /\ staged' = IF b = Main THEN {} ELSE staged

\* mergeInto: the candidate a gate judges, the source merged into the target.
Candidate(target, source) ==
    IF IsPrefix(source, target) THEN target
    ELSE Append(target, Commit(Content(source), None))

\* The target holds something the source has not been based on.
MayConflict(target, source) == ~ Content(target) \subseteq Content(source)

\* (mutant) the target is squashed onto whatever it is.
RefusesDirtyOnly(expected) == staged # {}

\* squashMerge refuses another target than the one the gate judged, and a working
\* copy with tracked changes; what is not tracked it leaves alone.
Refuses(expected) == branch[Main] # expected \/ staged # {}
MayRefuse == tree[Main] # {}
Squash(source) ==
    /\ staged' = Content(branch[source]) \ Content(branch[Main])
    /\ UNCHANGED <<branch, tree>>
\* git commits nothing when the source adds nothing, and says so on its standard output.
CommitSquash(c) ==
    /\ branch' = IF staged = {} THEN branch
                 ELSE [branch EXCEPT ![Main] = Append(@, Commit(staged, c))]
    /\ staged' = {}
    /\ UNCHANGED tree
=============================================================================
