------------------------------- MODULE Mainline -------------------------------
(***************************************************************************)
(* What the canonical branch promises its readers: it grows, work that was *)
(* committed but not landed may be taken back, and what has landed stays,  *)
(* each change set once                                                    *)
(* (src/application/workspace/merge_integration_service.ts,                *)
(* src/workspace/git.ts).                                                  *)
(***************************************************************************)
EXTENDS Naturals, Sequences

CONSTANTS
    ChangeSet,      \* the change sets there may be
    None            \* the marker of a commit that lands none

VARIABLES main      \* the marker of each commit on the branch

LandedIn(history) == {history[i] : i \in 1..Len(history)} \ {None}

Init == main = <<None>>

\* The squash of a change set that has not landed.
Land ==
    LET c == main'[Len(main')] IN
    /\ c \in ChangeSet \ LandedIn(main)
    /\ main' = Append(main, c)

\* An attempt on the canonical branch, or somebody else, commits.
Record == main' = Append(main, None)

\* A failed attempt takes back what has been committed since it began.
TakeBack ==
    \E n \in 1..Len(main) :
        /\ \A i \in (n + 1)..Len(main) : main[i] = None
        /\ main' = SubSeq(main, 1, n)

Next == Land \/ Record \/ TakeBack

Spec == Init /\ [][Next]_main

-----------------------------------------------------------------------------
\* A change set has one commit on the branch, however often its merge was tried,
\* interrupted and reconciled (squashMerge, reconcileMergeIntent).
LandsOnce ==
    \A i, j \in 1..Len(main) : main[i] = main[j] /\ main[i] # None => i = j

\* What has landed is never taken back (revertTo).
StaysLanded == [][LandedIn(main) \subseteq LandedIn(main')]_main
=============================================================================
