----------------------------- MODULE AttemptPolicy -----------------------------
(***************************************************************************)
(* What is decided about one attempt before and after it is made: whether  *)
(* a ticket that has used its attempts has another (retry_policy.ts),      *)
(* where a chain of corrections began (correction_provenance.ts), whether  *)
(* a development Step runs the tests it wrote (attempt_policy.ts), and how *)
(* far a correction is carried (correctivePropagationStepIds).             *)
(***************************************************************************)
EXTENDS Integers, Sequences, FiniteSets, FiniteSetsExt

CONSTANTS
    Pairs,          \* the development Steps, each with the Step that verifies it
    Design,         \* the Step that owns the manifest
    Codes           \* what an attempt can fail of: the codes of its failures

ASSUME PolicyAssumption == Pairs \in Nat \ {0} /\ Design \in 1..Pairs

Steps == 1..(2 * Pairs)
Paired(s) == 2 * Pairs + 1 - s
Verifies(s) == s > Pairs
CODE == Pairs
Development == 1..Pairs

-----------------------------------------------------------------------------
(* The evidence of a ticket: how often each signature was recorded under   *)
(* the build that runs, and whether older evidence is there.  Beyond the   *)
(* limit the count makes no difference.                                    *)

RepeatedFailureLimit == 3

NoLog == [old |-> FALSE, count |-> [c \in Codes |-> 0]]
Logged(log, c) == [log EXCEPT !.count[c] = IF @ > RepeatedFailureLimit THEN @ ELSE @ + 1]
Aged(log) == [old |-> log.old \/ \E c \in Codes : log.count[c] > 0, count |-> [c \in Codes |-> 0]]
Recorded(log) == {c \in Codes : log.count[c] > 0}

\* (mutant) The limit is not looked at.
ExtendsAlways(log, here) ==
    \/ (log.old \/ Recorded(log) # {}) /\ (~ here \/ Recorded(log) = {})
    \/ here /\ Recorded(log) # {}

\* evaluateAttemptExtension.  `here' is whether the instructions of the Step a record names are
\* those of the ticket's own Step: a record made anywhere else does not count.
Extends(log, here) ==
    LET relevant == IF here THEN Recorded(log) ELSE {}
    IN  \/ (log.old \/ Recorded(log) # {}) /\ relevant = {}
        \/ relevant # {} /\ \A c \in relevant : log.count[c] < RepeatedFailureLimit

-----------------------------------------------------------------------------
(* Where a chain of corrections began.  A ticket is a record of the        *)
(* sequence `tickets', and its number is its place there; 0 is no ticket,  *)
(* and the origin 0 is none.                                               *)

Requests == {"correction", "contract", "dependency"}
IsRequest(t) == t.kind \in Requests
IsCorrective(t) == t.kind # "story"

\* directCorrectionOrigin.
DirectOrigin(t) ==
    IF t.kind \in {"bug", "enhancement"} THEN t.context
    ELSE IF t.kind = "story" THEN 0
    ELSE IF t.origins # {} THEN Max(t.origins) ELSE t.trigger

\* (mutant) What a correction was raised inside of is not followed.
CorrectionParentsButOwn(tickets, i) ==
    LET t == tickets[i]
    IN  {j \in {t.bug, t.source} : j # 0 /\ IsCorrective(tickets[j])}

\* correctionParentIds, of those that are corrections themselves.
CorrectionParents(tickets, i) ==
    LET t == tickets[i]
    IN  {j \in {t.parent, t.bug, t.source} : j # 0 /\ IsCorrective(tickets[j])}

\* The tickets on the way up from i: the least set that holds i and the parents of what it holds.
Chain(tickets, i) ==
    {j \in DOMAIN tickets :
        \A S \in SUBSET DOMAIN tickets :
            i \in S /\ (\A k \in S : CorrectionParents(tickets, k) \subseteq S) => j \in S}

\* resolveCorrectionChainOrigin: the deepest of all there is on the way up.
ChainOrigin(tickets, i) == Max({0} \cup {DirectOrigin(tickets[j]) : j \in Chain(tickets, i)})

\* resolveBaselineGateExecution.
BaselineGate(s, origin) ==
    IF Verifies(s) THEN "not-applicable"
    ELSE IF s = CODE \/ origin >= CODE THEN "execute" ELSE "defer"

-----------------------------------------------------------------------------
(* How far a correction is carried, and who answers for a finding.          *)

Satisfied == {"delivered", "closed"}

Downstream(s) == {d \in Steps : d > s}

\* (mutant) The Step that verifies a change of tests is reached whatever is in between.
PropagationUnchecked(step, s, testsOnly) ==
    IF ~ Verifies(s) /\ testsOnly THEN {Paired(s)} ELSE Downstream(s)

\* correctivePropagationStepIds.
Propagation(step, s, testsOnly) ==
    LET clear == \A d \in Steps : s < d /\ d < Paired(s) => step[d] \in Satisfied
    IN  IF ~ Verifies(s) /\ testsOnly /\ clear THEN {Paired(s)} ELSE Downstream(s)

\* isQualityGapFinding.
QualityGap(finding) ==
    finding.category \in {"test-incomplete", "quality-shortfall", "deliverable-defect"}

\* The findings that become tickets of their own.
Routable(mode, s, findings) ==
    {f \in findings :
        \/ mode = "normal"
        \/ mode = "change-request" /\ (QualityGap(f) => f.target # s)
        \/ mode \in {"debug", "enhancement"} /\ QualityGap(f) /\ f.target # s}

\* workModeFor.
Mode(t) ==
    CASE t.kind = "story" -> "normal"
      [] t.kind = "bug" -> "debug"
      [] t.kind = "enhancement" -> "enhancement"
      [] OTHER -> "change-request"

=============================================================================
