---------------------------- MODULE StepExecutor ----------------------------
(***************************************************************************)
(* One attempt at a Step (StepExecutor.run in src/agents/executor.ts): the *)
(* model proposes a turn of actions, each is carried out, and the turn is  *)
(* judged: accepted, given up, or followed by another one.  A source Step  *)
(* ("development") or a verification Step ("test").                        *)
(*                                                                         *)
(* An action is known by its kind: it looks at files, fetches from the     *)
(* network, writes a file, the declared output, a document or the          *)
(* manifest, or runs the tests, which are one command.  Of what fails is   *)
(* kept which kind is unresolved.  Not here: the extra contract of a       *)
(* Debugger, Change Request dispositions and deferred verification.        *)
(***************************************************************************)
EXTENDS LlmRouter, PermissionService, Sequences, FiniteSets

CONSTANTS
    MaxRounds,      \* the rounds an attempt starts with
    Extra,          \* how many more its progress may earn it
    Tools,          \* the kinds of actions the model proposes
    Length          \* the most actions it proposes in a turn

\* The declared output may be the manifest itself.
Delivering == {"output", "manifest"}
Writing == {"write", "output", "doc", "manifest"}
AllTools == Writing \cup {"read", "fetch", "test"}

ASSUME ExecutorAssumption ==
    /\ MaxRounds \in Nat \ {0}
    /\ Extra \in Nat
    /\ Tools \subseteq AllTools
    /\ Length \in Nat

VARIABLES
    ex              \* the attempt

Outcomes == {"success", "failure", "permission_blocked", "infrastructure", "cancelled"}

NoAttempt ==
    [at |-> "idle", kind |-> "development", round |-> 0, limit |-> 0, missing |-> 0,
     todo |-> <<>>, acted |-> FALSE, says |-> "more", qa |-> "none",
     moved |-> FALSE, less |-> FALSE, again |-> "no",
     called |-> FALSE, tested |-> FALSE, passed |-> FALSE, unowned |-> FALSE,
     changed |-> FALSE, declared |-> FALSE, failed |-> {}, unresolved |-> {},
     adapted |-> "no", blocked |-> FALSE,
     idle |-> 0, looks |-> 0, stuck |-> 0, refused |-> 0, outcome |-> "none"]

ExecutorInit == ex = NoAttempt

\* What a turn may say of the Step, and what it may come with: more to do, done, or a defect
\* that is another Step's; no assessment of the quality, one without gaps, or one with some.
Sayings == {"more", "done", "defect"}
Assessments == {"none", "clean", "gaps"}

HardLimit == MaxRounds + Extra
AtMost(n, max) == IF n < max THEN n ELSE max

\* What the attempt leaves to its caller.
Finish(outcome) ==
    ex' = [NoAttempt EXCEPT !.at = "done", !.outcome = outcome, !.qa = ex.qa,
              !.changed = ex.changed, !.declared = ex.declared, !.passed = ex.passed,
              !.unresolved = ex.unresolved, !.unowned = ex.unowned]

\* Outputs declared and not there yet are missing from the start.
StartAttempt(kind) ==
    /\ ex.at = "idle"
    /\ \E missing \in 0..1 :
        ex' = [NoAttempt EXCEPT !.at = "think", !.kind = kind, !.round = 1,
                                !.limit = MaxRounds, !.missing = missing]

Think == ex.at = "think" /\ StartChat /\ ex' = [ex EXCEPT !.at = "listen"]

Turns == UNION {[1..n -> Tools] : n \in 0..Length}
Proposed(turn) == {turn[i] : i \in DOMAIN turn}

\* (mutant) a change to an output that was missing is not verified.
GateOfWhatIsThere(turn) ==
    LET asked == Proposed(turn)
        changing == asked \cap Writing # {} IN
    IF IF ex.kind = "development"
       THEN (changing \/ "fetch" \in asked) /\ ex.missing = 0 /\ ~ ex.tested
       ELSE ~ ex.called \/ changing
    THEN IF "test" \in asked THEN <<>> ELSE <<"test">>
    ELSE <<>>

\* What has to be verified without the model asking for it: after a change that leaves no
\* output missing, and at least once in a verification Step.
Gate(turn) ==
    LET asked == Proposed(turn)
        changing == asked \cap Writing # {} IN
    IF IF ex.kind = "development"
       THEN /\ changing \/ "fetch" \in asked
            /\ ex.missing = 0 \/ asked \cap Delivering # {}
            /\ ~ ex.tested
       ELSE ~ ex.called \/ changing
    THEN IF "test" \in asked THEN <<>> ELSE <<"test">>
    ELSE <<>>

\* Until the tests of a verification Step have run, only looking around comes before them,
\* and what the turn says of the Step does not count.
FirstGate == ex.kind = "test" /\ ~ ex.called
Inspections(turn) == {i \in DOMAIN turn : turn[i] = "read"}
Actions(turn) ==
    IF FirstGate THEN [i \in 1..Cardinality(Inspections(turn)) |-> "read"] \o <<"test">>
    ELSE turn \o Gate(turn)

\* A turn that closes the Step with its outputs there is not let through without an
\* assessment; a defect is heard of when the tests have run.
Admitted(turn, says, qa) ==
    /\ turn # <<>> => says = "more" /\ qa = "none"
    /\ says = "defect" => ex.kind = "test" /\ ex.called
    /\ turn = <<>> /\ says = "done" /\ ex.missing = 0 => qa # "none"

\* The rounds in a row that did nothing, and those that only looked around.
IdleRounds(actions, says) == IF actions = <<>> /\ says # "done" THEN ex.idle + 1 ELSE 0
LookRounds(actions) ==
    IF actions = <<>> THEN ex.looks
    ELSE IF Proposed(actions) \subseteq {"read", "fetch"} THEN ex.looks + 1 ELSE 0

\* An assessment counts until the next turn with actions.
Turn(turn, says, qa) ==
    LET actions == Actions(turn) IN
    /\ Admitted(turn, says, qa)
    /\ ex' = [ex EXCEPT
          !.at = "act", !.todo = actions, !.acted = actions # <<>>,
          !.says = IF FirstGate THEN "more" ELSE says,
          !.qa = IF actions # <<>> THEN "none" ELSE IF qa = "none" THEN @ ELSE qa,
          !.idle = IdleRounds(actions, says), !.looks = LookRounds(actions),
          !.refused = 0]

\* The next round: what was denied in an earlier one is this one's to adapt to.
Round(limit) ==
    [ex EXCEPT !.at = "think", !.round = @ + 1, !.limit = limit, !.acted = FALSE,
               !.says = "more", !.moved = FALSE, !.less = FALSE, !.again = "no",
               !.adapted = IF @ = "now" THEN "before" ELSE @]

OneMore == IF ex.round < ex.limit THEN ex.limit ELSE AtMost(ex.limit + 1, HardLimit)

\* What came back was refused for its content by every provider: once, the model is told.
Misunderstood ==
    IF ex.refused = 0 /\ ex.round < HardLimit
    THEN ex' = [Round(OneMore) EXCEPT !.refused = 1]
    ELSE Finish("failure")

\* The text of the answer is a turn, as it stands or repaired: the contract the call was
\* given has refused any other.
Understood == chat.out = "answer"

\* The end of the call: a turn, a refusal, or an error that goes to the caller.
Listen ==
    /\ ex.at = "listen"
    /\ Take
    /\ \/ /\ Understood
          /\ \E turn \in Turns, says \in Sayings, qa \in Assessments : Turn(turn, says, qa)
       \/ chat.out = "content" /\ Misunderstood
       \/ chat.out \in {"infrastructure", "cancelled"} /\ Finish(chat.out)

-----------------------------------------------------------------------------
Doing(tool) == ex.at = "act" /\ ex.todo # <<>> /\ Head(ex.todo) = tool
Past == [ex EXCEPT !.todo = Tail(@)]

Read == Doing("read") /\ ex' = Past

\* By what a failure is known until an action of the same kind succeeds.
Key(tool) == IF tool \in Writing THEN "write" ELSE tool

\* A change makes what was verified old, unless it is a document; what is missing is looked
\* up in the working copy.
Outdates(tool) == tool # "doc"
Missing(tool) == IF tool \in Delivering THEN 0 ELSE ex.missing
Write(tool) ==
    /\ Doing(tool)
    /\ ex' = [Past EXCEPT !.unresolved = @ \ {Key(tool)}, !.failed = {}, !.moved = TRUE,
              !.changed = TRUE, !.declared = @ \/ tool = "manifest",
              !.tested = @ /\ ~ Outdates(tool),
              !.missing = Missing(tool), !.less = @ \/ Missing(tool) < ex.missing]

\* The same write failing twice with nothing changed in between is once too often.
Repeated(tool) == {ex.again} \cup ({Key(tool)} \cap ex.failed)

\* A write is refused: over the lines a Step may edit, or for what it asks for.
WriteFails(tool) ==
    /\ Doing(tool)
    /\ \E again \in Repeated(tool) :
        ex' = [Past EXCEPT !.unresolved = @ \cup {Key(tool)}, !.failed = @ \cup {Key(tool)},
                           !.again = again]

\* Tests that are current are not run again, and tests that failed are not before
\* something changed.
NotRun ==
    /\ Doing("test")
    /\ \/ ex.tested /\ ex' = Past
       \/ /\ ~ ex.tested /\ "test" \in ex.failed
          /\ ex' = [Past EXCEPT !.again = IF @ = "no" THEN "test" ELSE @]
RunTests == Doing("test") /\ ~ ex.tested /\ "test" \notin ex.failed
TestsPass ==
    /\ RunTests
    /\ ex' = [Past EXCEPT !.unresolved = @ \ {"test"}, !.called = TRUE, !.tested = TRUE,
                          !.passed = TRUE]

\* A verification Step has failed with its tests.
TestsFail ==
    /\ RunTests
    /\ IF ex.kind = "test" THEN Finish("failure")
       ELSE ex' = [Past EXCEPT !.unresolved = @ \cup {"test"}, !.failed = @ \cup {"test"},
                              !.called = TRUE]

\* The manifest is another Step's to write: nobody holds that against this one.
TestsCannotRun ==
    /\ RunTests
    /\ ex' = [Past EXCEPT !.called = TRUE, !.unowned = TRUE]

Fetch ==
    /\ Doing("fetch") /\ Allows("network")
    /\ \/ ex' = [Past EXCEPT !.unresolved = @ \ {Key("fetch")}]
       \/ ex' = [Past EXCEPT !.unresolved = @ \cup {Key("fetch")}]

\* The attempt has one round to do without what is denied it.
Denied ==
    /\ Doing("fetch") /\ Decided("network") /\ ~ Allows("network")
    /\ ex' = [Past EXCEPT !.unresolved = @ \cup {"fetch"}, !.limit = OneMore,
                          !.adapted = IF @ = "no" THEN "now" ELSE @,
                          !.blocked = @ \/ ex.adapted = "before"]

\* What an action may not do before the client was asked: fetch, and install what a
\* manifest that was written declares.
Asks(c) ==
    /\ Doing("fetch") \/ Doing("manifest")
    /\ c = Capability(Head(ex.todo)) /\ ~ Decided(c)

\* What it does if it may.
Reaches(c) ==
    /\ Fetch \/ (Doing("manifest") /\ Decided("registry") /\ Write("manifest"))
    /\ c = Capability(Head(ex.todo)) /\ Allows(c)

-----------------------------------------------------------------------------
Judged == ex.at = "act" /\ ex.todo = <<>>

\* All that is unresolved is what was not allowed.
OnlyRefused == ex.unresolved = {"fetch"} /\ Decided("network") /\ ~ Allows("network")

\* What was not allowed does not stand in the way of what was delivered; nor does a
\* failure a verification Step reports as a gap.
Settled ==
    \/ ex.unresolved = {}
    \/ OnlyRefused
    \/ ex.kind = "test" /\ ex.says = "done" /\ ex.qa = "gaps"

Complete ==
    /\ ex.missing = 0 /\ ex.qa # "none" /\ Settled
    /\ ex.says # "defect"
    /\ ex.says = "done" \/ ex.passed

Accept == Judged /\ Complete /\ Finish("success")

\* The same write twice, or a defect of another Step that a verification Step reports.
HandedBack == ex.again = "write" \/ ex.says = "defect"
Stopped == ex.blocked \/ (ex.adapted = "before" /\ ~ ex.acted)
PermissionBlocked ==
    Judged /\ ~ Complete /\ ~ HandedBack /\ Stopped /\ Finish("permission_blocked")

\* Writes that bring no missing output, though nothing failed.
Stuck ==
    IF ex.less THEN 0
    ELSE IF ex.missing > 0 /\ ex.moved /\ ex.unresolved = {} THEN ex.stuck + 1 ELSE ex.stuck

\* The guards against going round in circles.
Hopeless == ex.again = "test" \/ Stuck >= 3 \/ ex.looks >= 3 \/ ex.idle >= 2

\* The limit moves on where there is progress, and after a change it has to.
Extended == AtMost(ex.limit + 2, HardLimit)
Limits ==
    IF ex.round < ex.limit THEN {ex.limit}
    ELSE IF ex.moved THEN {Extended}
    ELSE {ex.limit, Extended}

GiveUp ==
    /\ Judged /\ ~ Complete
    /\ \/ HandedBack
       \/ ~ Stopped /\ (Hopeless \/ \E limit \in Limits : limit <= ex.round)
    /\ Finish("failure")

GoOn ==
    /\ Judged /\ ~ Complete /\ ~ HandedBack /\ ~ Stopped /\ ~ Hopeless
    /\ \E limit \in Limits :
        /\ ex.round < limit
        /\ ex' = [Round(limit) EXCEPT !.stuck = Stuck]

\* What the attempt does with the chat out of the way.
Act ==
    \/ Read
    \/ \E tool \in Writing : (tool = "manifest" => Decided("registry")) /\ Write(tool)
    \/ \E tool \in Writing : WriteFails(tool)
    \/ NotRun \/ TestsPass \/ TestsFail \/ TestsCannotRun
    \/ Fetch \/ Denied
    \/ Accept \/ PermissionBlocked \/ GiveUp \/ GoOn
=============================================================================
