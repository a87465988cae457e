-------------------------- MODULE AgentRunProofs --------------------------
(***************************************************************************)
(* What a client was promised of its prompt: that its Step is delivered    *)
(* tested, that no tool reaches outside the project without its consent,   *)
(* and that what it cancelled stays so; for any prompts, sessions, rounds, *)
(* providers and tools.                                                    *)
(***************************************************************************)
EXTENDS AgentRun, FiniteSetTheorems, TLAPS

-----------------------------------------------------------------------------
(* The attempt.                                                             *)

Fields ==
    {"at", "kind", "round", "limit", "missing", "todo", "acted", "says", "qa", "moved", "less",
     "again", "called", "tested", "passed", "unowned", "changed", "declared", "failed", "unresolved",
     "adapted", "blocked", "idle", "looks", "stuck", "refused", "outcome"}

\* The tests have passed once, could not be run, or have failed and not passed since.
Verified == ex.passed \/ ex.unowned \/ ("test" \in ex.unresolved)

\* They are about to be run.
Ahead(tools) == \E i \in 1..Len(ex.todo) : ex.todo[i] \in tools
Due == Ahead({"test"})

\* Whatever changes the Step while all its outputs are there, or brings the last of them,
\* has the tests in the same turn.
TestsFollow ==
    /\ Ahead(Delivering) => Verified \/ Due
    /\ ex.missing = 0 /\ (ex.changed \/ Ahead(Writing)) => Verified \/ Due

AttemptInv ==
    /\ ex = [f \in Fields |-> ex[f]]
    /\ ex.todo \in Seq(AllTools)
    /\ ex.todo # <<>> => ex.at = "act"
    /\ ex.at # "done" => ex.outcome = "none" /\ TestsFollow
    /\ ex.tested => ex.passed
    /\ ex.called => Verified
    /\ "test" \in ex.failed => "test" \in ex.unresolved
    /\ ex.kind = "test" => "test" \notin ex.unresolved
    /\ DeliveredTested

-----------------------------------------------------------------------------
(* The task.                                                                *)

Statuses ==
    {"none", "running", "waiting_for_confirmation", "waiting_for_permission",
     "completed", "failed", "cancel_requested", "cancelled"}
Tasks == [status : Statuses, of : Sessions \cup {"none"}, waits : Topics \cup {"none"},
          reply : Replies \cup {"none"}]

\* Where a task is while it holds the project, and where it is without.
Building == Questions \cup {"questions", "decompose", "phases", "steps", "save"}
Holding == Building \cup {"run"}
Places == Holding \cup {"new", "begin", "built", "load", "done"}
Tasking == [at : Places, asks : BOOLEAN, auto : BOOLEAN, agreed : BOOLEAN, tries : Nat]
RunsOf == [of : Prompts \cup {"none"}, attempt : Nat, granted : SUBSET Capabilities,
           refused : SUBSET Capabilities, used : SUBSET Capabilities, synced : BOOLEAN]

AgentTypes ==
    /\ cache \in [Capabilities -> Decisions \cup {"none"}]
    /\ task \in [Prompts -> Tasks]
    /\ job \in [Prompts -> Tasking]
    /\ run \in RunsOf

\* Who is at a place that needs the project holds it, and the run is of who is running.
Held ==
    /\ \A p \in Prompts : job[p].at \in Holding => lock = p
    /\ \A p \in Prompts : Running(p) => run.of = p
    /\ run = NoRun \/ \E p \in Prompts : Running(p)

Answers == {"yes", "no", "late"}
\* The capability an answer that has come is about, while it was not heard.
Told(p, c) == task[p].reply \in Answers /\ Asks(c)

\* A task waits where it asked, for what it asked, and has the answer there.
Asked ==
    \A p \in Prompts :
        /\ task[p].status = "none" => At(p, "new")
        /\ task[p].waits # "none" => task[p].reply = "none" /\ ~ IsCancelled(p)
        /\ task[p].waits \in Questions => At(p, task[p].waits)
        /\ task[p].waits \in Capabilities => Running(p) /\ Asks(task[p].waits)
        /\ task[p].reply # "none" => InDialogue(p) \/ (Running(p) /\ \E c \in Capabilities : Asks(c))
        /\ InDialogue(p) => task[p].reply \in {"none", "rejected"} \cup DOMAIN After[job[p].at]
        /\ Running(p) => task[p].reply \in {"none", "rejected"} \cup Answers

\* What is approved was granted in this run and never refused in it; what is undecided was
\* neither, unless the answer waits to be heard.
Granted ==
    \A p \in Prompts, c \in Capabilities :
        Running(p) =>
            /\ cache[c] = "approved" => c \in run.granted \ run.refused
            /\ c \in run.used => cache[c] = "approved"
            /\ cache[c] = "none" /\ ~ Told(p, c) => c \notin run.granted \cup run.refused
            /\ task[p].reply = "yes" /\ Asks(c) => c \in run.granted \ run.refused

\* Nobody's plan is saved before he agreed to it, if he wanted to be asked.
Agreed ==
    \A p \in Prompts :
        /\ plan = p => job[p].at \in {"built", "load", "run", "done"}
        /\ (plan = p \/ At(p, "save")) /\ job[p].asks => job[p].agreed
        /\ At(p, "plan") /\ task[p].reply = "yes" => job[p].agreed

ConsentInv == AgentTypes /\ Held /\ Asked /\ Granted /\ Agreed

LEMMA NoAttemptInv == ex = NoAttempt => AttemptInv
<1> SUFFICES ASSUME ex = NoAttempt PROVE AttemptInv
  OBVIOUS
<1>1. ex = [f \in Fields |-> ex[f]]
  BY DEF NoAttempt, Fields
<1>2. /\ ex.todo = <<>> /\ ex.at = "idle" /\ ex.outcome = "none" /\ ex.missing = 0
      /\ ~ ex.changed /\ ~ ex.tested /\ ~ ex.called /\ ex.failed = {} /\ ex.kind = "development"
  BY DEF NoAttempt
<1>3. Len(ex.todo) = 0 /\ ex.todo \in Seq(AllTools) /\ \A i \in 1..Len(ex.todo) : FALSE
  BY <1>2
<1>4. TestsFollow
  BY <1>2, <1>3 DEF TestsFollow, Ahead
<1>5. DeliveredTested
  BY <1>2 DEF DeliveredTested
<1> QED
  BY <1>1, <1>2, <1>3, <1>4, <1>5 DEF AttemptInv

LEMMA Popped ==
    ASSUME NEW s \in Seq(AllTools), s # <<>>, NEW T
    PROVE  /\ Tail(s) \in Seq(AllTools) /\ Head(s) \in AllTools
           /\ (\E i \in 1..Len(s) : s[i] \in T)
                <=> (Head(s) \in T \/ \E i \in 1..Len(Tail(s)) : Tail(s)[i] \in T)
<1>1. Len(s) \in Nat \ {0} /\ Len(Tail(s)) = Len(s) - 1 /\ Head(s) = s[1]
  OBVIOUS
<1>2. \A i \in 1..Len(Tail(s)) : Tail(s)[i] = s[i + 1]
  OBVIOUS
<1>3. \A i \in 1..Len(s) : i = 1 \/ (i - 1 \in 1..Len(Tail(s)) /\ (i - 1) + 1 = i)
  BY <1>1
<1>4. \A i \in 1..Len(Tail(s)) : i + 1 \in 1..Len(s)
  BY <1>1
<1>5. Tail(s) \in Seq(AllTools) /\ Head(s) \in AllTools
  OBVIOUS
<1>6. ASSUME NEW i \in 1..Len(s), s[i] \in T
      PROVE  Head(s) \in T \/ \E j \in 1..Len(Tail(s)) : Tail(s)[j] \in T
  BY <1>1, <1>2, <1>3, <1>6
<1>7. ASSUME Head(s) \in T PROVE \E i \in 1..Len(s) : s[i] \in T
  <2>1. 1 \in 1..Len(s)
    BY <1>1
  <2> QED
    BY <1>1, <1>7, <2>1
<1>8. ASSUME NEW j \in 1..Len(Tail(s)), Tail(s)[j] \in T PROVE \E i \in 1..Len(s) : s[i] \in T
  BY <1>2, <1>4, <1>8
<1> QED
  BY <1>5, <1>6, <1>7, <1>8

LEMMA TurnsAre ==
    ASSUME NEW turn \in Turns
    PROVE  /\ turn \in Seq(AllTools) /\ DOMAIN turn = 1..Len(turn)
           /\ IsFiniteSet(Inspections(turn))
<1>1. PICK n \in 0..Length : turn \in [1..n -> Tools]
  BY DEF Turns
<1>2. n \in Nat /\ Tools \subseteq AllTools
  BY ExecutorAssumption
<1>3. turn \in Seq(AllTools) /\ DOMAIN turn = 1..n
  BY <1>1, <1>2
<1>4. IsFiniteSet(1..n) /\ Inspections(turn) \subseteq 1..n
  BY <1>2, <1>3, FS_Interval DEF Inspections
<1> QED
  BY <1>3, <1>4, FS_Subset

\* The actions of a turn that has to be verified have the tests among them.
LEMMA ActionsAre ==
    ASSUME NEW turn \in Turns, NEW a, a = Actions(turn)
    PROVE  /\ a \in Seq(AllTools)
           /\ FirstGate => \E i \in 1..Len(a) : a[i] = "test"
           /\ ~ FirstGate /\ (\E i \in 1..Len(a) : a[i] \in Writing)
                /\ (ex.missing = 0 \/ \E i \in 1..Len(a) : a[i] \in Delivering)
                => ex.kind = "test" \/ ex.tested \/ \E i \in 1..Len(a) : a[i] = "test"
<1>0. turn \in Seq(AllTools) /\ DOMAIN turn = 1..Len(turn) /\ IsFiniteSet(Inspections(turn))
  BY TurnsAre
<1>t. <<"test">> \in Seq(AllTools) /\ Len(<<"test">>) = 1 /\ <<"test">>[1] = "test"
      /\ "test" \notin Writing /\ "test" \notin Delivering /\ Delivering \subseteq Writing
  BY DEF AllTools, Writing, Delivering
<1>1. CASE FirstGate
  <2> DEFINE n == Cardinality(Inspections(turn))
             looks == [i \in 1..n |-> "read"]
  <2>1. n \in Nat
    BY <1>0, FS_CardinalityType
  <2>2. looks \in Seq(AllTools) /\ Len(looks) = n
    BY <2>1 DEF AllTools
  <2>3. a = looks \o <<"test">>
    BY <1>1 DEF Actions
  <2> HIDE DEF looks, n
  <2>4. a \in Seq(AllTools) /\ Len(a) = n + 1 /\ a[n + 1] = "test"
    BY <1>t, <2>1, <2>2, <2>3
  <2>5. n + 1 \in 1..Len(a)
    BY <2>1, <2>4
  <2> QED
    BY <1>1, <2>4, <2>5
<1>2. CASE ~ FirstGate
  <2>1. a = turn \o Gate(turn)
    BY <1>2 DEF Actions
  <2>2. Gate(turn) = <<>> \/ Gate(turn) = <<"test">>
    BY DEF Gate
  <2>3. CASE Gate(turn) = <<"test">>
    <3>1. a \in Seq(AllTools) /\ Len(a) = Len(turn) + 1 /\ a[Len(turn) + 1] = "test"
      BY <1>0, <1>t, <2>1, <2>3
    <3>2. Len(turn) + 1 \in 1..Len(a)
      BY <1>0, <3>1
    <3> QED
      BY <1>2, <3>1, <3>2
  <2>4. CASE Gate(turn) = <<>>
    <3>1. a = turn
      BY <1>0, <2>1, <2>4
    <3>2. <<"test">> # <<>>
      BY <1>t
    <3>3. ASSUME \E i \in 1..Len(turn) : turn[i] \in Writing,
                 ex.missing = 0 \/ \E i \in 1..Len(turn) : turn[i] \in Delivering,
                 ex.kind # "test", ~ ex.tested
          PROVE  \E i \in 1..Len(turn) : turn[i] = "test"
      <4>1. /\ Proposed(turn) \cap Writing # {}
            /\ ex.missing = 0 \/ Proposed(turn) \cap Delivering # {}
        BY <1>0, <3>3 DEF Proposed
      <4>2. ASSUME ex.kind = "development" PROVE "test" \in Proposed(turn)
        BY <2>4, <3>2, <3>3, <4>1, <4>2 DEF Gate
      <4>3. ASSUME ex.kind # "development" PROVE "test" \in Proposed(turn)
        BY <2>4, <3>2, <3>3, <4>1, <4>3 DEF Gate
      <4> QED
        BY <1>0, <4>2, <4>3 DEF Proposed
    <3> QED
      BY <1>0, <1>2, <3>1, <3>3
  <2> QED
    BY <2>2, <2>3, <2>4
<1> QED
  BY <1>1, <1>2

\* What Past alone does, and what an action adds to it.
LEMMA PastIs ==
    ASSUME AttemptInv, ex.at = "act", ex.todo # <<>>, NEW r, r = Past
    PROVE  /\ r = [f \in Fields |-> r[f]]
           /\ r.at = "act" /\ r.todo = Tail(ex.todo) /\ r.outcome = ex.outcome
           /\ r.kind = ex.kind /\ r.missing = ex.missing /\ r.changed = ex.changed
           /\ r.tested = ex.tested /\ r.passed = ex.passed /\ r.called = ex.called
           /\ r.unowned = ex.unowned /\ r.failed = ex.failed /\ r.unresolved = ex.unresolved
           /\ r.limit = ex.limit /\ r.adapted = ex.adapted /\ r.blocked = ex.blocked
           /\ r.again = ex.again /\ r.less = ex.less
BY DEF AttemptInv, Past, Fields

\* What an action leaves behind it: the actions that are left, and every obligation of the
\* tests that it has not met.
LEMMA Behind ==
    ASSUME AttemptInv, ex.at = "act", ex.todo # <<>>, ex'.todo = Tail(ex.todo)
    PROVE  /\ ex'.todo \in Seq(AllTools)
           /\ \A T : Ahead(T)' => Ahead(T)
           /\ \A T : Head(ex.todo) \in T => Ahead(T)
           /\ Due => Due' \/ Head(ex.todo) = "test"
<1>1. ex.todo \in Seq(AllTools)
  BY DEF AttemptInv
<1>2. \A T : (\E i \in 1..Len(ex.todo) : ex.todo[i] \in T)
               <=> (Head(ex.todo) \in T \/ \E i \in 1..Len(Tail(ex.todo)) : Tail(ex.todo)[i] \in T)
  BY <1>1, Popped
<1> QED
  BY <1>1, <1>2, Popped DEF Ahead, Due

\* An action that changes nothing the tests are about.
Calm ==
    /\ ex.at = "act" /\ ex.todo # <<>>
    /\ ex' = [f \in Fields |-> ex'[f]]
    /\ ex'.at = "act" /\ ex'.todo = Tail(ex.todo) /\ ex'.outcome = ex.outcome
    /\ ex'.kind = ex.kind /\ ex'.missing = ex.missing /\ ex'.changed = ex.changed
    /\ ex'.tested = ex.tested /\ ex'.passed = ex.passed /\ ex'.called = ex.called
    /\ ex'.unowned = ex.unowned
    /\ "test" \in ex'.failed <=> "test" \in ex.failed
    /\ "test" \in ex'.unresolved <=> "test" \in ex.unresolved

LEMMA CalmKeeps ==
    ASSUME AttemptInv, Calm, Head(ex.todo) = "test" => Verified
    PROVE  AttemptInv'
<1>1. /\ ex'.todo \in Seq(AllTools)
      /\ \A T : Ahead(T)' => Ahead(T)
      /\ Due => Due' \/ Head(ex.todo) = "test"
  BY Behind DEF Calm
<1>2. Verified' = Verified
  BY DEF Calm, Verified
<1>3. TestsFollow /\ ex.outcome = "none"
  BY DEF AttemptInv, Calm
<1>4. TestsFollow'
  BY <1>1, <1>2, <1>3 DEF TestsFollow, Calm
<1> QED
  BY <1>1, <1>2, <1>3, <1>4 DEF AttemptInv, Calm, DeliveredTested

LEMMA WriteKeeps ==
    ASSUME AttemptInv, NEW tool \in Writing, Write(tool)
    PROVE  AttemptInv'
<1>1. /\ ex.at = "act" /\ ex.todo # <<>> /\ Head(ex.todo) = tool /\ tool # "test"
      /\ ex = [f \in Fields |-> ex[f]]
  BY DEF Write, Doing, AttemptInv, Writing
<1>2. /\ ex' = [f \in Fields |-> ex'[f]]
      /\ ex'.at = "act" /\ ex'.todo = Tail(ex.todo) /\ ex'.outcome = ex.outcome
      /\ ex'.kind = ex.kind /\ ex'.passed = ex.passed /\ ex'.called = ex.called
      /\ ex'.unowned = ex.unowned /\ ex'.failed = {}
      /\ ex'.unresolved = ex.unresolved \ {"write"}
      /\ ex'.tested => ex.tested
      /\ tool \in Delivering \/ ex'.missing = ex.missing
  <2> DEFINE missing == Missing(tool)
             tested == ex.tested /\ ~ Outdates(tool)
             less == ex.less \/ Missing(tool) < ex.missing
             declared == ex.declared \/ tool = "manifest"
  <2>1. ex' = [ex EXCEPT !.todo = Tail(ex.todo), !.unresolved = ex.unresolved \ {"write"}, !.failed = {},
                         !.moved = TRUE, !.changed = TRUE, !.declared = declared,
                         !.tested = tested, !.missing = missing, !.less = less]
    BY DEF Write, Past, Key
  <2>2. (tested => ex.tested) /\ (tool \in Delivering \/ missing = ex.missing)
    BY DEF Missing
  <2> HIDE DEF missing, tested, less, declared
  <2>3. ex' = [f \in Fields |-> ex'[f]]
    BY <1>1, <2>1
  <2>4. /\ ex'.at = "act" /\ ex'.todo = Tail(ex.todo) /\ ex'.outcome = ex.outcome
        /\ ex'.kind = ex.kind /\ ex'.passed = ex.passed /\ ex'.called = ex.called
        /\ ex'.unowned = ex.unowned
    BY <1>1, <2>1 DEF Fields
  <2>5. /\ ex'.failed = {} /\ ex'.unresolved = ex.unresolved \ {"write"}
        /\ ex'.tested = tested /\ ex'.missing = missing
    BY <1>1, <2>1 DEF Fields
  <2> QED
    BY <2>2, <2>3, <2>4, <2>5
<1>3. /\ ex'.todo \in Seq(AllTools)
      /\ \A T : Ahead(T)' => Ahead(T)
      /\ \A T : Head(ex.todo) \in T => Ahead(T)
      /\ Due => Due'
  BY <1>1, <1>2, Behind
<1>4. Verified' = Verified
  BY <1>2 DEF Verified
<1>5. TestsFollow /\ ex.outcome = "none"
  BY <1>1 DEF AttemptInv
<1>6. TestsFollow'
  BY <1>1, <1>2, <1>3, <1>4, <1>5 DEF TestsFollow
<1> QED
  BY <1>2, <1>3, <1>4, <1>5, <1>6 DEF AttemptInv, DeliveredTested

\* An attempt that ends without success was not delivered.
LEMMA FinishKeeps ==
    ASSUME AttemptInv, NEW outcome \in Outcomes, Finish(outcome),
           outcome = "success" =>
               "test" \notin ex.unresolved /\ (ex.changed => ex.passed \/ ex.unowned)
    PROVE  AttemptInv'
<1>1. /\ ex' = [f \in Fields |-> ex'[f]]
      /\ ex'.at = "done" /\ ex'.todo = <<>> /\ ex'.outcome = outcome
      /\ ex'.kind = "development" /\ ex'.passed = ex.passed /\ ex'.called = FALSE
      /\ ex'.unowned = ex.unowned /\ ex'.failed = {} /\ ex'.changed = ex.changed
      /\ ex'.unresolved = ex.unresolved /\ ex'.tested = FALSE
  <2>1. PICK r : r = NoAttempt
    OBVIOUS
  <2>2. /\ r = [f \in Fields |-> r[f]] /\ r.todo = <<>> /\ r.kind = "development"
        /\ r.called = FALSE /\ r.failed = {} /\ r.tested = FALSE
    BY <2>1 DEF NoAttempt, Fields
  <2>3. ex' = [r EXCEPT !.at = "done", !.outcome = outcome, !.qa = ex.qa, !.changed = ex.changed,
                        !.declared = ex.declared, !.passed = ex.passed,
                        !.unresolved = ex.unresolved, !.unowned = ex.unowned]
    BY <2>1 DEF Finish
  <2>4. ex' = [f \in Fields |-> ex'[f]]
    BY <2>2, <2>3
  <2>5. /\ ex'.at = "done" /\ ex'.outcome = outcome /\ ex'.passed = ex.passed
        /\ ex'.changed = ex.changed /\ ex'.unresolved = ex.unresolved /\ ex'.unowned = ex.unowned
    BY <2>2, <2>3 DEF Fields
  <2>6. ex'.todo = <<>> /\ ex'.kind = "development" /\ ex'.called = FALSE /\ ex'.failed = {} /\ ex'.tested = FALSE
    BY <2>2, <2>3 DEF Fields
  <2> QED
    BY <2>4, <2>5, <2>6
<1>2. ex'.todo \in Seq(AllTools)
  BY <1>1
<1> QED
  BY <1>1, <1>2 DEF AttemptInv, DeliveredTested

LEMMA StartKeeps ==
    ASSUME NEW kind \in {"development", "test"}, StartAttempt(kind)
    PROVE  AttemptInv'
<1>1. /\ ex' = [f \in Fields |-> ex'[f]]
      /\ ex'.at = "think" /\ ex'.todo = <<>> /\ ex'.outcome = "none"
      /\ ex'.passed = FALSE /\ ex'.called = FALSE
      /\ ex'.unowned = FALSE /\ ex'.failed = {} /\ ex'.changed = FALSE
      /\ ex'.unresolved = {} /\ ex'.tested = FALSE
  <2>1. PICK r : r = NoAttempt
    OBVIOUS
  <2>2. /\ r = [f \in Fields |-> r[f]] /\ r.todo = <<>> /\ r.outcome = "none"
        /\ r.passed = FALSE /\ r.called = FALSE /\ r.unowned = FALSE /\ r.failed = {}
        /\ r.changed = FALSE /\ r.unresolved = {} /\ r.tested = FALSE
    BY <2>1 DEF NoAttempt, Fields
  <2>3. PICK missing \in 0..1 :
            ex' = [r EXCEPT !.at = "think", !.kind = kind, !.round = 1, !.limit = MaxRounds, !.missing = missing]
    BY <2>1 DEF StartAttempt
  <2> QED
    BY <2>2, <2>3 DEF Fields
<1>2. ex'.todo \in Seq(AllTools) /\ ~ (\E i \in 1..Len(ex'.todo) : TRUE)
  BY <1>1
<1>3. TestsFollow'
  BY <1>1, <1>2 DEF TestsFollow, Ahead
<1> QED
  BY <1>1, <1>2, <1>3 DEF AttemptInv, DeliveredTested

\* A step between turns: the turn is over, and what was verified stays so.
BetweenTurns ==
    /\ ex.at # "done" /\ ex.todo = <<>>
    /\ ex' = [f \in Fields |-> ex'[f]]
    /\ ex'.at # "done" /\ ex'.todo = <<>> /\ ex'.outcome = ex.outcome
    /\ ex'.kind = ex.kind /\ ex'.missing = ex.missing /\ ex'.changed = ex.changed
    /\ ex'.tested = ex.tested /\ ex'.passed = ex.passed /\ ex'.called = ex.called
    /\ ex'.unowned = ex.unowned /\ ex'.failed = ex.failed /\ ex'.unresolved = ex.unresolved

LEMMA BetweenKeeps ==
    ASSUME AttemptInv, BetweenTurns
    PROVE  AttemptInv'
<1>1. Verified' = Verified
  BY DEF BetweenTurns, Verified
<1>2. TestsFollow /\ ex.outcome = "none"
  BY DEF AttemptInv, BetweenTurns
<1>3. TestsFollow'
  BY <1>1, <1>2 DEF TestsFollow, BetweenTurns, Ahead, Due
<1> QED
  BY <1>1, <1>2, <1>3 DEF AttemptInv, BetweenTurns, DeliveredTested

LEMMA TurnKeeps ==
    ASSUME AttemptInv, ex.at = "listen", NEW turn \in Turns, NEW says, NEW qa, Turn(turn, says, qa)
    PROVE  AttemptInv'
<1> DEFINE a == Actions(turn)
<1>1. ex = [f \in Fields |-> ex[f]] /\ ex.todo = <<>> /\ ex.outcome = "none" /\ TestsFollow
  BY DEF AttemptInv
<1>2. /\ ex' = [f \in Fields |-> ex'[f]]
      /\ ex'.at = "act" /\ ex'.todo = a /\ ex'.outcome = ex.outcome
      /\ ex'.kind = ex.kind /\ ex'.missing = ex.missing /\ ex'.changed = ex.changed
      /\ ex'.tested = ex.tested /\ ex'.passed = ex.passed /\ ex'.called = ex.called
      /\ ex'.unowned = ex.unowned /\ ex'.failed = ex.failed /\ ex'.unresolved = ex.unresolved
  <2> DEFINE acted == a # <<>>
             said == IF FirstGate THEN "more" ELSE says
             assessed == IF a # <<>> THEN "none" ELSE IF qa = "none" THEN ex.qa ELSE qa
             idle == IdleRounds(a, says)
             looks == LookRounds(a)
  <2>2. ex' = [ex EXCEPT !.at = "act", !.todo = a, !.acted = acted, !.says = said,
                         !.qa = assessed, !.idle = idle, !.looks = looks, !.refused = 0]
    BY DEF Turn
  <2> HIDE DEF a, acted, said, assessed, idle, looks
  <2>3. ex' = [f \in Fields |-> ex'[f]] /\ ex'.at = "act" /\ ex'.todo = a
    <3>1. ex' = [f \in Fields |-> ex'[f]]
      BY <1>1, <2>2
    <3>2. ex'.at = "act" /\ ex'.todo = a
      BY <1>1, <2>2 DEF Fields
    <3> QED
      BY <3>1, <3>2
  <2>4. /\ ex'.outcome = ex.outcome /\ ex'.kind = ex.kind /\ ex'.missing = ex.missing
        /\ ex'.changed = ex.changed /\ ex'.tested = ex.tested /\ ex'.passed = ex.passed
        /\ ex'.called = ex.called
    BY <1>1, <2>2 DEF Fields
  <2>5. /\ ex'.unowned = ex.unowned /\ ex'.failed = ex.failed
        /\ ex'.unresolved = ex.unresolved
    BY <1>1, <2>2 DEF Fields
  <2> QED
    BY <2>3, <2>4, <2>5
<1>3. /\ a \in Seq(AllTools)
      /\ FirstGate => \E i \in 1..Len(a) : a[i] = "test"
      /\ ~ FirstGate /\ (\E i \in 1..Len(a) : a[i] \in Writing)
           /\ (ex.missing = 0 \/ \E i \in 1..Len(a) : a[i] \in Delivering)
           => ex.kind = "test" \/ ex.tested \/ \E i \in 1..Len(a) : a[i] = "test"
  BY ActionsAre
<1> HIDE DEF a
<1>4. Verified' = Verified
  BY <1>2 DEF Verified
<1>5. Due' <=> \E i \in 1..Len(a) : a[i] = "test"
  BY <1>2 DEF Due, Ahead
<1>6. /\ Ahead(Writing)' <=> \E i \in 1..Len(a) : a[i] \in Writing
      /\ Ahead(Delivering)' <=> \E i \in 1..Len(a) : a[i] \in Delivering
  BY <1>2 DEF Ahead
<1>7. FirstGate \/ ex.kind # "test" \/ Verified
  BY DEF FirstGate, AttemptInv
<1>8. ex.tested => Verified
  BY DEF AttemptInv, Verified
<1>9. ex.changed /\ ex.missing = 0 => Verified
  BY <1>1 DEF TestsFollow, Due, Ahead
<1>10. TestsFollow'
  <2>1. Delivering \subseteq Writing
    BY DEF Delivering, Writing
  <2>2. Ahead(Delivering)' => Ahead(Writing)'
    BY <1>6, <2>1
  <2>3. Ahead(Delivering)' => Verified' \/ Due'
    BY <1>3, <1>4, <1>5, <1>6, <1>7, <1>8, <2>2
  <2>4. ex'.missing = 0 /\ Ahead(Writing)' => Verified' \/ Due'
    BY <1>2, <1>3, <1>4, <1>5, <1>6, <1>7, <1>8
  <2> QED
    BY <1>2, <1>4, <1>9, <2>3, <2>4 DEF TestsFollow
<1> QED
  BY <1>1, <1>2, <1>3, <1>4, <1>10 DEF AttemptInv, DeliveredTested

LEMMA ThinkKeeps ==
    ASSUME AttemptInv, Think
    PROVE  AttemptInv'
<1>1. BetweenTurns
  BY DEF AttemptInv, Think, BetweenTurns, Fields
<1> QED
  BY <1>1, BetweenKeeps

LEMMA RoundIs ==
    ASSUME AttemptInv, NEW limit, NEW r, r = Round(limit)
    PROVE  /\ r = [f \in Fields |-> r[f]]
           /\ r.at = "think" /\ r.todo = ex.todo /\ r.outcome = ex.outcome
           /\ r.kind = ex.kind /\ r.missing = ex.missing /\ r.changed = ex.changed
           /\ r.tested = ex.tested /\ r.passed = ex.passed /\ r.called = ex.called
           /\ r.unowned = ex.unowned /\ r.failed = ex.failed /\ r.unresolved = ex.unresolved
<1> DEFINE adapted == IF ex.adapted = "now" THEN "before" ELSE ex.adapted
           round == ex.round + 1
<1>1. ex = [f \in Fields |-> ex[f]]
  BY DEF AttemptInv
<1>2. r = [ex EXCEPT !.at = "think", !.round = round, !.limit = limit, !.acted = FALSE, !.says = "more",
                     !.moved = FALSE, !.less = FALSE, !.again = "no", !.adapted = adapted]
  BY DEF Round
<1> HIDE DEF adapted, round
<1>3. r = [f \in Fields |-> r[f]]
  BY <1>1, <1>2
<1>4. /\ r.at = "think" /\ r.todo = ex.todo /\ r.outcome = ex.outcome
      /\ r.kind = ex.kind /\ r.missing = ex.missing /\ r.changed = ex.changed
  BY <1>1, <1>2 DEF Fields
<1>5. /\ r.tested = ex.tested /\ r.passed = ex.passed /\ r.called = ex.called
      /\ r.unowned = ex.unowned /\ r.failed = ex.failed /\ r.unresolved = ex.unresolved
  BY <1>1, <1>2 DEF Fields
<1> QED
  BY <1>3, <1>4, <1>5

LEMMA ListenKeeps ==
    ASSUME AttemptInv, Listen
    PROVE  AttemptInv'
<1>1. ex.at = "listen" /\ ex.todo = <<>>
  BY DEF Listen, AttemptInv
<1>2. ASSUME NEW turn \in Turns, NEW says, NEW qa, Turn(turn, says, qa)
      PROVE  AttemptInv'
  BY <1>1, <1>2, TurnKeeps
<1>3. ASSUME NEW outcome \in {"failure", "infrastructure", "cancelled"}, Finish(outcome)
      PROVE  AttemptInv'
  BY <1>3, FinishKeeps DEF Outcomes
<1>4. ASSUME Misunderstood PROVE AttemptInv'
  <2>1. CASE Finish("failure")
    BY <1>3, <2>1
  <2>2. CASE ex' = [Round(OneMore) EXCEPT !.refused = 1]
    <3>1. BetweenTurns
      BY <1>1, <2>2, RoundIs DEF BetweenTurns, Fields
    <3> QED
      BY <3>1, BetweenKeeps
  <2> QED
    BY <1>4, <2>1, <2>2 DEF Misunderstood
<1> QED
  BY <1>2, <1>3, <1>4 DEF Listen

LEMMA TestsKeep ==
    ASSUME AttemptInv, TestsPass \/ TestsFail \/ TestsCannotRun
    PROVE  AttemptInv'
<1>1. ex.at = "act" /\ ex.todo # <<>> /\ Head(ex.todo) = "test" /\ ex.outcome = "none"
  BY DEF AttemptInv, TestsPass, TestsFail, TestsCannotRun, RunTests, Doing
<1>2. CASE ex.kind = "test" /\ Finish("failure")
  BY <1>2, FinishKeeps DEF Outcomes
<1>3. CASE ~ (ex.kind = "test" /\ Finish("failure"))
  <2>1. /\ ex' = [f \in Fields |-> ex'[f]]
        /\ ex'.at = "act" /\ ex'.todo = Tail(ex.todo) /\ ex'.outcome = ex.outcome
        /\ ex'.kind = ex.kind /\ ex'.missing = ex.missing /\ ex'.changed = ex.changed
        /\ ex'.tested => ex'.passed
        /\ "test" \in ex'.failed => "test" \in ex'.unresolved
        /\ ex'.kind = "test" => "test" \notin ex'.unresolved
        /\ Verified'
    <3>0. "test" \notin ex.failed
      BY DEF TestsPass, TestsFail, TestsCannotRun, RunTests
    <3>r. PICK r : r = Past
      OBVIOUS
    <3>p. /\ r = [f \in Fields |-> r[f]]
          /\ r.at = "act" /\ r.todo = Tail(ex.todo) /\ r.outcome = ex.outcome
          /\ r.kind = ex.kind /\ r.missing = ex.missing /\ r.changed = ex.changed
          /\ r.tested = ex.tested /\ r.passed = ex.passed
          /\ r.failed = ex.failed /\ r.unresolved = ex.unresolved
      BY <1>1, <3>r, PastIs
    <3>1. CASE ex' = [r EXCEPT !.unresolved = @ \ {"test"}, !.called = TRUE, !.tested = TRUE,
                               !.passed = TRUE]
      <4>1. ex' = [f \in Fields |-> ex'[f]]
        BY <3>p, <3>1
      <4>2. /\ ex'.at = r.at /\ ex'.todo = r.todo /\ ex'.outcome = r.outcome
            /\ ex'.kind = r.kind /\ ex'.missing = r.missing /\ ex'.changed = r.changed
            /\ ex'.passed = TRUE /\ ex'.failed = r.failed
            /\ ex'.unresolved = r.unresolved \ {"test"}
        BY <3>p, <3>1 DEF Fields
      <4>3. "test" \notin ex'.failed
        BY <3>0, <3>p, <4>2
      <4> QED
        BY <3>p, <4>1, <4>2, <4>3 DEF Verified
    <3>2. CASE /\ ex.kind # "test"
               /\ ex' = [r EXCEPT !.unresolved = @ \cup {"test"}, !.failed = @ \cup {"test"},
                                  !.called = TRUE]
      BY <3>p, <3>2 DEF AttemptInv, Fields, Verified
    <3>3. CASE ex' = [r EXCEPT !.called = TRUE, !.unowned = TRUE]
      BY <3>p, <3>3 DEF AttemptInv, Fields, Verified
    <3> QED
      BY <1>3, <3>r, <3>1, <3>2, <3>3 DEF TestsPass, TestsFail, TestsCannotRun
  <2>2. ex'.todo \in Seq(AllTools)
    BY <1>1, <2>1, Behind
  <2>3. TestsFollow'
    BY <2>1 DEF TestsFollow
  <2> QED
    BY <1>1, <2>1, <2>2, <2>3 DEF AttemptInv, DeliveredTested
<1> QED
  BY <1>2, <1>3

LEMMA ActKeeps ==
    ASSUME AttemptInv, Act
    PROVE  AttemptInv'
<1> USE DEF Doing
<1>1. CASE Read
  <2>1. Calm /\ Head(ex.todo) # "test"
    BY <1>1, PastIs DEF Read, Calm
  <2> QED
    BY <2>1, CalmKeeps
<1>2. ASSUME NEW tool \in Writing, Write(tool) PROVE AttemptInv'
  BY <1>2, WriteKeeps
<1>3. ASSUME NEW tool \in Writing, WriteFails(tool) PROVE AttemptInv'
  <2>1. PICK again \in Repeated(tool) :
           ex' = [Past EXCEPT !.unresolved = @ \cup {"write"}, !.failed = @ \cup {"write"},
                              !.again = again]
    BY <1>3 DEF WriteFails, Key
  <2>2. Calm /\ Head(ex.todo) # "test"
    <3>r. PICK r : r = Past
      OBVIOUS
    <3>p. /\ r = [f \in Fields |-> r[f]]
          /\ r.at = "act" /\ r.todo = Tail(ex.todo) /\ r.outcome = ex.outcome
          /\ r.kind = ex.kind /\ r.missing = ex.missing /\ r.changed = ex.changed
          /\ r.tested = ex.tested /\ r.passed = ex.passed /\ r.called = ex.called
          /\ r.unowned = ex.unowned /\ r.failed = ex.failed /\ r.unresolved = ex.unresolved
      BY <1>3, <3>r, PastIs DEF WriteFails
    <3>1. ex' = [f \in Fields |-> ex'[f]]
      BY <2>1, <3>r, <3>p
    <3>2. /\ ex'.at = r.at /\ ex'.todo = r.todo /\ ex'.outcome = r.outcome
          /\ ex'.kind = r.kind /\ ex'.missing = r.missing /\ ex'.changed = r.changed
          /\ ex'.tested = r.tested /\ ex'.passed = r.passed /\ ex'.called = r.called
          /\ ex'.unowned = r.unowned /\ ex'.failed = r.failed \cup {"write"}
          /\ ex'.unresolved = r.unresolved \cup {"write"}
      BY <2>1, <3>r, <3>p DEF Fields
    <3> QED
      BY <1>3, <3>p, <3>1, <3>2 DEF Calm, WriteFails, Writing
  <2> QED
    BY <2>2, CalmKeeps
<1>4. CASE NotRun
  <2>1. Calm
    BY <1>4, PastIs DEF NotRun, Calm, Fields
  <2>2. Verified
    BY <1>4 DEF NotRun, AttemptInv, Verified
  <2> QED
    BY <2>1, <2>2, CalmKeeps
<1>5. CASE TestsPass \/ TestsFail \/ TestsCannotRun
  BY <1>5, TestsKeep
<1>6. CASE Fetch
  <2>1. Calm /\ Head(ex.todo) # "test"
    BY <1>6, PastIs DEF Fetch, Key, Writing, Calm, Fields
  <2> QED
    BY <2>1, CalmKeeps
<1>7. CASE Denied
  <2>1. Calm /\ Head(ex.todo) # "test"
    <3>r. PICK r : r = Past
      OBVIOUS
    <3>p. /\ r = [f \in Fields |-> r[f]]
          /\ r.at = "act" /\ r.todo = Tail(ex.todo) /\ r.outcome = ex.outcome
          /\ r.kind = ex.kind /\ r.missing = ex.missing /\ r.changed = ex.changed
          /\ r.tested = ex.tested /\ r.passed = ex.passed /\ r.called = ex.called
          /\ r.unowned = ex.unowned /\ r.failed = ex.failed /\ r.unresolved = ex.unresolved
      BY <1>7, <3>r, PastIs DEF Denied
    <3>1. ex' = [f \in Fields |-> ex'[f]]
      BY <1>7, <3>r, <3>p DEF Denied
    <3>2. /\ ex'.at = r.at /\ ex'.todo = r.todo /\ ex'.outcome = r.outcome
          /\ ex'.kind = r.kind /\ ex'.missing = r.missing /\ ex'.changed = r.changed
          /\ ex'.tested = r.tested /\ ex'.passed = r.passed /\ ex'.called = r.called
          /\ ex'.unowned = r.unowned /\ ex'.failed = r.failed
          /\ ex'.unresolved = r.unresolved \cup {"fetch"}
      BY <1>7, <3>r, <3>p DEF Fields, Denied
    <3> QED
      BY <1>7, <3>p, <3>1, <3>2 DEF Calm, Denied
  <2> QED
    BY <2>1, CalmKeeps
<1>8. CASE Accept
  <2>1. /\ ex.at = "act" /\ ex.todo = <<>> /\ ex.missing = 0 /\ Settled /\ TestsFollow
        /\ Finish("success")
    BY <1>8 DEF Accept, Judged, Complete, AttemptInv
  <2>2. "test" \notin ex.unresolved
    BY <2>1 DEF Settled, OnlyRefused, AttemptInv
  <2>3. ex.changed => ex.passed \/ ex.unowned
    BY <2>1, <2>2 DEF TestsFollow, Verified, Due, Ahead
  <2> QED
    BY <2>1, <2>2, <2>3, FinishKeeps DEF Outcomes
<1>9. CASE PermissionBlocked
  BY <1>9, FinishKeeps DEF PermissionBlocked, Outcomes
<1>10. CASE GiveUp
  BY <1>10, FinishKeeps DEF GiveUp, Outcomes
<1>11. CASE GoOn
  <2>1. PICK limit \in Limits : ex' = [Round(limit) EXCEPT !.stuck = Stuck]
    BY <1>11 DEF GoOn
  <2>2. BetweenTurns
    BY <1>11, <2>1, RoundIs DEF BetweenTurns, Fields, GoOn, Judged
  <2> QED
    BY <2>2, BetweenKeeps
<1> QED
  BY <1>1, <1>2, <1>3, <1>4, <1>5, <1>6, <1>7, <1>8, <1>9, <1>10, <1>11 DEF Act

LEMMA SyncKeepsAttempt ==
    ASSUME AttemptInv, NEW p \in Prompts, SyncDelivered(p)
    PROVE  AttemptInv'
<1>1. /\ ex = [f \in Fields |-> ex[f]] /\ ex.at = "done"
      /\ ex' = [ex EXCEPT !.declared = FALSE]
  BY DEF SyncDelivered, AttemptInv
<1>2. ex' = [f \in Fields |-> ex'[f]]
  BY <1>1
<1>3. \A f \in Fields \ {"declared"} : ex'[f] = ex[f]
  BY <1>1
<1>4. /\ ex'.at = "done" /\ ex'.todo = ex.todo /\ ex'.outcome = ex.outcome
      /\ ex'.kind = ex.kind /\ ex'.passed = ex.passed /\ ex'.called = ex.called
      /\ ex'.unowned = ex.unowned /\ ex'.failed = ex.failed /\ ex'.changed = ex.changed
      /\ ex'.unresolved = ex.unresolved /\ ex'.tested = ex.tested
  BY <1>1, <1>3 DEF Fields
<1> QED
  BY <1>1, <1>2, <1>4 DEF AttemptInv, DeliveredTested, Verified

LEMMA AttemptStep ==
    ASSUME AttemptInv, [Next]_vars
    PROVE  AttemptInv'
<1>1. CASE ex' = ex
  BY <1>1 DEF AttemptInv, TestsFollow, Verified, Due, Ahead, DeliveredTested
<1>2. ASSUME NEW p \in Prompts, BeginAttempt(p), ex' # ex PROVE AttemptInv'
  BY <1>2, StartKeeps DEF BeginAttempt
<1>3. ASSUME NEW p \in Prompts, Execute(p) PROVE AttemptInv'
  <2>1. ASSUME NEW c \in Capabilities, Reaches(c) PROVE AttemptInv'
    BY <2>1, ActKeeps, WriteKeeps DEF Reaches, Act, Writing
  <2> QED
    BY <1>3, <2>1, ThinkKeeps, ListenKeeps, ActKeeps DEF Execute
<1>4. ASSUME NEW p \in Prompts, HearPermission(p), ex' # ex PROVE AttemptInv'
  BY <1>4, FinishKeeps DEF HearPermission, Outcomes
<1>5. ASSUME NEW p \in Prompts, EndAttempt(p) PROVE AttemptInv'
  <2>1. ex' = NoAttempt
    BY <1>5 DEF EndAttempt
  <2>2. (ex = NoAttempt)'
    BY <2>1 DEF NoAttempt
  <2>3. (ex = NoAttempt => AttemptInv)'
    BY NoAttemptInv, PTL
  <2> QED
    BY <2>2, <2>3
<1>7. ASSUME NEW p \in Prompts, SyncDelivered(p) PROVE AttemptInv'
  BY <1>7, SyncKeepsAttempt
<1>6. ASSUME NEW p \in Prompts, TaskStep(p), ex' # ex PROVE AttemptInv'
  BY <1>2, <1>3, <1>4, <1>5, <1>6, <1>7
     DEF TaskStep, BeginBuild, Decompose, AskPlanner, HearPlanner, AskClient, HearClient, SavePlan,
         Built, Load, AskPermission, Chat, work, project
<1> QED
  BY <1>1, <1>6
     DEF Next, NewSession, Close, Prompt, CancelTask, PermissionTimesOut, AnswerRequest, Elsewhere,
         work, vars

LEMMA AttemptKept == Spec => []AttemptInv
<1>1. Init => AttemptInv
  BY NoAttemptInv DEF Init, ExecutorInit
<1> QED
  BY <1>1, AttemptStep, PTL DEF Spec

\* An attempt that changed its Step succeeds only once the tests have passed in it, or could
\* not be run, and never while they have failed and not passed since; with any tools, in
\* turns of any length and order, and whatever fails, is denied or is proposed again.
THEOREM DeliveredIsTested == Spec => []DeliveredTested
BY AttemptKept, PTL DEF AttemptInv

-----------------------------------------------------------------------------
(* What the operations on a task do to it.                                  *)

LEMMA TopicsAre ==
    /\ Topics = Questions \cup Capabilities /\ Questions \cap Capabilities = {}
    /\ "none" \notin Topics /\ "none" \notin Replies
    /\ Questions \subseteq Building /\ Building \subseteq Holding /\ Holding \subseteq Places
    /\ "run" \notin Questions /\ "run" \notin Building /\ "run" \in Holding
    /\ \A t \in {"new", "begin", "built", "load", "done"} : t \in Places /\ t \notin Holding
BY DEF Topics, Questions, Capabilities, Replies, Building, Holding, Places

\* Where a reply leads.
LEMMA AfterIs ==
    ASSUME NEW t \in Questions
    PROVE  /\ DOMAIN After[t] \subseteq Replies
           /\ \A v \in DOMAIN After[t] :
                 /\ After[t][v] \in Questions \cup {"decompose", "save", "failed", "rejected"}
                 /\ After[t][v] = "save" => t = "plan" /\ v = "yes"
<1>1. CASE t = "clarify"
  BY <1>1 DEF After, Questions, Replies
<1>2. CASE t = "addenda"
  BY <1>2 DEF After, Questions, Replies
<1>3. CASE t = "addendaText"
  BY <1>3 DEF After, Questions, Replies
<1>4. CASE t = "topic"
  BY <1>4 DEF After, Questions, Replies
<1>5. CASE t = "topicText"
  BY <1>5 DEF After, Questions, Replies
<1>6. CASE t = "plan"
  BY <1>6 DEF After, Questions, Replies
<1> QED
  BY <1>1, <1>2, <1>3, <1>4, <1>5, <1>6 DEF Questions

\* The others' tasks, and their jobs, stay as they are.
OthersTasks(p) == \A q \in Prompts : q # p => task'[q] = task[q]
OthersJobs(p) == \A q \in Prompts : q # p => job'[q] = job[q]
TasksOK == task \in [Prompts -> Tasks]
JobsOK == job \in [Prompts -> Tasking]

LEMMA TakeReplyIs ==
    ASSUME TasksOK, NEW p \in Prompts, TakeReply(p)
    PROVE  /\ TasksOK' /\ OthersTasks(p)
           /\ task'[p].status = task[p].status /\ task'[p].waits = task[p].waits
           /\ task'[p].reply = "none"
BY DEF TasksOK, OthersTasks, Tasks, TakeReply

LEMMA BecomeIs ==
    ASSUME TasksOK, NEW p \in Prompts, NEW status \in {"completed", "failed", "cancelled"},
           Become(p, status)
    PROVE  /\ TasksOK' /\ OthersTasks(p)
           /\ task'[p].status # "none" /\ task'[p].waits = task[p].waits
           /\ task'[p].reply = "none"
           /\ IsCancelled(p) => task'[p].status = "cancelled"
<1> DEFINE s == IF IsCancelled(p) THEN "cancelled"
                ELSE IF MayBecome(p, status) THEN status ELSE "failed"
<1>1. s \in {"completed", "failed", "cancelled"} /\ s \in Statuses
  BY DEF Statuses
<1>2. task' = [task EXCEPT ![p] = [@ EXCEPT !.reply = "none", !.status = s]]
  BY DEF Become
<1>3. IsCancelled(p) => s = "cancelled"
  OBVIOUS
<1> HIDE DEF s
<1> QED
  BY <1>1, <1>2, <1>3 DEF TasksOK, OthersTasks, Tasks

LEMMA AskIs ==
    ASSUME TasksOK, NEW p \in Prompts, NEW topic \in Topics, Ask(p, topic)
    PROVE  /\ TasksOK' /\ OthersTasks(p)
           /\ task[p].status = "none" <=> task'[p].status = "none"
           /\ \/ /\ task'[p].waits = topic /\ task'[p].reply = task[p].reply
                 /\ ~ IsCancelled(p) /\ ~ IsCancelled(p)'
              \/ /\ task'[p].waits = task[p].waits /\ task'[p].reply = "rejected"
                 /\ task'[p].status = task[p].status
<1>1. Waiting(topic) \in {"waiting_for_permission", "waiting_for_confirmation"}
  BY DEF Waiting
<1>2. CASE MayBecome(p, Waiting(topic))
  <2>1. task' = [task EXCEPT ![p] = [@ EXCEPT !.status = Waiting(topic), !.waits = topic]]
    BY <1>2 DEF Ask
  <2>2. task[p].status \notin {"none", "cancel_requested", "cancelled"}
    BY <1>1, <1>2 DEF MayBecome, Becomes
  <2>3. /\ task'[p].status = Waiting(topic) /\ task'[p].waits = topic
        /\ task'[p].reply = task[p].reply /\ TasksOK' /\ OthersTasks(p)
    BY <1>1, <2>1 DEF TasksOK, Tasks, Statuses, OthersTasks
  <2> QED
    BY <1>1, <2>2, <2>3 DEF IsCancelled
<1>3. CASE ~ MayBecome(p, Waiting(topic))
  BY <1>3 DEF Ask, TasksOK, Tasks, Replies, OthersTasks
<1> QED
  BY <1>2, <1>3

LEMMA RespondIs ==
    ASSUME TasksOK, NEW p \in Prompts, NEW topic \in Topics, NEW value \in Replies,
           Respond(p, topic, value)
    PROVE  /\ TasksOK' /\ OthersTasks(p)
           /\ task[p].status = "none" <=> task'[p].status = "none"
           /\ IsCancelled(p) <=> IsCancelled(p)'
           /\ IF task[p].waits = topic /\ <<p, topic>> \in held /\ SessionOpen(p)
              THEN task'[p].waits = "none" /\ task'[p].reply = value
              ELSE task'[p].waits = task[p].waits /\ task'[p].reply = task[p].reply
<1>1. CASE ~ (<<p, topic>> \in held /\ SessionOpen(p))
  BY <1>1 DEF Respond, TasksOK, OthersTasks, IsCancelled
<1>2. CASE <<p, topic>> \in held /\ SessionOpen(p)
  <2> DEFINE s == IF task[p].status = Waiting(topic) THEN "running" ELSE task[p].status
             w == IF task[p].waits = topic THEN "none" ELSE task[p].waits
             r == IF task[p].waits = topic THEN value ELSE task[p].reply
  <2>1. task[p] \in Tasks
    BY DEF TasksOK
  <2>2. /\ s \in Statuses /\ w \in Topics \cup {"none"} /\ r \in Replies \cup {"none"}
        /\ Waiting(topic) \in {"waiting_for_permission", "waiting_for_confirmation"}
    BY <2>1 DEF Tasks, Statuses, Waiting
  <2>3. task' = [task EXCEPT ![p].status = s, ![p].waits = w, ![p].reply = r]
    BY <1>2, <2>1 DEF Respond, TasksOK, Tasks
  <2>4. s = "none" <=> task[p].status = "none"
    BY <2>2
  <2>5. s \in {"cancel_requested", "cancelled"} <=> task[p].status \in {"cancel_requested", "cancelled"}
    BY <2>2
  <2>6. /\ task[p].waits = topic => w = "none" /\ r = value
        /\ task[p].waits # topic => w = task[p].waits /\ r = task[p].reply
    OBVIOUS
  <2> HIDE DEF s, w, r
  <2>7. TasksOK' /\ OthersTasks(p) /\ task'[p].status = s /\ task'[p].waits = w /\ task'[p].reply = r
    BY <2>2, <2>3 DEF TasksOK, Tasks, OthersTasks
  <2> QED
    BY <1>2, <2>4, <2>5, <2>6, <2>7 DEF IsCancelled
<1> QED
  BY <1>1, <1>2

LEMMA GotoIs ==
    ASSUME JobsOK, NEW p \in Prompts, NEW place \in Places, Goto(p, place)
    PROVE  /\ JobsOK' /\ OthersJobs(p) /\ job'[p].at = place
           /\ job'[p].asks = job[p].asks /\ job'[p].agreed = job[p].agreed
BY DEF JobsOK, OthersJobs, Tasking, Goto

-----------------------------------------------------------------------------
(* The steps of a task.                                                     *)

LEMMA InitConsent == Init => ConsentInv
<1> SUFFICES ASSUME Init PROVE ConsentInv
  OBVIOUS
<1>1. /\ cache = [c \in Capabilities |-> "none"] /\ task = [p \in Prompts |-> NoTask]
      /\ job = [p \in Prompts |-> NoJob] /\ run = NoRun /\ plan = "none" /\ lock = "none"
  BY DEF Init, PermissionInit, Undecided, AcpInit
<1>2. NoTask \in Tasks /\ NoTask.waits = "none" /\ NoTask.reply = "none" /\ NoTask.status = "none"
  BY DEF NoTask, Tasks, Statuses
<1>3. NoJob \in Tasking /\ NoJob.at = "new"
  BY DEF NoJob, Tasking, Places
<1>4. NoRun \in RunsOf
  BY DEF NoRun, RunsOf
<1>5. AgentTypes
  BY <1>1, <1>2, <1>3, <1>4 DEF AgentTypes
<1>6. \A p \in Prompts : job[p].at = "new" /\ task[p] = NoTask /\ p # plan
  BY <1>1, <1>3, AgentAssumption
<1>7. "new" \notin Holding /\ "run" # "new"
  BY TopicsAre
<1> QED
  BY <1>1, <1>2, <1>5, <1>6, <1>7, TopicsAre
     DEF ConsentInv, Held, Asked, Granted, Agreed, Running, InDialogue, At

\* Who does not hold the project waits for nothing and was told nothing.
LEMMA Alone ==
    ASSUME ConsentInv, NEW q \in Prompts, job[q].at \notin Holding
    PROVE  task[q].waits = "none" /\ task[q].reply = "none" /\ ~ Running(q) /\ ~ InDialogue(q)
<1>1. ~ Running(q) /\ ~ InDialogue(q)
  BY TopicsAre DEF Running, InDialogue, At
<1>2. task[q].reply = "none"
  BY <1>1 DEF ConsentInv, Asked
<1>3. task[q].waits \in Topics \cup {"none"}
  BY DEF ConsentInv, AgentTypes, Tasks
<1>4. task[q].waits = "none"
  BY <1>1, <1>3, TopicsAre DEF ConsentInv, Asked, At
<1> QED
  BY <1>1, <1>2, <1>4

LEMMA OthersAlone ==
    ASSUME ConsentInv, NEW p \in Prompts, job[p].at \in Holding, NEW q \in Prompts, q # p
    PROVE  /\ job[q].at \notin Holding
           /\ task[q].waits = "none" /\ task[q].reply = "none" /\ ~ Running(q) /\ ~ InDialogue(q)
<1>1. job[q].at \notin Holding
  BY DEF ConsentInv, Held
<1> QED
  BY <1>1, Alone

\* A task moves on without a run: where it comes it is not asked anything yet.
Move(p) ==
    /\ JobsOK' /\ TasksOK' /\ OthersJobs(p) /\ OthersTasks(p)
    /\ UNCHANGED <<cache, ex, run>>
    /\ ~ Running(p) /\ job'[p].at \notin {"new", "run"}
    /\ task'[p].waits = "none" /\ task'[p].reply = "none" /\ task'[p].status # "none"
    /\ job'[p].at \in Holding => lock' = p
    /\ lock' = lock \/ lock \in {"none", p}
    /\ job'[p].asks = job[p].asks /\ job'[p].agreed = job[p].agreed
    /\ plan' = plan \/ (plan' = p /\ At(p, "save"))
    /\ plan' = p => job'[p].at \in {"built", "load", "run", "done"}
    /\ job'[p].at = "save" => (job[p].asks => job[p].agreed)

LEMMA MoveKeeps ==
    ASSUME ConsentInv, NEW p \in Prompts, Move(p)
    PROVE  ConsentInv'
<1>1. AgentTypes'
  BY DEF ConsentInv, AgentTypes, Move, JobsOK, TasksOK
<1>2. \A q \in Prompts : q # p => job'[q] = job[q] /\ task'[q] = task[q]
  BY DEF Move, OthersJobs, OthersTasks
<1>3. \A q \in Prompts : Running(q)' => q # p /\ Running(q)
  BY <1>2 DEF Move, Running, At
<1>4. Held'
  <2>1. ASSUME NEW q \in Prompts, job'[q].at \in Holding PROVE lock' = q
    BY <1>2, <2>1, AgentAssumption DEF Move, ConsentInv, Held
  <2>2. run' = NoRun \/ \E q \in Prompts : Running(q)'
    BY <1>2 DEF Move, ConsentInv, Held, Running, At
  <2> QED
    BY <1>3, <2>1, <2>2 DEF Held, Move, ConsentInv
<1>5. Asked'
  BY <1>2, TopicsAre DEF ConsentInv, Asked, Move, Running, InDialogue, At, Asks, Doing, Decided, IsCancelled
<1>6. Granted'
  BY <1>2, <1>3 DEF ConsentInv, Granted, Move, Told, Asks, Doing, Decided
<1>7. Agreed'
  BY <1>2 DEF ConsentInv, Agreed, Move, At
<1> QED
  BY <1>1, <1>4, <1>5, <1>6, <1>7 DEF ConsentInv

\* The run ends, and with it the task.
Ends(p) ==
    /\ JobsOK' /\ TasksOK' /\ OthersJobs(p) /\ OthersTasks(p)
    /\ Running(p) /\ job'[p].at = "done" /\ run' = NoRun /\ plan' = plan /\ cache' = cache
    /\ task'[p].waits = "none" /\ task'[p].reply = "none" /\ task'[p].status # "none"
    /\ job'[p].asks = job[p].asks /\ job'[p].agreed = job[p].agreed

LEMMA EndsKeep ==
    ASSUME ConsentInv, NEW p \in Prompts, Ends(p)
    PROVE  ConsentInv'
<1>1. NoRun \in RunsOf
  BY DEF NoRun, RunsOf
<1>2. AgentTypes'
  BY <1>1 DEF ConsentInv, AgentTypes, Ends, JobsOK, TasksOK
<1>3. job[p].at \in Holding /\ "done" \notin Holding
  BY TopicsAre DEF Ends, Running, At
<1>4. \A q \in Prompts : q # p => job'[q] = job[q] /\ task'[q] = task[q]
  BY DEF Ends, OthersJobs, OthersTasks
<1>5. \A q \in Prompts :
          /\ job'[q].at \notin Holding /\ task'[q].waits = "none" /\ task'[q].reply = "none"
  BY <1>3, <1>4, OthersAlone DEF Ends
<1>6. \A q \in Prompts : ~ Running(q)' /\ ~ InDialogue(q)'
  BY <1>5, TopicsAre DEF Running, InDialogue, At
<1>7. Held'
  BY <1>5, <1>6 DEF Held, Ends
<1>8. Asked'
  <2>1. \A q \in Prompts : task'[q].status = "none" => job'[q].at = "new"
    BY <1>4 DEF ConsentInv, Asked, Ends, At
  <2> QED
    BY <1>5, <1>6, <2>1, TopicsAre DEF Asked, At
<1>9. Granted'
  BY <1>6 DEF Granted
<1>10. Agreed'
  BY <1>4, <1>5 DEF ConsentInv, Agreed, Ends, At
<1> QED
  BY <1>2, <1>7, <1>8, <1>9, <1>10 DEF ConsentInv

\* The run goes on: only its own task, its attempt and its permissions change.
Runs(p) ==
    /\ cache' \in [Capabilities -> Decisions \cup {"none"}]
    /\ TasksOK' /\ OthersTasks(p) /\ run' \in RunsOf
    /\ Running(p) /\ job' = job /\ plan' = plan /\ lock' = lock /\ run'.of = run.of
    /\ task'[p].status # "none"
    /\ task'[p].waits \in Capabilities \cup {"none"}
    /\ task'[p].waits # "none" => /\ task'[p].reply = "none" /\ ~ IsCancelled(p)'
                                  /\ Asks(task[p].waits)'
    /\ task'[p].reply # "none" => \E c \in Capabilities : Asks(c)'
    /\ task'[p].reply \in {"none", "rejected"} \cup Answers

PermitsOf(p) ==
    \A c \in Capabilities :
        /\ cache[c] = "approved" => c \in run.granted \ run.refused
        /\ c \in run.used => cache[c] = "approved"
        /\ cache[c] = "none" /\ ~ Told(p, c) => c \notin run.granted \cup run.refused
        /\ task[p].reply = "yes" /\ Asks(c) => c \in run.granted \ run.refused

LEMMA RunsKeep ==
    ASSUME ConsentInv, NEW p \in Prompts, Runs(p), PermitsOf(p)'
    PROVE  ConsentInv'
<1>1. AgentTypes'
  BY DEF ConsentInv, AgentTypes, Runs, TasksOK
<1>2. job[p].at \in Holding
  BY TopicsAre DEF Runs, Running, At
<1>3. \A q \in Prompts : q # p =>
          /\ task'[q] = task[q] /\ ~ Running(q) /\ ~ InDialogue(q)
          /\ task[q].waits = "none" /\ task[q].reply = "none"
  BY <1>2, OthersAlone DEF Runs, OthersTasks
<1>4. Held'
  <2>1. \A q \in Prompts : Running(q)' <=> Running(q)
    BY DEF Runs, Running, At
  <2> QED
    BY <2>1 DEF ConsentInv, Held, Runs
<1>5. Asked'
  <2>1. ~ InDialogue(p) /\ ~ At(p, "plan")
    BY TopicsAre DEF Runs, Running, InDialogue, At, Questions
  <2> QED
    BY <1>3, <2>1, TopicsAre DEF ConsentInv, Asked, Runs, Running, InDialogue, At
<1>6. Granted'
  BY <1>3 DEF Granted, PermitsOf, Runs, Running, At
<1>7. Agreed'
  BY <1>3 DEF ConsentInv, Agreed, Runs, Running, At
<1> QED
  BY <1>1, <1>4, <1>5, <1>6, <1>7 DEF ConsentInv

\* What a task waits for is taken from it, or nothing is.
Rejects ==
    /\ TasksOK' /\ UNCHANGED <<cache, ex, job, lock, plan, run>>
    /\ \A p \in Prompts :
        /\ task'[p].status = "none" <=> task[p].status = "none"
        /\ \/ /\ task'[p].waits = task[p].waits /\ task'[p].reply = task[p].reply
              /\ task[p].waits # "none" => task'[p].status = task[p].status
           \/ task[p].waits # "none" /\ task'[p].waits = "none" /\ task'[p].reply = "rejected"

LEMMA RejectsKeep ==
    ASSUME ConsentInv, Rejects
    PROVE  ConsentInv'
<1>1. AgentTypes'
  BY DEF ConsentInv, AgentTypes, Rejects, TasksOK
<1>2. Held'
  BY DEF ConsentInv, Held, Rejects, Running, At
<1>3. ASSUME NEW p \in Prompts
      PROVE  \/ /\ task'[p].waits = task[p].waits /\ task'[p].reply = task[p].reply
                /\ task[p].waits # "none" => ~ IsCancelled(p)'
             \/ /\ task'[p].waits = "none" /\ task'[p].reply = "rejected" /\ task[p].reply = "none"
                /\ InDialogue(p) \/ (Running(p) /\ \E c \in Capabilities : Asks(c))
  <2>1. task[p].waits \in Topics \cup {"none"}
    BY DEF ConsentInv, AgentTypes, Tasks
  <2>2. ASSUME task[p].waits # "none"
        PROVE  /\ task[p].reply = "none" /\ ~ IsCancelled(p)
               /\ InDialogue(p) \/ (Running(p) /\ \E c \in Capabilities : Asks(c))
    BY <2>1, <2>2, TopicsAre DEF ConsentInv, Asked, InDialogue, At
  <2> QED
    BY <2>2 DEF Rejects, IsCancelled
<1>4. Asked'
  <2> SUFFICES ASSUME NEW p \in Prompts
               PROVE  /\ task'[p].status = "none" => At(p, "new")'
                      /\ task'[p].waits # "none" => task'[p].reply = "none" /\ ~ IsCancelled(p)'
                      /\ task'[p].waits \in Questions => At(p, task[p].waits)'
                      /\ task'[p].waits \in Capabilities => Running(p)' /\ Asks(task[p].waits)'
                      /\ task'[p].reply # "none" =>
                            InDialogue(p)' \/ (Running(p)' /\ \E c \in Capabilities : Asks(c)')
                      /\ InDialogue(p)' =>
                            task'[p].reply \in {"none", "rejected"} \cup DOMAIN After[job'[p].at]
                      /\ Running(p)' => task'[p].reply \in {"none", "rejected"} \cup Answers
    BY DEF Asked
  <2>1. /\ InDialogue(p)' = InDialogue(p) /\ Running(p)' = Running(p)
        /\ \A c : Asks(c)' = Asks(c)
        /\ \A place : (job'[p].at = place) = (job[p].at = place)
    BY DEF Rejects, InDialogue, Running, At, Asks, Doing, Decided
  <2> QED
    BY <1>3, <2>1, TopicsAre DEF ConsentInv, Asked, Rejects, At
<1>5. Granted'
  <2> SUFFICES ASSUME NEW p \in Prompts, NEW c \in Capabilities, Running(p)
               PROVE  /\ cache[c] = "approved" => c \in run.granted \ run.refused
                      /\ c \in run.used => cache[c] = "approved"
                      /\ cache[c] = "none" /\ ~ Told(p, c)' => c \notin run.granted \cup run.refused
                      /\ task'[p].reply = "yes" /\ Asks(c) => c \in run.granted \ run.refused
    BY DEF Granted, Rejects, Running, At, Asks, Doing, Decided
  <2>1. Told(p, c)' <=> task'[p].reply \in Answers /\ Asks(c)
    BY DEF Told, Rejects, Asks, Doing, Decided
  <2>2. /\ cache[c] = "approved" => c \in run.granted \ run.refused
        /\ c \in run.used => cache[c] = "approved"
        /\ cache[c] = "none" /\ ~ Told(p, c) => c \notin run.granted \cup run.refused
        /\ task[p].reply = "yes" /\ Asks(c) => c \in run.granted \ run.refused
    BY DEF ConsentInv, Granted
  <2> QED
    BY <1>3, <2>1, <2>2 DEF Told, Answers
<1>6. Agreed'
  BY <1>3 DEF ConsentInv, Agreed, Rejects, At
<1> QED
  BY <1>1, <1>2, <1>4, <1>5, <1>6 DEF ConsentInv

LEMMA CancelRejects ==
    ASSUME ConsentInv, NEW p \in Prompts, CancelTask(p)
    PROVE  Rejects /\ OthersTasks(p) /\ task'[p].waits = "none"
           /\ task'[p].status = "cancel_requested"
<1>1. task[p] \in Tasks /\ task \in [Prompts -> Tasks]
  BY DEF ConsentInv, AgentTypes
<1> DEFINE t == Rejected(task[p])
<1>2. /\ t \in Tasks /\ t.waits = "none"
      /\ \/ task[p].waits = "none" /\ t.reply = task[p].reply
         \/ task[p].waits # "none" /\ t.reply = "rejected"
  BY <1>1 DEF Rejected, Tasks, Replies
<1>3. task' = [task EXCEPT ![p] = [t EXCEPT !.status = "cancel_requested"]]
  BY DEF CancelTask, Cancel
<1>4. task[p].status # "none"
  BY DEF CancelTask, Cancel, Live
<1> HIDE DEF t
<1>5. /\ TasksOK' /\ OthersTasks(p) /\ task'[p].waits = t.waits /\ task'[p].reply = t.reply
      /\ task'[p].status = "cancel_requested"
  BY <1>1, <1>2, <1>3 DEF Tasks, Statuses, TasksOK, OthersTasks
<1> QED
  BY <1>2, <1>4, <1>5 DEF CancelTask, Rejects, OthersTasks, work, project

LEMMA CloseRejects ==
    ASSUME ConsentInv, NEW s \in Sessions, Close(s)
    PROVE  Rejects /\ \A p \in Prompts : /\ task'[p].status = task[p].status
                                         /\ task[p].waits = "none" => task'[p].waits = "none"
<1>1. task \in [Prompts -> Tasks]
  BY DEF ConsentInv, AgentTypes
<1>2. ASSUME NEW p \in Prompts
      PROVE  /\ Rejected(task[p]) \in Tasks /\ Rejected(task[p]).status = task[p].status
             /\ Rejected(task[p]).waits = "none"
             /\ \/ Rejected(task[p]) = task[p]
                \/ task[p].waits # "none" /\ Rejected(task[p]).reply = "rejected"
  BY <1>1 DEF Rejected, Tasks, Replies
<1>3. task' = [p \in Prompts |->
          IF task[p].of = s /\ <<p, task[p].waits>> \in held THEN Rejected(task[p]) ELSE task[p]]
  BY DEF Close, CloseSession
<1>4. TasksOK'
  BY <1>1, <1>2, <1>3 DEF TasksOK
<1> QED
  BY <1>2, <1>3, <1>4 DEF Close, Rejects, work, project

LEMMA PromptKeeps ==
    ASSUME ConsentInv, NEW p \in Prompts, NEW s \in Sessions, Prompt(p, s)
    PROVE  ConsentInv'
<1>1. /\ task \in [Prompts -> Tasks] /\ job \in [Prompts -> Tasking] /\ task[p].status = "none"
      /\ job[p].at = "new"
  BY DEF ConsentInv, AgentTypes, Prompt, CreateTask, Asked, At
<1>2. PICK asks \in BOOLEAN, auto \in BOOLEAN :
         job' = [job EXCEPT ![p] = [NoJob EXCEPT !.at = "begin", !.asks = asks, !.auto = auto]]
  BY DEF Prompt
<1>3. JobsOK' /\ OthersJobs(p) /\ job'[p].at = "begin"
  BY <1>1, <1>2 DEF JobsOK, OthersJobs, NoJob, Tasking, Places
<1>4. /\ TasksOK' /\ OthersTasks(p) /\ task'[p].status = "running"
      /\ task'[p].waits = "none" /\ task'[p].reply = "none"
  BY <1>1 DEF Prompt, CreateTask, NoTask, Tasks, Statuses, TasksOK, OthersTasks
<1>5. plan # p
  BY <1>1 DEF ConsentInv, Agreed
<1>6. \A q \in Prompts : q # p => job'[q] = job[q] /\ task'[q] = task[q]
  BY <1>3, <1>4 DEF OthersJobs, OthersTasks
<1>7. UNCHANGED <<cache, ex, run, lock, plan>>
  BY DEF Prompt, work, project
<1>8. job[p].at \notin Holding /\ job'[p].at \notin Holding
  BY <1>1, <1>3, TopicsAre
<1>9. ~ Running(p) /\ ~ Running(p)' /\ ~ InDialogue(p)' /\ ~ At(p, "plan")'
  BY <1>8, TopicsAre DEF Running, InDialogue, At, Questions
<1>10. AgentTypes'
  BY <1>3, <1>4, <1>7 DEF ConsentInv, AgentTypes, JobsOK, TasksOK
<1>11. Held'
  BY <1>6, <1>7, <1>8, <1>9 DEF ConsentInv, Held, Running, At
<1>12. Asked'
  BY <1>4, <1>6, <1>7, <1>9, TopicsAre
     DEF ConsentInv, Asked, Running, InDialogue, At, Asks, Doing, Decided, IsCancelled
<1>13. Granted'
  BY <1>6, <1>7, <1>9 DEF ConsentInv, Granted, Running, At, Told, Asks, Doing, Decided
<1>14. Agreed'
  BY <1>3, <1>5, <1>6, <1>7, <1>9 DEF ConsentInv, Agreed, At
<1> QED
  BY <1>10, <1>11, <1>12, <1>13, <1>14 DEF ConsentInv

LEMMA TimesOutKeeps ==
    ASSUME ConsentInv, NEW p \in Prompts, PermissionTimesOut(p)
    PROVE  ConsentInv'
<1> DEFINE c == task[p].waits
<1>1. /\ c \in Capabilities /\ Running(p) /\ Asks(c) /\ task[p].reply = "none" /\ c # "none"
      /\ task \in [Prompts -> Tasks] /\ run \in RunsOf /\ task[p].status # "none"
  BY TopicsAre DEF ConsentInv, AgentTypes, Asked, PermissionTimesOut, TimesOut, Running, At
<1> HIDE DEF c
<1>2. /\ TasksOK' /\ OthersTasks(p) /\ task'[p].waits = "none" /\ task'[p].reply = "late"
      /\ task'[p].status = task[p].status
  BY <1>1 DEF PermissionTimesOut, TimesOut, Tasks, Replies, TasksOK, OthersTasks
<1>3. /\ run' \in RunsOf /\ run'.of = run.of /\ run'.granted = run.granted /\ run'.used = run.used
      /\ run'.refused = run.refused \cup {c}
  BY <1>1 DEF PermissionTimesOut, RunsOf, c
<1>4. UNCHANGED <<cache, ex, job, lock, plan>>
  BY DEF PermissionTimesOut, work
<1>5. \A d : Asks(d)' = Asks(d)
  BY <1>4 DEF Asks, Doing, Decided
<1>6. Runs(p)
  BY <1>1, <1>2, <1>3, <1>4, <1>5 DEF Runs, ConsentInv, AgentTypes, Answers
<1>7. cache[c] = "none" /\ \A d \in Capabilities : Asks(d) => d = c
  BY <1>1 DEF Asks, Decided
<1>8. \A d \in Capabilities :
          /\ cache[d] = "approved" => d \in run.granted \ run.refused
          /\ d \in run.used => cache[d] = "approved"
          /\ cache[d] = "none" => d \notin run.granted \cup run.refused
  BY <1>1 DEF ConsentInv, Granted, Told, Answers
<1>9. PermitsOf(p)'
  BY <1>1, <1>2, <1>3, <1>4, <1>5, <1>7, <1>8 DEF PermitsOf, Told, Answers
<1> QED
  BY <1>6, <1>9, RunsKeep

LEMMA AnswerKeeps ==
    ASSUME ConsentInv, NEW p \in Prompts, NEW topic \in Topics, AnswerRequest(p, topic)
    PROVE  ConsentInv'
<1>1. PICK value \in ValuesFor(topic) : Respond(p, topic, value) /\ Says(p, topic, value)
  BY DEF AnswerRequest
<1>2. /\ value \in Replies
      /\ topic \in Questions => value \in DOMAIN After[topic]
      /\ topic \in Capabilities => value \in {"yes", "no"}
  BY TopicsAre, AfterIs DEF ValuesFor, Replies
<1> DEFINE heard == task[p].waits = topic /\ <<p, topic>> \in held /\ SessionOpen(p)
           yes == heard /\ topic \in Capabilities /\ value = "yes"
           no == heard /\ topic \in Capabilities /\ value = "no"
<1>3. TasksOK /\ JobsOK /\ run \in RunsOf
  BY DEF ConsentInv, AgentTypes, TasksOK, JobsOK
<1>4. /\ TasksOK' /\ OthersTasks(p)
      /\ task[p].status = "none" <=> task'[p].status = "none"
      /\ IsCancelled(p) <=> IsCancelled(p)'
      /\ IF heard THEN task'[p].waits = "none" /\ task'[p].reply = value
         ELSE task'[p].waits = task[p].waits /\ task'[p].reply = task[p].reply
  BY <1>1, <1>2, <1>3, RespondIs
<1>5. /\ run' = [run EXCEPT !.granted = IF yes THEN run.granted \cup {topic} ELSE run.granted,
                            !.refused = IF no THEN run.refused \cup {topic} ELSE run.refused]
      /\ job' = [job EXCEPT ![p].agreed =
                    job[p].agreed \/ (heard /\ topic = "plan" /\ value = "yes")]
      /\ UNCHANGED <<cache, ex, lock, plan>>
  BY <1>1 DEF Says, AnswerRequest, work
<1> HIDE DEF heard
<1>6. /\ JobsOK' /\ OthersJobs(p) /\ job'[p].at = job[p].at /\ job'[p].asks = job[p].asks
      /\ job[p].agreed => job'[p].agreed
      /\ heard /\ topic = "plan" /\ value = "yes" => job'[p].agreed
  BY <1>3, <1>5 DEF JobsOK, OthersJobs, Tasking
<1>7. CASE heard /\ topic \in Capabilities
  <2>1. /\ task[p].waits = topic /\ Running(p) /\ Asks(topic) /\ task[p].reply = "none"
        /\ task[p].status # "none" /\ topic # "none" /\ topic \notin Questions
    BY <1>7, TopicsAre DEF heard, ConsentInv, Asked, Running, At
  <2>2. value = "yes" \/ value = "no"
    BY <1>2, <1>7
  <2>3. /\ run' \in RunsOf /\ run'.of = run.of /\ run'.used = run.used
        /\ run'.granted = IF value = "yes" THEN run.granted \cup {topic} ELSE run.granted
        /\ run'.refused = IF value = "no" THEN run.refused \cup {topic} ELSE run.refused
    BY <1>3, <1>5, <1>7 DEF RunsOf
  <2>4. job' = job
    <3>1. topic # "plan"
      BY <2>1 DEF Questions
    <3> QED
      BY <1>3, <1>5, <3>1 DEF JobsOK, Tasking
  <2>5. \A d : Asks(d)' = Asks(d)
    BY <1>5 DEF Asks, Doing, Decided
  <2>6. Runs(p)
    BY <1>4, <1>5, <1>7, <2>1, <2>2, <2>3, <2>4, <2>5 DEF Runs, ConsentInv, AgentTypes, Answers
  <2>7. cache[topic] = "none" /\ \A d \in Capabilities : Asks(d) => d = topic
    BY <2>1 DEF Asks, Decided
  <2>8. \A d \in Capabilities :
            /\ cache[d] = "approved" => d \in run.granted \ run.refused
            /\ d \in run.used => cache[d] = "approved"
            /\ cache[d] = "none" => d \notin run.granted \cup run.refused
    BY <2>1 DEF ConsentInv, Granted, Told, Answers
  <2>9. PermitsOf(p)'
    BY <1>4, <1>5, <1>7, <2>1, <2>2, <2>3, <2>5, <2>7, <2>8 DEF PermitsOf, Told, Answers
  <2> QED
    BY <2>6, <2>9, RunsKeep
<1>8. CASE ~ (heard /\ topic \in Capabilities)
  <2>1. run' = run
    BY <1>3, <1>5, <1>8 DEF RunsOf
  <2>2. AgentTypes'
    BY <1>4, <1>5, <1>6, <2>1 DEF ConsentInv, AgentTypes, TasksOK, JobsOK
  <2>3. \A q \in Prompts : /\ job'[q].at = job[q].at /\ job'[q].asks = job[q].asks
                           /\ job[q].agreed => job'[q].agreed
                           /\ q # p => task'[q] = task[q]
    BY <1>4, <1>6 DEF OthersJobs, OthersTasks
  <2>4. Held'
    BY <1>5, <2>1, <2>3 DEF ConsentInv, Held, Running, At
  <2>5. ASSUME heard
        PROVE  /\ topic \in Questions /\ At(p, topic) /\ InDialogue(p) /\ ~ Running(p)
               /\ task[p].reply = "none" /\ value \in DOMAIN After[job[p].at]
    BY <1>2, <1>8, <2>5, TopicsAre DEF heard, ConsentInv, Asked, At, InDialogue, Running
  <2>6. \A d : Asks(d)' = Asks(d)
    BY <1>5 DEF Asks, Doing, Decided
  <2>7. Asked'
    BY <1>4, <2>3, <2>5, <2>6, TopicsAre DEF ConsentInv, Asked, Running, InDialogue, At, IsCancelled
  <2>8. Granted'
    <3>1. ASSUME NEW q \in Prompts, Running(q)'
          PROVE  Running(q) /\ task'[q].reply = task[q].reply
      BY <1>4, <2>3, <2>5, <3>1 DEF Running, At
    <3>2. \A q \in Prompts : \A c : Running(q)' => (Told(q, c)' <=> Told(q, c))
      BY <2>6, <3>1 DEF Told
    <3>3. cache' = cache
      BY <1>5
    <3> QED
      BY <2>1, <2>6, <3>1, <3>2, <3>3 DEF ConsentInv, Granted
  <2>9. Agreed'
    <3>1. ASSUME At(p, "plan")', task'[p].reply = "yes" PROVE job'[p].agreed
      BY <1>4, <1>6, <2>5, <3>1 DEF ConsentInv, Agreed, At
    <3> QED
      BY <1>5, <2>3, <3>1 DEF ConsentInv, Agreed, At
  <2> QED
    BY <2>2, <2>4, <2>7, <2>8, <2>9 DEF ConsentInv
<1> QED
  BY <1>7, <1>8

LEMMA PermitsNow ==
    ASSUME ConsentInv, NEW p \in Prompts, Running(p)
    PROVE  PermitsOf(p)
BY DEF ConsentInv, Granted, PermitsOf

\* A run with a task that waits for nothing and was told nothing.
LEMMA FreeRunKeeps ==
    ASSUME ConsentInv, NEW p \in Prompts, Running(p), Free(p), task' = task, job' = job,
           plan' = plan, lock' = lock, cache' = cache, run' \in RunsOf, run'.of = run.of,
           run'.granted = run.granted, run'.refused = run.refused,
           \A c \in run'.used : c \in run.used \/ Allows(c)
    PROVE  ConsentInv'
<1>1. task[p].status # "none" /\ task[p].waits = "none" /\ task[p].reply = "none"
  BY DEF ConsentInv, Asked, Running, At, Free
<1>2. Runs(p)
  BY <1>1 DEF Runs, ConsentInv, AgentTypes, TasksOK, OthersTasks
<1>3. PermitsOf(p)'
  BY <1>1, PermitsNow DEF PermitsOf, Told, Answers, Allows
<1> QED
  BY <1>2, <1>3, RunsKeep

\* While a task waits for an answer, or has one it did not hear, its attempt is at the
\* action that asked.
LEMMA NotAsking ==
    ASSUME ConsentInv, NEW p \in Prompts, Running(p), ex.at # "act"
    PROVE  task[p].waits = "none" /\ task[p].reply = "none"
<1>1. \A c : ~ Asks(c)
  BY DEF Asks, Doing
<1>2. task[p].waits \in Topics \cup {"none"}
  BY DEF ConsentInv, AgentTypes, Tasks
<1>3. ~ InDialogue(p)
  BY TopicsAre DEF InDialogue, Running, At
<1> QED
  BY <1>1, <1>2, <1>3, TopicsAre DEF ConsentInv, Asked, InDialogue, At

LEMMA EndRunKeeps ==
    ASSUME ConsentInv, NEW p \in Prompts, Running(p), ex.at # "act",
           NEW status \in {"completed", "failed"}, EndRun(p, status), plan' = plan, cache' = cache
    PROVE  ConsentInv'
<1>1. TasksOK /\ JobsOK
  BY DEF ConsentInv, AgentTypes, TasksOK, JobsOK
<1>2. task[p].waits = "none"
  BY NotAsking
<1>3. /\ TasksOK' /\ OthersTasks(p) /\ task'[p].status # "none" /\ task'[p].waits = "none"
      /\ task'[p].reply = "none"
  BY <1>1, <1>2, BecomeIs DEF EndRun
<1>4. /\ JobsOK' /\ OthersJobs(p) /\ job'[p].at = "done"
      /\ job'[p].asks = job[p].asks /\ job'[p].agreed = job[p].agreed
  BY <1>1, GotoIs, TopicsAre DEF EndRun
<1>5. Ends(p)
  BY <1>3, <1>4 DEF Ends, EndRun
<1> QED
  BY <1>5, EndsKeep

LEMMA BeginAttemptKeeps ==
    ASSUME ConsentInv, NEW p \in Prompts, BeginAttempt(p)
    PROVE  ConsentInv'
<1>1. Running(p) /\ ex.at = "idle" /\ plan' = plan /\ cache' = cache
  BY DEF BeginAttempt
<1>2. CASE EndRun(p, "failed")
  BY <1>1, <1>2, EndRunKeeps
<1>3. CASE run' = [run EXCEPT !.attempt = @ + 1] /\ UNCHANGED <<lock, task, job>>
  <2>1. /\ run' \in RunsOf /\ run'.of = run.of /\ run'.granted = run.granted
        /\ run'.refused = run.refused /\ run'.used = run.used
    BY <1>3 DEF ConsentInv, AgentTypes, RunsOf
  <2>2. Free(p)
    BY <1>1, NotAsking DEF Free
  <2> QED
    BY <1>1, <1>3, <2>1, <2>2, FreeRunKeeps
<1> QED
  BY <1>2, <1>3 DEF BeginAttempt

LEMMA EndAttemptKeeps ==
    ASSUME ConsentInv, NEW p \in Prompts, EndAttempt(p)
    PROVE  ConsentInv'
<1>1. Running(p) /\ ex.at = "done" /\ plan' = plan /\ cache' = cache
  BY DEF EndAttempt
<1>2. CASE EndRun(p, "failed") \/ EndRun(p, "completed")
  BY <1>1, <1>2, EndRunKeeps
<1>3. CASE UNCHANGED <<task, job, lock, run>>
  <2>1. run \in RunsOf /\ Free(p)
    BY <1>1, NotAsking DEF ConsentInv, AgentTypes, Free
  <2> QED
    BY <1>1, <1>3, <2>1, FreeRunKeeps
<1> QED
  BY <1>2, <1>3 DEF EndAttempt

LEMMA SyncKeeps ==
    ASSUME ConsentInv, NEW p \in Prompts, SyncDelivered(p)
    PROVE  ConsentInv'
<1>1. /\ Running(p) /\ ex.at = "done" /\ run \in RunsOf
      /\ run' = [run EXCEPT !.synced = TRUE]
      /\ UNCHANGED <<task, job, plan, lock, cache>>
  BY DEF SyncDelivered, ConsentInv, AgentTypes, acp
<1>2. Free(p)
  BY <1>1, NotAsking DEF Free
<1>3. /\ run' \in RunsOf /\ run'.of = run.of /\ run'.granted = run.granted
      /\ run'.refused = run.refused /\ run'.used = run.used
  BY <1>1 DEF RunsOf
<1> QED
  BY <1>1, <1>2, <1>3, FreeRunKeeps

LEMMA ExecuteKeeps ==
    ASSUME ConsentInv, NEW p \in Prompts, Execute(p)
    PROVE  ConsentInv'
<1>1. Running(p) /\ Free(p) /\ task' = task /\ job' = job /\ lock' = lock /\ plan' = plan
  BY DEF Execute, acp
<1>2. cache' = cache /\ run \in RunsOf
  BY DEF Execute, ConsentInv, AgentTypes
<1>3. CASE run' = run
  BY <1>1, <1>2, <1>3, FreeRunKeeps
<1>4. ASSUME NEW c \in Capabilities, Reaches(c), run' = [run EXCEPT !.used = @ \cup {c}]
      PROVE  ConsentInv'
  <2>1. /\ run' \in RunsOf /\ run'.of = run.of /\ run'.granted = run.granted
        /\ run'.refused = run.refused /\ run'.used = run.used \cup {c}
    BY <1>2, <1>4 DEF RunsOf
  <2>2. Allows(c)
    BY <1>4 DEF Reaches
  <2> QED
    BY <1>1, <1>2, <2>1, <2>2, FreeRunKeeps
<1> QED
  BY <1>3, <1>4 DEF Execute

LEMMA AskPermissionKeeps ==
    ASSUME ConsentInv, NEW p \in Prompts, AskPermission(p)
    PROVE  ConsentInv'
<1>1. PICK c \in Capabilities : Asks(c) /\ Ask(p, c)
  BY DEF AskPermission
<1>2. /\ Running(p) /\ task[p].waits = "none" /\ task[p].reply = "none"
      /\ UNCHANGED <<cache, ex, job, lock, plan, run>> /\ TasksOK /\ c \in Topics /\ c # "none"
      /\ task[p].status # "none"
  BY TopicsAre
     DEF AskPermission, Free, work, project, ConsentInv, AgentTypes, TasksOK, Asked, Running, At
<1>3. /\ TasksOK' /\ OthersTasks(p)
      /\ task[p].status = "none" <=> task'[p].status = "none"
      /\ \/ /\ task'[p].waits = c /\ task'[p].reply = "none" /\ ~ IsCancelled(p)'
         \/ /\ task'[p].waits = "none" /\ task'[p].reply = "rejected"
  BY <1>1, <1>2, AskIs
<1>4. \A d : Asks(d)' = Asks(d)
  BY <1>2 DEF Asks, Doing, Decided
<1>5. Runs(p)
  BY <1>1, <1>2, <1>3, <1>4 DEF Runs, ConsentInv, AgentTypes
<1>6. PermitsOf(p)'
  BY <1>2, <1>3, <1>4, PermitsNow DEF PermitsOf, Told, Answers
<1> QED
  BY <1>5, <1>6, RunsKeep

LEMMA HearPermissionKeeps ==
    ASSUME ConsentInv, NEW p \in Prompts, HearPermission(p)
    PROVE  ConsentInv'
<1>1. PICK c \in Capabilities :
         /\ Asks(c)
         /\ IF task[p].reply = "rejected"
            THEN Finish("failure") /\ UNCHANGED cache
            ELSE Remember(c, Decision[task[p].reply]) /\ UNCHANGED ex
  BY DEF HearPermission
<1>2. /\ Running(p) /\ task[p].reply # "none" /\ UNCHANGED <<job, lock, plan, run>> /\ TasksOK
      /\ run \in RunsOf /\ cache \in [Capabilities -> Decisions \cup {"none"}]
      /\ task[p].waits = "none" /\ task[p].status # "none"
      /\ task[p].reply \in {"rejected"} \cup Answers
  BY DEF HearPermission, project, ConsentInv, AgentTypes, TasksOK, Asked, Running, At
<1>3. /\ TasksOK' /\ OthersTasks(p) /\ task'[p].status = task[p].status
      /\ task'[p].waits = "none" /\ task'[p].reply = "none"
  BY <1>2, TakeReplyIs DEF HearPermission
<1>4. /\ cache' \in [Capabilities -> Decisions \cup {"none"}]
      /\ \A d \in Capabilities : d # c => cache'[d] = cache[d]
      /\ \/ cache' = cache /\ task[p].reply = "rejected"
         \/ cache'[c] = "approved" /\ task[p].reply = "yes"
         \/ cache'[c] \in {"denied", "timed_out"}
  <2>1. CASE task[p].reply = "rejected"
    BY <1>1, <1>2, <2>1
  <2>2. CASE task[p].reply # "rejected"
    <3>1. /\ Decision[task[p].reply] \in Decisions
          /\ Decision[task[p].reply] = "approved" => task[p].reply = "yes"
      BY <1>2, <2>2 DEF Decision, Decisions, Answers
    <3>2. cache' = [cache EXCEPT ![c] = Decision[task[p].reply]]
      BY <1>1, <2>2 DEF Remember
    <3> QED
      BY <1>2, <3>1, <3>2 DEF Decisions
  <2> QED
    BY <2>1, <2>2
<1>5. Runs(p)
  BY <1>2, <1>3, <1>4 DEF Runs
<1>6. cache[c] = "none" /\ \A d \in Capabilities : Asks(d) => d = c
  BY <1>1 DEF Asks, Decided
<1>7. PermitsOf(p)
  BY <1>2, PermitsNow
<1>8. PermitsOf(p)'
  BY <1>1, <1>2, <1>3, <1>4, <1>6, <1>7 DEF PermitsOf, Told, Answers
<1> QED
  BY <1>5, <1>8, RunsKeep

\* Between the client's questions a build waits for nobody.
LEMMA Unasked ==
    ASSUME ConsentInv, NEW p \in Prompts, job[p].at \notin Questions \cup {"run", "new"}
    PROVE  /\ task[p].waits = "none" /\ task[p].reply = "none" /\ task[p].status # "none"
           /\ ~ Running(p)
<1>1. ~ Running(p) /\ ~ InDialogue(p) /\ ~ At(p, "new")
  BY DEF Running, InDialogue, At
<1>2. task[p].waits \in Topics \cup {"none"}
  BY DEF ConsentInv, AgentTypes, Tasks
<1> QED
  BY <1>1, <1>2, TopicsAre DEF ConsentInv, Asked, At, InDialogue

\* A build ends, or its task does.
LEMMA LeaveMoves ==
    ASSUME ConsentInv, NEW p \in Prompts, NEW status \in {"completed", "failed", "cancelled"},
           Become(p, status), Goto(p, "done"), ~ Running(p), task[p].waits = "none",
           lock' = lock \/ lock \in {"none", p}, plan' = plan \/ (plan' = p /\ At(p, "save")),
           UNCHANGED <<cache, ex, run>>
    PROVE  Move(p)
<1>1. TasksOK /\ JobsOK
  BY DEF ConsentInv, AgentTypes, TasksOK, JobsOK
<1>2. /\ TasksOK' /\ OthersTasks(p) /\ task'[p].status # "none" /\ task'[p].waits = "none"
      /\ task'[p].reply = "none"
  BY <1>1, BecomeIs
<1>3. /\ JobsOK' /\ OthersJobs(p) /\ job'[p].at = "done"
      /\ job'[p].asks = job[p].asks /\ job'[p].agreed = job[p].agreed
  BY <1>1, GotoIs, TopicsAre
<1> QED
  BY <1>2, <1>3, TopicsAre DEF Move

\* A task goes to another place, and nothing else happens to it.
LEMMA GoMoves ==
    ASSUME ConsentInv, NEW p \in Prompts, NEW place \in Places \ {"new", "run"},
           Goto(p, place), ~ Running(p), task[p].status # "none",
           task[p].waits = "none", task[p].reply = "none", task' = task,
           place \in Holding => lock' = p,
           place = "save" => (job[p].asks => job[p].agreed),
           place \in Holding => plan # p,
           lock' = lock \/ lock \in {"none", p}, plan' = plan \/ (plan' = p /\ At(p, "save")),
           plan' = p => place \in {"built", "load", "done"},
           UNCHANGED <<cache, ex, run>>
    PROVE  Move(p)
<1>1. TasksOK /\ JobsOK
  BY DEF ConsentInv, AgentTypes, TasksOK, JobsOK
<1>2. TasksOK' /\ OthersTasks(p)
  BY <1>1 DEF TasksOK, OthersTasks
<1>3. /\ JobsOK' /\ OthersJobs(p) /\ job'[p].at = place
      /\ job'[p].asks = job[p].asks /\ job'[p].agreed = job[p].agreed
  BY <1>1, GotoIs
<1> QED
  BY <1>2, <1>3 DEF Move

LEMMA BuildMoves ==
    ASSUME ConsentInv, NEW p \in Prompts,
           BeginBuild(p) \/ Decompose(p) \/ SavePlan(p) \/ Built(p)
    PROVE  Move(p)
<1>1. /\ job[p].at \in {"begin", "decompose", "save", "built"}
      /\ UNCHANGED <<cache, ex, run>>
  BY DEF BeginBuild, Decompose, SavePlan, Built, At, work, project, acp
<1>2. /\ job[p].at \notin Questions \cup {"run", "new"}
      /\ job[p].at \in {"decompose", "save"} => job[p].at \in Holding /\ lock = p
  BY <1>1 DEF Questions, Holding, Building, ConsentInv, Held
<1>3. /\ task[p].waits = "none" /\ task[p].reply = "none" /\ task[p].status # "none"
      /\ ~ Running(p)
  BY <1>2, Unasked
<1>4. job[p].at # "built" => plan # p
  BY <1>1 DEF ConsentInv, Agreed
<1>5. {"questions", "decompose", "phases", "steps", "built", "load"} \subseteq Places \ {"new", "run"}
  BY DEF Places, Holding, Building
<1>6. CASE BeginBuild(p)
  <2>1. CASE lock = "none"
    BY <1>1, <1>3, <1>4, <1>5, <1>6, <2>1, GoMoves DEF BeginBuild, At
  <2>2. CASE lock # "none"
    BY <1>1, <1>3, <1>6, <2>2, LeaveMoves DEF BeginBuild, Fail
  <2> QED
    BY <2>1, <2>2
<1>7. CASE Decompose(p)
  BY <1>1, <1>2, <1>3, <1>4, <1>5, <1>7, GoMoves DEF Decompose, At, acp, project
<1>8. CASE SavePlan(p)
  <2>1. CASE Goto(p, "built") /\ UNCHANGED task
    BY <1>1, <1>2, <1>3, <1>5, <1>8, <2>1, TopicsAre, GoMoves DEF SavePlan, At
  <2>2. CASE Fail(p)
    BY <1>1, <1>2, <1>3, <1>8, <2>2, LeaveMoves DEF SavePlan, At, Fail
  <2> QED
    BY <1>8, <2>1, <2>2 DEF SavePlan
<1>9. CASE Built(p)
  <2>1. UNCHANGED <<lock, plan>>
    BY <1>9 DEF Built, project
  <2>2. CASE Become(p, "failed") /\ Goto(p, "done")
    BY <1>1, <1>3, <2>1, <2>2, LeaveMoves
  <2>3. CASE Become(p, "completed") /\ Goto(p, "done")
    BY <1>1, <1>3, <2>1, <2>3, LeaveMoves
  <2>4. CASE Goto(p, "load") /\ UNCHANGED task
    BY <1>1, <1>3, <1>5, <2>1, <2>4, TopicsAre, GoMoves
  <2> QED
    BY <1>9, <2>2, <2>3, <2>4 DEF Built, Fail
<1> QED
  BY <1>6, <1>7, <1>8, <1>9

LEMMA HearPlannerMoves ==
    ASSUME ConsentInv, NEW p \in Prompts, HearPlanner(p)
    PROVE  Move(p)
<1>1. /\ job[p].at \in {"questions", "phases", "steps"}
      /\ UNCHANGED <<cache, ex, run, plan>>
  BY DEF HearPlanner, Plans
<1>2. /\ job[p].at \notin Questions \cup {"run", "new"}
      /\ job[p].at \in Holding /\ lock = p /\ plan # p
  BY <1>1 DEF Questions, Holding, Building, ConsentInv, Held, Agreed
<1>3. /\ task[p].waits = "none" /\ task[p].reply = "none" /\ task[p].status # "none"
      /\ ~ Running(p)
  BY <1>2, Unasked
<1>4. CASE LeaveBuild(p, "failed")
  BY <1>1, <1>2, <1>3, <1>4, LeaveMoves DEF LeaveBuild
<1>5. ASSUME NEW next \in Planned(p), next # "invalid",
             job' = [job EXCEPT ![p].at = next, ![p].tries = 0], UNCHANGED <<lock, task>>
      PROVE  Move(p)
  <2>1. /\ next \in {"clarify", "addenda", "steps", "plan", "save"}
        /\ next = "save" => ~ job[p].asks
    BY <1>1, <1>5 DEF Planned, At
  <2>2. next \in Holding /\ next \in Places
    BY <2>1 DEF Holding, Building, Questions, Places
  <2>3. /\ JobsOK' /\ OthersJobs(p) /\ job'[p].at = next
        /\ job'[p].asks = job[p].asks /\ job'[p].agreed = job[p].agreed
    BY <1>5, <2>2 DEF ConsentInv, AgentTypes, JobsOK, OthersJobs, Tasking
  <2>4. TasksOK' /\ OthersTasks(p)
    BY <1>5 DEF ConsentInv, AgentTypes, TasksOK, OthersTasks
  <2> QED
    BY <1>1, <1>2, <1>3, <1>5, <2>1, <2>2, <2>3, <2>4 DEF Move
<1>6. CASE Repairs(p)
  <2>1. job' = [job EXCEPT ![p].tries = job[p].tries + 1] /\ UNCHANGED <<lock, task>>
    BY <1>6 DEF Repairs
  <2>2. /\ JobsOK' /\ OthersJobs(p) /\ job'[p].at = job[p].at
        /\ job'[p].asks = job[p].asks /\ job'[p].agreed = job[p].agreed
    BY <2>1 DEF ConsentInv, AgentTypes, JobsOK, OthersJobs, Tasking
  <2>3. TasksOK' /\ OthersTasks(p)
    BY <2>1 DEF ConsentInv, AgentTypes, TasksOK, OthersTasks
  <2> QED
    BY <1>1, <1>2, <1>3, <2>1, <2>2, <2>3 DEF Move
<1> QED
  BY <1>4, <1>5, <1>6 DEF HearPlanner, GivesUp

LEMMA HearClientMoves ==
    ASSUME ConsentInv, NEW p \in Prompts, HearClient(p)
    PROVE  Move(p)
<1>1. /\ job[p].at \in Questions /\ task[p].reply # "none"
      /\ UNCHANGED <<cache, ex, run, plan>> /\ TasksOK /\ JobsOK
  BY DEF HearClient, InDialogue, work, ConsentInv, AgentTypes, TasksOK, JobsOK
<1>2. /\ job[p].at \in Holding /\ lock = p /\ plan # p /\ ~ Running(p)
      /\ task[p].waits = "none" /\ task[p].status # "none"
      /\ task[p].reply \in {"rejected"} \cup DOMAIN After[job[p].at]
  <2>1. job[p].at \in Holding /\ lock = p /\ ~ Running(p) /\ InDialogue(p)
    BY <1>1, TopicsAre DEF ConsentInv, Held, Running, At, InDialogue
  <2>2. plan # p
    BY <1>1 DEF ConsentInv, Agreed, Questions
  <2>3. job[p].at # "new"
    BY <1>1 DEF Questions
  <2> QED
    BY <1>1, <2>1, <2>2, <2>3 DEF ConsentInv, Asked, At
<1> DEFINE next == IF task[p].reply = "rejected" THEN "failed" ELSE After[job[p].at][task[p].reply]
<1>3. /\ next \in Questions \cup {"decompose", "save", "failed", "rejected"}
      /\ next = "save" => job[p].at = "plan" /\ task[p].reply = "yes"
  BY <1>1, <1>2, AfterIs
<1>4. /\ next = "failed" => LeaveBuild(p, "failed")
      /\ next = "rejected" => LeaveBuild(p, "cancelled")
      /\ next \notin {"failed", "rejected"} => Goto(p, next) /\ TakeReply(p) /\ UNCHANGED lock
  BY DEF HearClient
<1> HIDE DEF next
<1>5. CASE next \in {"failed", "rejected"}
  BY <1>1, <1>2, <1>4, <1>5, LeaveMoves DEF LeaveBuild
<1>6. CASE next \notin {"failed", "rejected"}
  <2>1. next \in Holding /\ next \in Places /\ next \notin {"new", "run"}
    BY <1>3, <1>6 DEF Questions, Holding, Building, Places
  <2>2. next = "save" => (job[p].asks => job[p].agreed)
    BY <1>3 DEF ConsentInv, Agreed, At
  <2>3. /\ JobsOK' /\ OthersJobs(p) /\ job'[p].at = next
        /\ job'[p].asks = job[p].asks /\ job'[p].agreed = job[p].agreed
    BY <1>1, <1>4, <1>6, <2>1, GotoIs
  <2>4. /\ TasksOK' /\ OthersTasks(p) /\ task'[p].status = task[p].status
        /\ task'[p].waits = "none" /\ task'[p].reply = "none"
    BY <1>1, <1>2, <1>4, <1>6, TakeReplyIs
  <2> QED
    BY <1>1, <1>2, <1>4, <1>6, <2>1, <2>2, <2>3, <2>4 DEF Move
<1> QED
  BY <1>5, <1>6

LEMMA AskClientKeeps ==
    ASSUME ConsentInv, NEW p \in Prompts, AskClient(p)
    PROVE  ConsentInv'
<1> DEFINE topic == job[p].at
<1>1. /\ topic \in Questions /\ topic \in Topics /\ task[p].waits = "none" /\ task[p].reply = "none"
      /\ UNCHANGED <<cache, ex, job, lock, plan, run>> /\ TasksOK /\ ~ Running(p)
      /\ topic # "none" /\ topic \notin Capabilities
  BY TopicsAre
     DEF AskClient, InDialogue, Free, work, project, ConsentInv, AgentTypes, TasksOK, Running, At
<1>2. /\ TasksOK' /\ OthersTasks(p)
      /\ task[p].status = "none" <=> task'[p].status = "none"
      /\ \/ /\ task'[p].waits = topic /\ task'[p].reply = "none" /\ ~ IsCancelled(p)'
         \/ /\ task'[p].waits = "none" /\ task'[p].reply = "rejected"
  BY <1>1, AskIs DEF AskClient
<1>3. \A q \in Prompts : q # p => task'[q] = task[q]
  BY <1>2 DEF OthersTasks
<1>4. AgentTypes'
  BY <1>1, <1>2 DEF ConsentInv, AgentTypes, TasksOK
<1>5. Held'
  BY <1>1 DEF ConsentInv, Held, Running, At
<1>6. Asked'
  BY <1>1, <1>2, <1>3, TopicsAre
     DEF ConsentInv, Asked, Running, InDialogue, At, Asks, Doing, Decided, IsCancelled
<1>7. Granted'
  BY <1>1, <1>3 DEF ConsentInv, Granted, Running, At, Told, Asks, Doing, Decided
<1>8. Agreed'
  BY <1>1, <1>2, <1>3 DEF ConsentInv, Agreed, At
<1> QED
  BY <1>4, <1>5, <1>6, <1>7, <1>8 DEF ConsentInv

LEMMA LoadKeeps ==
    ASSUME ConsentInv, NEW p \in Prompts, Load(p)
    PROVE  ConsentInv'
<1>1. job[p].at = "load" /\ UNCHANGED <<ex, plan>> /\ job[p].at \notin Questions \cup {"run", "new"}
  BY DEF Load, At, Questions
<1>2. /\ task[p].waits = "none" /\ task[p].reply = "none" /\ task[p].status # "none"
      /\ ~ Running(p)
  BY <1>1, Unasked
<1>3. CASE Fail(p) /\ UNCHANGED <<lock, run, cache>>
  <2>1. Move(p)
    BY <1>1, <1>2, <1>3, LeaveMoves DEF Fail
  <2> QED
    BY <2>1, MoveKeeps
<1>4. ASSUME lock = "none", lock' = p, Goto(p, "run"), Forget, run' = [NoRun EXCEPT !.of = p],
             UNCHANGED <<task>>
      PROVE  ConsentInv'
  <2>1. /\ lock' = p /\ Goto(p, "run") /\ cache' = Undecided /\ task' = task
        /\ run' = [NoRun EXCEPT !.of = p]
    BY <1>4 DEF Forget
  <2>2. /\ JobsOK' /\ OthersJobs(p) /\ job'[p].at = "run"
        /\ job'[p].asks = job[p].asks /\ job'[p].agreed = job[p].agreed
    BY <2>1, GotoIs, TopicsAre DEF ConsentInv, AgentTypes, JobsOK
  <2>3. /\ run' \in RunsOf /\ run'.of = p /\ run'.granted = {} /\ run'.refused = {} /\ run'.used = {}
    BY <2>1 DEF NoRun, RunsOf
  <2>4. cache' \in [Capabilities -> Decisions \cup {"none"}] /\ \A c \in Capabilities : cache'[c] = "none"
    BY <2>1 DEF Undecided
  <2>5. \A q \in Prompts : q # p =>
            /\ job'[q] = job[q] /\ job[q].at \notin Holding
            /\ task[q].waits = "none" /\ task[q].reply = "none" /\ ~ Running(q) /\ ~ InDialogue(q)
    <3>1. \A q \in Prompts : job[q].at \notin Holding
      BY <1>4, AgentAssumption DEF ConsentInv, Held
    <3> QED
      BY <2>2, <3>1, Alone DEF OthersJobs
  <2>6. AgentTypes'
    BY <2>1, <2>2, <2>3, <2>4 DEF ConsentInv, AgentTypes, JobsOK
  <2>7. Running(p)' /\ ~ InDialogue(p)' /\ ~ At(p, "plan")' /\ ~ At(p, "save")'
    BY <2>2, TopicsAre DEF Running, InDialogue, At
  <2>8. Held'
    BY <2>1, <2>2, <2>3, <2>5, <2>7 DEF Held, Running, At
  <2>9. Asked'
    BY <1>2, <2>1, <2>5, <2>7, TopicsAre DEF ConsentInv, Asked, Running, InDialogue, At, Answers
  <2>10. Granted'
    BY <1>2, <2>1, <2>3, <2>4, <2>5, <2>7 DEF Granted, Running, At, Told, Answers
  <2>11. Agreed'
    BY <1>1, <2>2, <2>5, <2>7, TopicsAre, <2>1 DEF ConsentInv, Agreed, At
  <2> QED
    BY <2>6, <2>8, <2>9, <2>10, <2>11 DEF ConsentInv
<1> QED
  BY <1>3, <1>4 DEF Load

\* What the session, the lock or the chat does on its own.
LEMMA AsideKeeps ==
    ASSUME ConsentInv, UNCHANGED <<cache, ex, task, job, plan, run>>,
           lock' = lock \/ lock \in {"none", "another"}
    PROVE  ConsentInv'
<1>1. \A p \in Prompts : lock = p => lock' = p
  BY AgentAssumption
<1>2. Held'
  BY <1>1 DEF ConsentInv, Held, Running, At
<1> QED
  BY <1>2 DEF ConsentInv, AgentTypes, Asked, Granted, Agreed, Running, InDialogue, At, Told, Asks,
              Doing, Decided, IsCancelled

LEMMA ConsentStep ==
    ASSUME ConsentInv, [Next]_vars
    PROVE  ConsentInv'
<1>1. CASE UNCHANGED vars
  BY <1>1, AsideKeeps DEF vars
<1>2. ASSUME NEW s \in Sessions,
             NewSession(s) \/ Close(s) \/ \E p \in Prompts : Prompt(p, s)
      PROVE  ConsentInv'
  <2>1. CASE NewSession(s)
    BY <2>1, AsideKeeps DEF NewSession, CreateSession, work, project
  <2>2. CASE Close(s)
    BY <2>2, CloseRejects, RejectsKeep
  <2> QED
    BY <1>2, <2>1, <2>2, PromptKeeps
<1>3. ASSUME NEW p \in Prompts, TaskStep(p) PROVE ConsentInv'
  <2>1. CASE BeginBuild(p) \/ Decompose(p) \/ SavePlan(p) \/ Built(p)
    BY <2>1, BuildMoves, MoveKeeps
  <2>2. CASE AskPlanner(p) \/ Chat(p)
    BY <2>2, AsideKeeps DEF AskPlanner, Chat, acp, project
  <2>3. CASE HearPlanner(p) \/ HearClient(p)
    BY <2>3, HearPlannerMoves, HearClientMoves, MoveKeeps
  <2>4. CASE AskClient(p) \/ Load(p)
    BY <2>4, AskClientKeeps, LoadKeeps
  <2>5. CASE BeginAttempt(p) \/ Execute(p) \/ SyncDelivered(p) \/ EndAttempt(p)
    BY <2>5, BeginAttemptKeeps, ExecuteKeeps, SyncKeeps, EndAttemptKeeps
  <2>6. CASE AskPermission(p) \/ HearPermission(p)
    BY <2>6, AskPermissionKeeps, HearPermissionKeeps
  <2> QED
    BY <1>3, <2>1, <2>2, <2>3, <2>4, <2>5, <2>6 DEF TaskStep
<1>4. ASSUME NEW p \in Prompts, CancelTask(p) \/ PermissionTimesOut(p) PROVE ConsentInv'
  BY <1>4, CancelRejects, RejectsKeep, TimesOutKeeps
<1>5. CASE Elsewhere
  BY <1>5, AsideKeeps DEF Elsewhere, work, acp
<1> QED
  BY <1>1, <1>2, <1>3, <1>4, <1>5, AnswerKeeps DEF Next

LEMMA ConsentKept == Spec => []ConsentInv
BY InitConsent, ConsentStep, PTL DEF Spec

LEMMA ConsentIs == ConsentInv => ToolConsent
<1> SUFFICES ASSUME ConsentInv PROVE ToolConsent
  OBVIOUS
<1>1. run.used \subseteq Capabilities
  BY DEF ConsentInv, AgentTypes, RunsOf
<1>2. run.used \subseteq run.granted /\ run.used \cap run.refused = {}
  <2>1. CASE run = NoRun
    BY <2>1 DEF NoRun
  <2>2. CASE \E p \in Prompts : Running(p)
    BY <1>1, <2>2 DEF ConsentInv, Granted
  <2> QED
    BY <2>1, <2>2 DEF ConsentInv, Held
<1>3. \A p \in Prompts : plan = p /\ job[p].asks => job[p].agreed
  BY DEF ConsentInv, Agreed
<1> QED
  BY <1>2, <1>3 DEF ToolConsent

\* Whoever the project is built and run for, and whatever times out, is cancelled, rejected or
\* answered too late: the tools of an attempt fetch, and install what they declare, only as
\* was allowed in that run and not refused, and the plan of a prompt that wants to be asked is
\* one its client agreed to.  The environments the program builds itself, at the start of a
\* run and when a manifest is delivered, ask nobody; the theorem is not about them.
THEOREM ToolsHaveConsent == Spec => []ToolConsent
BY ConsentKept, ConsentIs, PTL

-----------------------------------------------------------------------------
(* What was cancelled stays cancelled.                                      *)

\* What a task's own step does to a task.
TaskEffect(p) ==
    \/ task' = task
    \/ TakeReply(p)
    \/ \E status \in {"completed", "failed", "cancelled"} : Become(p, status)
    \/ \E topic \in Topics : Ask(p, topic)

LEMMA TaskEffects ==
    ASSUME ConsentInv, NEW p \in Prompts, TaskStep(p)
    PROVE  TaskEffect(p)
<1>1. CASE BeginBuild(p) \/ Decompose(p) \/ SavePlan(p) \/ Built(p) \/ Load(p)
  BY <1>1 DEF TaskEffect, BeginBuild, Decompose, SavePlan, Built, Load, Fail, acp
<1>2. CASE AskPlanner(p) \/ Chat(p) \/ HearPlanner(p)
  BY <1>2 DEF TaskEffect, AskPlanner, Chat, HearPlanner, Repairs, GivesUp, LeaveBuild, acp
<1>3. CASE HearClient(p)
  BY <1>3 DEF TaskEffect, HearClient, LeaveBuild
<1>4. CASE AskClient(p) \/ AskPermission(p)
  BY <1>4, TopicsAre DEF TaskEffect, AskClient, AskPermission, InDialogue
<1>5. CASE BeginAttempt(p) \/ Execute(p) \/ SyncDelivered(p) \/ EndAttempt(p) \/ HearPermission(p)
  BY <1>5 DEF TaskEffect, BeginAttempt, Execute, SyncDelivered, EndAttempt, HearPermission, EndRun, acp
<1> QED
  BY <1>1, <1>2, <1>3, <1>4, <1>5 DEF TaskStep

LEMMA CancelledTask ==
    ASSUME ConsentInv, [Next]_vars, NEW p \in Prompts, IsCancelled(p)
    PROVE  /\ task'[p].status = task[p].status \/ task'[p].status = "cancelled"
           /\ task'[p].waits = "none"
<1>1. TasksOK /\ task[p].waits = "none" /\ task[p].status # "none"
  BY DEF ConsentInv, AgentTypes, TasksOK, Asked, IsCancelled
<1>2. CASE task' = task
  BY <1>1, <1>2
<1>3. ASSUME NEW q \in Prompts, TaskStep(q)
      PROVE  /\ task'[p].status = task[p].status \/ task'[p].status = "cancelled"
             /\ task'[p].waits = "none"
  <2>1. CASE TakeReply(q)
    BY <1>1, <2>1, TakeReplyIs DEF OthersTasks
  <2>2. ASSUME NEW status \in {"completed", "failed", "cancelled"}, Become(q, status)
        PROVE  /\ task'[p].status = task[p].status \/ task'[p].status = "cancelled"
               /\ task'[p].waits = "none"
    BY <1>1, <2>2, BecomeIs DEF OthersTasks
  <2>3. ASSUME NEW topic \in Topics, Ask(q, topic)
        PROVE  /\ task'[p].status = task[p].status \/ task'[p].status = "cancelled"
               /\ task'[p].waits = "none"
    BY <1>1, <2>3, AskIs DEF OthersTasks
  <2> QED
    BY <1>2, <1>3, <2>1, <2>2, <2>3, TaskEffects DEF TaskEffect
<1>4. ASSUME NEW q \in Prompts, CancelTask(q)
      PROVE  /\ task'[p].status = task[p].status \/ task'[p].status = "cancelled"
             /\ task'[p].waits = "none"
  <2>1. q = p => task[p].status = "cancel_requested"
    BY <1>4 DEF CancelTask, Cancel, Live, IsCancelled
  <2> QED
    BY <1>1, <1>4, <2>1, CancelRejects DEF OthersTasks
<1>5. ASSUME NEW q \in Prompts, PermissionTimesOut(q)
      PROVE  /\ task'[p].status = task[p].status \/ task'[p].status = "cancelled"
             /\ task'[p].waits = "none"
  <2>1. task' = [task EXCEPT ![q].waits = "none", ![q].reply = "late"]
    BY <1>5 DEF PermissionTimesOut, TimesOut
  <2> QED
    BY <1>1, <2>1 DEF TasksOK, Tasks
<1>6. ASSUME NEW q \in Prompts, NEW topic \in Topics, AnswerRequest(q, topic)
      PROVE  /\ task'[p].status = task[p].status \/ task'[p].status = "cancelled"
             /\ task'[p].waits = "none"
  <2>1. PICK value \in ValuesFor(topic) : Respond(q, topic, value)
    BY <1>6 DEF AnswerRequest
  <2>2. value \in Replies
    BY TopicsAre, AfterIs DEF ValuesFor, Replies
  <2>3. /\ OthersTasks(q)
        /\ task'[q].waits = "none" \/ task'[q].waits = task[q].waits
    BY <1>1, <2>1, <2>2, RespondIs
  <2>4. task'[p].status = task[p].status
    <3>1. task[p].status # Waiting(topic)
      BY DEF IsCancelled, Waiting
    <3> QED
      BY <1>1, <2>1, <3>1 DEF Respond, TasksOK, Tasks
  <2> QED
    BY <1>1, <2>3, <2>4 DEF OthersTasks
<1>7. ASSUME NEW q \in Prompts, NEW s \in Sessions, Prompt(q, s)
      PROVE  /\ task'[p].status = task[p].status \/ task'[p].status = "cancelled"
             /\ task'[p].waits = "none"
  BY <1>1, <1>7 DEF Prompt, CreateTask, TasksOK
<1>8. ASSUME NEW s \in Sessions, Close(s)
      PROVE  /\ task'[p].status = task[p].status \/ task'[p].status = "cancelled"
             /\ task'[p].waits = "none"
  BY <1>1, <1>8, CloseRejects
<1>9. CASE UNCHANGED vars \/ Elsewhere \/ \E s \in Sessions : NewSession(s)
  BY <1>2, <1>9 DEF vars, Elsewhere, NewSession, CreateSession, acp
<1> QED
  BY <1>3, <1>4, <1>5, <1>6, <1>7, <1>8, <1>9 DEF Next

LEMMA CancelledJob ==
    ASSUME ConsentInv, [Next]_vars, NEW p \in Prompts, IsCancelled(p), job'[p].at = "load"
    PROVE  At(p, "load")
<1>1. JobsOK
  BY DEF ConsentInv, AgentTypes, JobsOK
<1>2. CASE job' = job
  BY <1>2 DEF At
<1>3. ASSUME NEW q \in Prompts, NEW place, Goto(q, place), place # "load"
      PROVE  At(p, "load")
  BY <1>1, <1>3 DEF Goto, JobsOK, Tasking, At
<1>4. ASSUME NEW q \in Prompts, TaskStep(q), ~ Built(q) PROVE At(p, "load")
  <2>1. CASE BeginBuild(q) \/ Decompose(q) \/ SavePlan(q) \/ Load(q)
    <3>1. \E place \in {"questions", "decompose", "done", "phases", "steps", "built", "run"} :
             Goto(q, place)
      BY <2>1 DEF BeginBuild, Decompose, SavePlan, Load, Fail
    <3> QED
      BY <1>3, <3>1
  <2>2. CASE HearPlanner(q)
    <3>1. CASE LeaveBuild(q, "failed")
      BY <1>3, <3>1 DEF LeaveBuild
    <3>2. CASE Repairs(q)
      BY <1>1, <3>2 DEF Repairs, JobsOK, Tasking, At
    <3>3. ASSUME NEW next \in Planned(q), next # "invalid",
                 job' = [job EXCEPT ![q].at = next, ![q].tries = 0]
          PROVE  At(p, "load")
      <4>1. next # "load"
        BY <2>2, <3>3 DEF Planned, HearPlanner, Plans, At
      <4> QED
        BY <1>1, <3>3, <4>1 DEF JobsOK, Tasking, At
    <3> QED
      BY <2>2, <3>1, <3>2, <3>3 DEF HearPlanner, GivesUp
  <2>3. CASE HearClient(q)
    <3> DEFINE next == IF task[q].reply = "rejected" THEN "failed"
                       ELSE After[job[q].at][task[q].reply]
    <3>1. job[q].at \in Questions /\ task[q].reply \in {"rejected"} \cup DOMAIN After[job[q].at]
      BY <2>3 DEF HearClient, InDialogue, ConsentInv, Asked
    <3>2. next \in Questions \cup {"decompose", "save", "failed", "rejected"}
      BY <3>1, AfterIs
    <3>3. next # "load"
      BY <3>2 DEF Questions
    <3>4. Goto(q, "done") \/ Goto(q, next)
      BY <2>3 DEF HearClient, LeaveBuild
    <3> QED
      BY <1>3, <3>3, <3>4
  <2>4. CASE BeginAttempt(q) \/ EndAttempt(q)
    <3>1. job' = job \/ Goto(q, "done")
      BY <2>4 DEF BeginAttempt, EndAttempt, EndRun
    <3> QED
      BY <1>2, <1>3, <3>1
  <2>5. CASE AskPlanner(q) \/ Chat(q) \/ AskClient(q) \/ Execute(q) \/ AskPermission(q)
             \/ HearPermission(q) \/ SyncDelivered(q)
    BY <1>2, <2>5 DEF AskPlanner, Chat, AskClient, Execute, AskPermission, HearPermission, SyncDelivered
  <2> QED
    BY <1>4, <2>1, <2>2, <2>3, <2>4, <2>5 DEF TaskStep
<1>5. ASSUME NEW q \in Prompts, Built(q) PROVE At(p, "load")
  <2>1. CASE q = p
    BY <1>3, <1>5, <2>1 DEF Built, Fail
  <2>2. CASE q # p
    <3>1. \E place : Goto(q, place)
      BY <1>5 DEF Built, Fail
    <3> QED
      BY <1>1, <2>2, <3>1 DEF Goto, JobsOK, Tasking, At
  <2> QED
    BY <2>1, <2>2
<1>6. ASSUME NEW q \in Prompts, NEW topic \in Topics, AnswerRequest(q, topic) PROVE At(p, "load")
  BY <1>1, <1>6 DEF AnswerRequest, Says, JobsOK, Tasking, At
<1>7. ASSUME NEW q \in Prompts, NEW s \in Sessions, Prompt(q, s) PROVE At(p, "load")
  <2>1. PICK asks \in BOOLEAN, auto \in BOOLEAN :
           job' = [job EXCEPT ![q] = [NoJob EXCEPT !.at = "begin", !.asks = asks, !.auto = auto]]
    BY <1>7 DEF Prompt
  <2> QED
    BY <1>1, <2>1 DEF NoJob, JobsOK, At
<1>8. CASE UNCHANGED vars \/ Elsewhere \/ (\E s \in Sessions : NewSession(s) \/ Close(s))
          \/ \E q \in Prompts : CancelTask(q) \/ PermissionTimesOut(q)
  BY <1>2, <1>8 DEF vars, Elsewhere, NewSession, Close, CancelTask, PermissionTimesOut
<1> QED
  BY <1>4, <1>5, <1>6, <1>7, <1>8 DEF Next

LEMMA CancelledRun ==
    ASSUME ConsentInv, [Next]_vars, NEW p \in Prompts, IsCancelled(p), run.of = p, run'.of = p
    PROVE  run'.granted \subseteq run.granted
<1>1. run \in RunsOf /\ task[p].waits = "none"
  BY DEF ConsentInv, AgentTypes, Asked
<1>2. CASE run' = run
  BY <1>2
<1>3. CASE run' = NoRun
  BY <1>3 DEF NoRun
<1>4. ASSUME NEW q \in Prompts, TaskStep(q) PROVE run'.granted \subseteq run.granted
  <2>1. CASE Load(q)
    <3>1. run' = run \/ run' = [NoRun EXCEPT !.of = q]
      BY <2>1 DEF Load
    <3> QED
      BY <3>1 DEF NoRun
  <2>2. CASE BeginAttempt(q)
    BY <1>1, <1>3, <2>2 DEF BeginAttempt, EndRun, RunsOf
  <2>3. CASE Execute(q)
    BY <1>1, <2>3 DEF Execute, RunsOf
  <2>4. CASE EndAttempt(q)
    BY <1>2, <1>3, <2>4 DEF EndAttempt, EndRun
  <2>6. CASE SyncDelivered(q)
    BY <1>1, <2>6 DEF SyncDelivered, RunsOf
  <2>5. CASE ~ (Load(q) \/ BeginAttempt(q) \/ Execute(q) \/ SyncDelivered(q) \/ EndAttempt(q))
    BY <1>2, <1>4, <2>5
       DEF TaskStep, BeginBuild, Decompose, AskPlanner, HearPlanner, AskClient, HearClient,
           SavePlan, Built, AskPermission, HearPermission, Chat, project
  <2> QED
    BY <2>1, <2>2, <2>3, <2>4, <2>5, <2>6
<1>5. ASSUME NEW q \in Prompts, NEW topic \in Topics, AnswerRequest(q, topic)
      PROVE  run'.granted \subseteq run.granted
  <2>1. PICK value \in ValuesFor(topic) : Says(q, topic, value)
    BY <1>5 DEF AnswerRequest
  <2>2. ~ (task[q].waits = topic /\ topic \in Capabilities)
    BY <1>1, TopicsAre DEF ConsentInv, Asked, Held
  <2>3. run'.granted = run.granted
    BY <1>1, <2>1, <2>2 DEF Says, RunsOf
  <2> QED
    BY <2>3
<1>6. ASSUME NEW q \in Prompts, PermissionTimesOut(q) PROVE run'.granted \subseteq run.granted
  BY <1>1, <1>6 DEF PermissionTimesOut, RunsOf
<1>7. CASE UNCHANGED vars \/ Elsewhere
          \/ (\E s \in Sessions : NewSession(s) \/ Close(s) \/ \E q \in Prompts : Prompt(q, s))
          \/ \E q \in Prompts : CancelTask(q)
  BY <1>2, <1>7 DEF vars, Elsewhere, NewSession, Close, Prompt, CancelTask, project
<1> QED
  BY <1>4, <1>5, <1>6, <1>7 DEF Next

\* Once it is cancelled a task starts no run, waits for nobody, is allowed nothing more, and
\* ends as cancelled; whatever answers, timeouts and other prompts come in between.
THEOREM CancellationHolds == Spec => CancelHolds
<1>1. ASSUME ConsentInv, [Next]_vars
      PROVE  [\A p \in Prompts : IsCancelled(p) =>
                /\ task'[p].status = task[p].status \/ task'[p].status = "cancelled"
                /\ job'[p].at = "load" => At(p, "load")
                /\ task'[p].waits = "none"
                /\ run.of = p /\ run'.of = p => run'.granted \subseteq run.granted]_vars
  BY <1>1, CancelledTask, CancelledJob, CancelledRun
<1> QED
  BY <1>1, ConsentKept, PTL DEF Spec, CancelHolds

=============================================================================
