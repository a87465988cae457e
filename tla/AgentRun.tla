------------------------------ MODULE AgentRun ------------------------------
(***************************************************************************)
(* What becomes of a client's prompt (runCodeTask in src/acp/server.ts):   *)
(* the project is built, with the client's say on what will be done, and   *)
(* run, with its say on what may leave the project.  Build and run each    *)
(* hold the project lock; in between, another prompt may have it.          *)
(*                                                                         *)
(* The run is one Step, tried a bounded number of times: what its tickets  *)
(* become is in TicketLifecycle and CorrectiveFlow, where its files go in  *)
(* ProjectRun.                                                             *)
(***************************************************************************)
EXTENDS StepExecutor, AcpSession

CONSTANTS
    MaxAttempts     \* the attempts a Step is given

ASSUME AgentAssumption ==
    /\ MaxAttempts \in Nat \ {0}
    /\ {"none", "another"} \cap Prompts = {}

VARIABLES
    job,            \* of each prompt, how far its task is, and whether the client agreed
    lock,           \* the prompt whose build or run holds the project, or another process
    plan,           \* the prompt whose build wrote the plan
    run             \* the run under way; and what the client said to it

vars == <<chat, cache, ex, session, task, held, known, job, lock, plan, run>>
work == <<chat, cache, ex>>
project == <<lock, plan, run>>

\* From one of the client's replies to what the build does next.
After ==
    [clarify |-> [yes |-> "addenda", no |-> "failed"],
     addenda |-> [yes |-> "addendaText", no |-> "topic"],
     addendaText |-> [yes |-> "topic", no |-> "failed"],
     topic |-> [yes |-> "decompose", no |-> "decompose", edit |-> "topicText",
                cancel |-> "rejected"],
     topicText |-> [yes |-> "decompose", no |-> "failed"],
     plan |-> [yes |-> "save", no |-> "rejected"]]

NoJob == [at |-> "new", asks |-> FALSE, auto |-> FALSE, agreed |-> FALSE, tries |-> 0]

\* What the planner is given to get one answer right: three attempts if the project is
\* not trivial or not new, else two.
RepairLimits == {2, 3}
\* Of a run: what its client allowed it, what he refused or let pass, what the tools of its
\* attempts did, and whether a delivery has installed what its manifest declares.
NoRun == [of |-> "none", attempt |-> 0, granted |-> {}, refused |-> {}, used |-> {},
          synced |-> FALSE]

Init ==
    /\ RouterInit /\ PermissionInit /\ ExecutorInit /\ AcpInit
    /\ job = [p \in Prompts |-> NoJob]
    /\ lock = "none" /\ plan = "none" /\ run = NoRun

At(p, place) == job[p].at = place
Goto(p, place) == job' = [job EXCEPT ![p].at = place]

-----------------------------------------------------------------------------
(* The client.                                                              *)

NewSession(s) == CreateSession(s) /\ UNCHANGED <<work, job, project>>
Close(s) == CloseSession(s) /\ UNCHANGED <<work, job, project>>

Prompt(p, s) ==
    /\ CreateTask(p, s)
    /\ \E asks, auto \in BOOLEAN :
        job' = [job EXCEPT ![p] = [NoJob EXCEPT !.at = "begin", !.asks = asks, !.auto = auto]]
    /\ UNCHANGED <<work, project>>

CancelTask(p) == Cancel(p) /\ UNCHANGED <<work, job, project>>

\* What the client says to the one that waits for it: to the run, of a permission; to the
\* build, of its plan.
Says(p, topic, value) ==
    LET heard == task[p].waits = topic /\ <<p, topic>> \in held /\ SessionOpen(p)
        allowed == heard /\ topic \in Capabilities /\ value = "yes"
        denied == heard /\ topic \in Capabilities /\ value = "no"
    IN /\ run' = [run EXCEPT !.granted = IF allowed THEN @ \cup {topic} ELSE @,
                             !.refused = IF denied THEN @ \cup {topic} ELSE @]
       /\ job' = [job EXCEPT ![p].agreed = @ \/ (heard /\ topic = "plan" /\ value = "yes")]
ValuesFor(topic) == IF topic \in Capabilities THEN {"yes", "no"} ELSE DOMAIN After[topic]
AnswerRequest(p, topic) ==
    /\ \E value \in ValuesFor(topic) : Respond(p, topic, value) /\ Says(p, topic, value)
    /\ UNCHANGED <<work, lock, plan>>

\* Another process builds or runs the project.
Elsewhere ==
    /\ lock' = IF lock = "none" THEN "another" ELSE "none"
    /\ lock \in {"none", "another"}
    /\ UNCHANGED <<work, acp, job, plan, run>>

-----------------------------------------------------------------------------
(* The build.                                                               *)

Fail(p) == Become(p, "failed") /\ Goto(p, "done")

BeginBuild(p) ==
    /\ At(p, "begin")
    /\ IF lock = "none"
       THEN /\ lock' = p
            /\ Goto(p, IF job[p].asks THEN "questions" ELSE "decompose")
            /\ UNCHANGED task
       ELSE Fail(p) /\ UNCHANGED lock
    /\ UNCHANGED <<work, session, held, known, plan, run>>

\* A build that ends without a plan ends the task.
LeaveBuild(p, status) == lock' = "none" /\ Become(p, status) /\ Goto(p, "done")

\* The phases are planned first; those an earlier build planned for the same topic are
\* taken over.
Decompose(p) ==
    /\ At(p, "decompose")
    /\ \E next \in {"phases", "steps"} : Goto(p, next)
    /\ UNCHANGED <<work, acp, project>>

\* The planner is asked for questions, for the phases, and for the Steps of the first.
Plans(p) == job[p].at \in {"questions", "phases", "steps"}
AskPlanner(p) ==
    Plans(p) /\ StartChat /\ UNCHANGED <<cache, ex, acp, job, project>>

\* What the plan becomes: the Steps may still be no plan, or none that goes on from the
\* project there is.
Planned(p) ==
    CASE At(p, "questions") -> {"clarify", "addenda"}
      [] At(p, "phases") -> {"steps"}
      [] At(p, "steps") -> {"invalid", IF job[p].asks THEN "plan" ELSE "save"}

\* What the planner said of the phases, or of the Steps of one, is no plan.
NoPhases(p) == At(p, "phases") /\ chat.out = "content"
NoSteps(p) == At(p, "steps") /\ chat.out = "content"

\* A plan no provider could get right is asked for again with what was wrong with it.
Repairs(p) ==
    /\ NoPhases(p) \/ NoSteps(p)
    /\ \E limit \in RepairLimits : job[p].tries + 1 < limit
    /\ job' = [job EXCEPT ![p].tries = @ + 1]
    /\ UNCHANGED <<lock, task>>
GivesUp(p) ==
    /\ chat.out # "answer"
    /\ NoPhases(p) \/ NoSteps(p) =>
          \E limit \in RepairLimits : job[p].tries + 1 >= limit
    /\ LeaveBuild(p, "failed")
HearPlanner(p) ==
    /\ Plans(p) /\ Take
    /\ \/ /\ chat.out = "answer"
          /\ \E next \in Planned(p) :
                IF next = "invalid" THEN LeaveBuild(p, "failed")
                ELSE /\ job' = [job EXCEPT ![p].at = next, ![p].tries = 0]
                     /\ UNCHANGED <<lock, task>>
       \/ Repairs(p) \/ GivesUp(p)
    /\ UNCHANGED <<cache, ex, session, held, known, plan, run>>

InDialogue(p) == job[p].at \in Questions
Free(p) == task[p].waits = "none" /\ task[p].reply = "none"
AskClient(p) ==
    /\ InDialogue(p) /\ Free(p)
    /\ Ask(p, job[p].at)
    /\ UNCHANGED <<work, job, project>>
HearClient(p) ==
    /\ InDialogue(p) /\ task[p].reply # "none"
    /\ LET next == IF task[p].reply = "rejected" THEN "failed" ELSE After[job[p].at][task[p].reply]
       IN CASE next = "failed" -> LeaveBuild(p, "failed")
            [] next = "rejected" -> LeaveBuild(p, "cancelled")
            [] OTHER -> Goto(p, next) /\ TakeReply(p) /\ UNCHANGED lock
    /\ UNCHANGED <<work, session, held, known, plan, run>>

\* The plan is written before the project's objects are committed, which may fail.
SavePlan(p) ==
    /\ At(p, "save")
    /\ plan' = p /\ lock' = "none"
    /\ (Goto(p, "built") /\ UNCHANGED task) \/ Fail(p)
    /\ UNCHANGED <<work, session, held, known, run>>

\* (mutant) nobody looks whether it was.
BuiltAnyway(p) ==
    /\ At(p, "built")
    /\ IF job[p].auto THEN Goto(p, "load") /\ UNCHANGED task
       ELSE Become(p, "completed") /\ Goto(p, "done")
    /\ UNCHANGED <<work, session, held, known, project>>

\* A task that was cancelled goes no further.
Built(p) ==
    /\ At(p, "built")
    /\ IF IsCancelled(p) THEN Fail(p)
       ELSE IF job[p].auto THEN Goto(p, "load") /\ UNCHANGED task
       ELSE Become(p, "completed") /\ Goto(p, "done")
    /\ UNCHANGED <<work, session, held, known, project>>

-----------------------------------------------------------------------------
(* The run.                                                                 *)

\* The plan is read once the lock is held, and the permissions are nobody's yet.  Its
\* environment is built, with nobody asked; if it cannot be, there is no run.
Load(p) ==
    /\ At(p, "load")
    /\ \/ /\ lock = "none"
          /\ lock' = p /\ Goto(p, "run") /\ Forget
          /\ run' = [NoRun EXCEPT !.of = p]
          /\ UNCHANGED <<task>>
       \/ Fail(p) /\ UNCHANGED <<lock, run, cache>>
    /\ UNCHANGED <<chat, ex, session, held, known, plan>>

Running(p) == At(p, "run")

\* The run is over: what it held is let go, and the task ends unless it was cancelled.
\* Waiting for an answer nobody will look at is no state to complete from.
EndRun(p, status) ==
    /\ lock' = "none" /\ run' = NoRun
    /\ Become(p, status) /\ Goto(p, "done")

BeginAttempt(p) ==
    /\ Running(p) /\ ex.at = "idle"
    /\ IF IsCancelled(p) \/ run.attempt = MaxAttempts
       THEN EndRun(p, "failed") /\ UNCHANGED ex
       ELSE /\ \E kind \in {"development", "test"} : StartAttempt(kind)
            /\ run' = [run EXCEPT !.attempt = @ + 1]
            /\ UNCHANGED <<lock, task, job>>
    /\ UNCHANGED <<chat, cache, session, held, known, plan>>

Execute(p) ==
    /\ Running(p) /\ Free(p)
    /\ \/ (Think \/ Listen) /\ UNCHANGED <<cache, run>>
       \/ \E c \in Capabilities :
            Reaches(c) /\ run' = [run EXCEPT !.used = @ \cup {c}] /\ UNCHANGED <<chat, cache>>
       \/ Act /\ ~ (\E c \in Capabilities : Reaches(c)) /\ UNCHANGED <<chat, cache, run>>
    /\ UNCHANGED <<acp, job, lock, plan>>

AskPermission(p) ==
    /\ Running(p) /\ Free(p)
    /\ \E c \in Capabilities : Asks(c) /\ Ask(p, c)
    /\ UNCHANGED <<work, job, project>>

\* A denial and a timeout are decisions; a rejection is an error the attempt ends with.
Decision == [yes |-> "approved", no |-> "denied", late |-> "timed_out"]
HearPermission(p) ==
    /\ Running(p) /\ task[p].reply # "none"
    /\ \E c \in Capabilities :
        /\ Asks(c)
        /\ IF task[p].reply = "rejected"
           THEN Finish("failure") /\ UNCHANGED cache
           ELSE Remember(c, Decision[task[p].reply]) /\ UNCHANGED ex
    /\ TakeReply(p)
    /\ UNCHANGED <<chat, session, held, known, job, project>>

PermissionTimesOut(p) ==
    /\ Running(p) /\ TimesOut(p)
    /\ run' = [run EXCEPT !.refused = @ \cup {task[p].waits}]
    /\ UNCHANGED <<work, job, lock, plan>>

\* What an attempt delivers, and its assessment does not turn down: for the gaps it admits,
\* unless the tests could not run.
Accepted == ex.outcome = "success" /\ (ex.qa = "clean" \/ ex.unowned)

\* A manifest that is delivered is installed before the delivery is committed: nobody is
\* asked, whatever was said to the tool that wrote it.  That this may fail is only noted.
SyncDelivered(p) ==
    /\ Running(p) /\ ex.at = "done" /\ Accepted /\ ex.declared
    /\ ex' = [ex EXCEPT !.declared = FALSE]
    /\ run' = [run EXCEPT !.synced = TRUE]
    /\ UNCHANGED <<chat, cache, acp, job, lock, plan>>

\* What the attempt brought: its delivery, one more attempt, or the end of the run.  A
\* delivery may still be turned down, for what is measured of it, or not be committed.
EndAttempt(p) ==
    /\ Running(p) /\ ex.at = "done"
    /\ ex' = NoAttempt
    /\ \/ Accepted /\ ~ ex.declared /\ EndRun(p, "completed")
       \/ /\ ex.outcome \in {"success", "failure"}
          /\ UNCHANGED <<task, job, lock, run>>
       \/ /\ ex.outcome \in {"permission_blocked", "infrastructure", "cancelled"}
          /\ EndRun(p, "failed")
    /\ UNCHANGED <<chat, cache, session, held, known, plan>>

-----------------------------------------------------------------------------
\* A call of the model, of the task that holds the project.  The executor's contract has
\* nothing to refuse while outputs are missing.
Chat(p) ==
    /\ lock = p
    /\ ChatStep(IsCancelled(p), Plans(p) \/ ex.missing = 0)
    /\ UNCHANGED <<cache, ex, acp, job, project>>

TaskStep(p) ==
    \/ BeginBuild(p) \/ Decompose(p) \/ AskPlanner(p) \/ HearPlanner(p) \/ AskClient(p)
    \/ HearClient(p) \/ SavePlan(p) \/ Built(p) \/ Load(p)
    \/ BeginAttempt(p) \/ Execute(p) \/ AskPermission(p) \/ HearPermission(p)
    \/ SyncDelivered(p) \/ EndAttempt(p)
    \/ Chat(p)

Next ==
    \/ \E s \in Sessions : NewSession(s) \/ Close(s) \/ \E p \in Prompts : Prompt(p, s)
    \/ \E p \in Prompts : TaskStep(p) \/ CancelTask(p) \/ PermissionTimesOut(p)
    \/ \E p \in Prompts, topic \in Topics : AnswerRequest(p, topic)
    \/ Elsewhere

\* The program goes on, and the client answers what it is asked.
Fairness ==
    \A p \in Prompts :
        /\ WF_vars(TaskStep(p))
        /\ \A topic \in Topics : WF_vars(AnswerRequest(p, topic))

Spec == Init /\ [][Next]_vars /\ Fairness

-----------------------------------------------------------------------------
\* The types of the state: no attempt has more rounds than the limit its progress can earn,
\* and the model is called, the client asked and the Step worked on by the task that holds
\* the project alone.
TypeOK ==
    /\ cache \in [Capabilities -> Decisions \cup {"none"}]
    /\ chat.at \in {"idle", "call", "switch", "wait", "done"}
    /\ chat.try \in 0..(1 + MaxTransient + MaxRetries) /\ chat.left \in 0..Providers
    /\ ex.round <= ex.limit /\ ex.limit <= HardLimit
    /\ ex.at \in {"idle", "think", "listen", "act", "done"}
    /\ ex.outcome \in Outcomes \cup {"none"}
    /\ session \in [Sessions -> {"new", "open", "closed"}]
    /\ \A p \in Prompts :
        /\ task[p].status \in DOMAIN Becomes
        /\ task[p].waits \in Topics \cup {"none"}
        /\ task[p].reply \in Replies \cup {"none"}
        /\ task[p].waits # "none" => lock = p
    /\ held \cup known \subseteq Prompts \X Topics
    /\ lock \in Prompts \cup {"none", "another"}
    /\ {plan, run.of} \subseteq Prompts \cup {"none"}
    /\ Chatting \/ ex.at # "idle" => lock \in Prompts

\* What the tools of a run's attempts do outside the project - fetch, and install what a
\* manifest they wrote declares - the client allowed in that run, and never refused or let
\* pass in it (permission_service.ts:38-91, executor.ts:967-1040, 2879-2921); and the plan
\* of a prompt that wants to be asked is one the client agreed to (build.ts:619-636).  It
\* says nothing of the environments the program itself builds: those nobody is asked about,
\* and a delivery may install what its attempt was refused (run.synced).
ToolConsent ==
    /\ run.used \subseteq run.granted /\ run.used \cap run.refused = {}
    /\ \A p \in Prompts : plan = p /\ job[p].asks => job[p].agreed

\* Once it is cancelled a task starts no run, waits for nobody, is allowed nothing more and
\* ends cancelled (docs/acp.md:63, server.ts:212-241).
CancelHolds ==
    [][\A p \in Prompts : IsCancelled(p) =>
        /\ task'[p].status = task[p].status \/ task'[p].status = "cancelled"
        /\ job'[p].at = "load" => At(p, "load")
        /\ task'[p].waits = "none"
        /\ run.of = p /\ run'.of = p => run'.granted \subseteq run.granted]_vars

\* A Step that changed something is accepted only after its tests passed in that attempt,
\* and never when their last run failed (executor.ts:695-758, 1312-1424): unless they
\* could not run, for a manifest that is another Step's.
DeliveredTested ==
    ex.outcome = "success" =>
        /\ "test" \notin ex.unresolved
        /\ ex.changed => ex.passed \/ ex.unowned

\* Every prompt is answered, or its session was closed on it (server.ts:196-210).
Answered ==
    \A p \in Prompts : Live(p) ~> (At(p, "done") \/ ~ SessionOpen(p))
=============================================================================
