----------------------------- MODULE AcpSession -----------------------------
(***************************************************************************)
(* The client's side of a task (src/acp/server.ts, session.ts and          *)
(* task_state.ts): sessions, the tasks their prompts become, and what the  *)
(* client is asked and answers.  Messages are handled one at a time up to  *)
(* their first await.                                                      *)
(*                                                                         *)
(* A request is the prompt and the topic it is about: each topic is asked  *)
(* about at most once at a time.  A request has two entries, one of the    *)
(* session (held) and one of the server (known), and the task that waits   *)
(* for the answer may have stopped waiting.                                *)
(***************************************************************************)
EXTENDS PermissionService

CONSTANTS Prompts, Sessions

VARIABLES
    session,        \* of each session: "new", "open", "closed"
    task,           \* of each prompt, the task it became
    held,           \* the requests a session holds
    known           \* the requests the server expects an answer to

acp == <<session, task, held, known>>

Questions == {"clarify", "addenda", "addendaText", "topic", "topicText", "plan"}
Topics == Questions \cup Capabilities
Replies == {"yes", "no", "edit", "cancel", "late", "rejected"}

Waiting(topic) ==
    IF topic \in Capabilities THEN "waiting_for_permission" ELSE "waiting_for_confirmation"

\* What a status may become, besides itself (TASK_STATUS_TRANSITIONS).
Becomes ==
    [none |-> {"running"},
     running |-> {"waiting_for_confirmation", "waiting_for_permission", "completed", "failed",
                  "cancel_requested", "cancelled"},
     waiting_for_confirmation |-> {"running", "failed", "cancel_requested", "cancelled"},
     waiting_for_permission |-> {"running", "failed", "cancel_requested", "cancelled"},
     cancel_requested |-> {"cancelled"},
     completed |-> {}, failed |-> {}, cancelled |-> {}]
MayBecome(p, status) == task[p].status = status \/ status \in Becomes[task[p].status]

NoTask == [status |-> "none", of |-> "none", waits |-> "none", reply |-> "none"]

AcpInit ==
    /\ session = [s \in Sessions |-> "new"]
    /\ task = [p \in Prompts |-> NoTask]
    /\ held = {}
    /\ known = {}

Live(p) == task[p].status \notin {"none", "completed", "failed", "cancelled"}
IsCancelled(p) == task[p].status \in {"cancel_requested", "cancelled"}
SessionOpen(p) == task[p].of \in Sessions /\ session[task[p].of] = "open"
RequestsOf(p) == {p} \X Topics

CreateSession(s) ==
    /\ session[s] = "new"
    /\ session' = [session EXCEPT ![s] = "open"]
    /\ UNCHANGED <<task, held, known>>

CreateTask(p, s) ==
    /\ session[s] = "open" /\ task[p].status = "none"
    /\ task' = [task EXCEPT ![p] = [NoTask EXCEPT !.status = "running", !.of = s]]
    /\ UNCHANGED <<session, held, known>>

\* The request is sent and entered before the status is looked at: the request of a
\* cancelled task is out, and rejected in the same breath.
Ask(p, topic) ==
    /\ known' = known \cup {<<p, topic>>}
    /\ held' = held \cup {<<p, topic>>}
    /\ task' = [task EXCEPT ![p] =
          IF MayBecome(p, Waiting(topic))
          THEN [@ EXCEPT !.status = Waiting(topic), !.waits = topic]
          ELSE [@ EXCEPT !.reply = "rejected"]]
    /\ UNCHANGED session

\* An answer counts once, and only in a session that is still there; the task goes on even
\* if it was another answer it waits for now.
Respond(p, topic, value) ==
    /\ <<p, topic>> \in known
    /\ known' = known \ {<<p, topic>>}
    /\ IF <<p, topic>> \in held /\ SessionOpen(p)
       THEN /\ held' = held \ {<<p, topic>>}
            /\ task' = [task EXCEPT
                  ![p].status = IF @ = Waiting(topic) THEN "running" ELSE @,
                  ![p].waits = IF @ = topic THEN "none" ELSE @,
                  ![p].reply = IF task[p].waits = topic THEN value ELSE @]
       ELSE UNCHANGED <<held, task>>
    /\ UNCHANGED session

\* The task stops waiting for a permission; the request stays where it is.
TimesOut(p) ==
    /\ task[p].waits \in Capabilities
    /\ task' = [task EXCEPT ![p].waits = "none", ![p].reply = "late"]
    /\ UNCHANGED <<session, held, known>>

Rejected(t) == IF t.waits = "none" THEN t ELSE [t EXCEPT !.waits = "none", !.reply = "rejected"]

\* (mutant) the requests are forgotten, and the task goes on waiting.
CancelForgets(p) ==
    /\ Live(p) /\ SessionOpen(p)
    /\ task' = [task EXCEPT ![p].status = "cancel_requested"]
    /\ held' = held \ RequestsOf(p)
    /\ known' = known \ RequestsOf(p)
    /\ UNCHANGED session

\* Cancelling a task rejects what it waits for and forgets its requests.
Cancel(p) ==
    /\ Live(p) /\ SessionOpen(p)
    /\ task' = [task EXCEPT ![p] = [Rejected(@) EXCEPT !.status = "cancel_requested"]]
    /\ held' = held \ RequestsOf(p)
    /\ known' = known \ RequestsOf(p)
    /\ UNCHANGED session

\* Closing a session rejects what its tasks wait for; they are not cancelled.
CloseSession(s) ==
    /\ session[s] = "open"
    /\ session' = [session EXCEPT ![s] = "closed"]
    /\ task' = [p \in Prompts |->
          IF task[p].of = s /\ <<p, task[p].waits>> \in held THEN Rejected(task[p]) ELSE task[p]]
    /\ UNCHANGED <<held, known>>

\* The task's own steps: it takes the reply, and ends.
TakeReply(p) == task' = [task EXCEPT ![p].reply = "none"]
Become(p, status) ==
    task' = [task EXCEPT ![p] = [@ EXCEPT !.reply = "none",
        !.status = IF IsCancelled(p) THEN "cancelled"
                   ELSE IF MayBecome(p, status) THEN status ELSE "failed"]]
=============================================================================
