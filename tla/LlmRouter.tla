------------------------------ MODULE LlmRouter ------------------------------
(***************************************************************************)
(* One call of a model: the providers are tried one after the other, each  *)
(* again as long as its failure is worth it (FallbackClient.chat in        *)
(* src/llm/router.ts).  Scores rank the providers and may leave some out:  *)
(* which ones are left does not matter here, only how many.                *)
(***************************************************************************)
EXTENDS Naturals

CONSTANTS
    Providers,      \* the most providers a role has
    MaxRetries      \* retry.max_retries: what a rate-limited provider is granted

ASSUME RouterAssumption == Providers \in Nat \ {0} /\ MaxRetries \in Nat

VARIABLES
    chat            \* the call under way

\* How the failure of a call counts: a stream that broke once it had begun, a rate limit
\* that will lift, a connection that failed, and what a second try does not cure.
CallFailures == {"broken", "limited", "unconnected", "final"}

MaxTransient == 2
NoChat == [at |-> "idle", left |-> 0, try |-> 0, content |-> TRUE, out |-> "none"]

RouterInit == chat = NoChat

Chatting == chat.at # "idle"
Ended(out) == chat' = [NoChat EXCEPT !.at = "done", !.out = out]
Again == chat' = [chat EXCEPT !.try = @ + 1]

\* for, rankByScore: the providers that are usable now.
StartChat ==
    /\ ~ Chatting
    /\ \E n \in 1..Providers :
        chat' = [NoChat EXCEPT !.at = "call", !.left = n, !.try = 1]

\* The next provider; after the last one the caller learns whether it was the content
\* of the answers alone that was refused.
NextProvider(kind) ==
    LET content == chat.content /\ kind = "content" IN
    IF chat.left > 1
    THEN chat' = [chat EXCEPT !.at = "switch", !.left = @ - 1, !.try = 1, !.content = content]
    ELSE Ended(IF content THEN "content" ELSE "infrastructure")

\* A provider that cannot be reached is passed over, unless it is the last.
Switch ==
    /\ chat.at = "switch"
    /\ \/ chat' = [chat EXCEPT !.at = "call"]
       \/ chat.left > 1 /\ NextProvider("transport")

Answer == chat.at = "call" /\ Ended("answer")

\* The caller's contract refuses the answer: it is corrected once, with the error.
Refuse ==
    /\ chat.at = "call"
    /\ IF chat.try < MaxTransient THEN Again ELSE NextProvider("content")

\* The call fails.  The wait for a rate limit does not look at a cancellation.
Attempts(failure) == IF failure = "limited" THEN 1 + MaxRetries ELSE MaxTransient
Call(failure) ==
    /\ chat.at = "call"
    /\ \/ /\ failure \in {"broken", "limited"} /\ chat.try < Attempts(failure)
          /\ IF failure = "limited"
             THEN chat' = [chat EXCEPT !.at = "wait", !.try = @ + 1] ELSE Again
       \/ failure = "unconnected" /\ chat.try < MaxTransient /\ Again
       \/ /\ failure \in {"broken", "limited"} => chat.try >= Attempts(failure)
          /\ NextProvider("transport")
Wake == chat.at = "wait" /\ chat' = [chat EXCEPT !.at = "call"]

\* A provider that listens to the cancellation of the task ends the call in it.
Abort == chat.at = "call" /\ Ended("cancelled")

Take == chat.at = "done" /\ chat' = NoChat

\* What the call does of itself, `aborted' when its task was cancelled and `checked' when
\* the caller has a contract for the answer.  OllamaClient does not listen to the
\* cancellation: its answer is used, or refused and corrected, as if there had been none.
ChatStep(aborted, checked) ==
    \/ Switch \/ Wake
    \/ Answer \/ (checked /\ Refuse) \/ \E failure \in CallFailures : Call(failure)
    \/ aborted /\ Abort
=============================================================================
