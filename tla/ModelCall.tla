------------------------------ MODULE ModelCall ------------------------------
(***************************************************************************)
(* A role's calls of a model (FallbackClient.chat in src/llm/router.ts)    *)
(* over the requests they are made of (ProviderStream) and the scores that *)
(* rank the providers (ProviderScores).  It implements LlmRouter, the call *)
(* as the rest of the system sees it.                                      *)
(***************************************************************************)
EXTENDS ProviderStream, ProviderScores

CONSTANTS
    MaxRetries,     \* retry.max_retries
    MaxCalls        \* the calls and recorded outcomes of a behaviour: a bound

ASSUME CallAssumption == MaxRetries \in Nat /\ MaxCalls \in Nat

VARIABLES
    call,           \* the call under way
    cancelled,      \* the task of the call was cancelled
    calls           \* how many calls were begun and outcomes recorded

vars == <<req, score, user, roster, unavailable, call, cancelled, calls>>

MaxTransient == 2

\* `take' is whether the caller takes tokens, and still does; `capped', that it did.
NoCall == [at |-> "start", chain |-> <<>>, i |-> 1, try |-> 1, checked |-> FALSE,
           rewarded |-> FALSE, take |-> FALSE, capped |-> FALSE, content |-> TRUE, out |-> "none"]

Init ==
    /\ req = NoRequest /\ ScoresInit /\ call = NoCall /\ cancelled = FALSE /\ calls = 0

Current == call.chain[call.i]
Left == Len(call.chain) - call.i
KindOf(p) == IF p \in Ollama THEN "ollama" ELSE "openai"

Send(c) == req' = Opened(KindOf(c.chain[c.i]), c.take, c.capped)
Rest == req' = NoRequest

-----------------------------------------------------------------------------
(* The classes of a failure, by the words of its message.                   *)

RateLimited(words) == "429" \in words /\ "quota" \notin words
Retryable(words) ==
    "first token" \notin words /\ words \cap {"loop", "degenerate", "broken"} # {}
Transient(words) == "first token" \notin words /\ words \cap {"broken", "unreachable"} # {}

\* shouldRetryWithoutStreaming: by what had arrived, where that is known.
WithoutStreaming(answer) ==
    IF answer.progress # "unknown" THEN answer.progress # "no-bytes"
    ELSE "first token" \notin answer.words /\ answer.words \cap {"degenerate", "broken"} # {}

\* withoutStreamingOptions: what follows a stream is not streamed, and has less time.
Whole(c) == IF c.take THEN [c EXCEPT !.take = FALSE, !.capped = TRUE] ELSE c

-----------------------------------------------------------------------------

Ready ==
    /\ call.at = "start" /\ \E passes \in BOOLEAN :
        Preflight(passes) /\ call' = [NoCall EXCEPT !.at = IF passes THEN "idle" ELSE "failed"]
    /\ UNCHANGED <<req, cancelled, calls>>

\* for: without a provider the call is refused.
Start ==
    /\ call.at = "idle" /\ calls < MaxCalls /\ calls' = calls + 1
    /\ \E checked, rewarded, take \in BOOLEAN :
        call' = [NoCall EXCEPT !.at = IF Usable = {} THEN "refused" ELSE "probe",
                               !.chain = Ranked, !.checked = checked, !.rewarded = rewarded,
                               !.take = take]
    /\ UNCHANGED <<req, scoring, cancelled>>

End(out) == call' = [NoCall EXCEPT !.at = "done", !.out = out] /\ Rest

\* The call leaves the provider; the next one starts from the caller's own options.
NextProvider(kind) ==
    LET content == call.content /\ kind = "content" IN
    IF Left > 0
    THEN /\ call' = [call EXCEPT !.at = "probe", !.i = @ + 1, !.try = 1, !.content = content,
                                 !.take = @ \/ call.capped, !.capped = FALSE]
         /\ Rest
    ELSE End(IF content THEN "content" ELSE "infrastructure")

Again(c) ==
    LET next == [c EXCEPT !.at = "call", !.try = @ + 1] IN call' = next /\ Send(next)

\* (mutant) Any provider that cannot be reached is passed over, and the last with it.
ProbedPastTheLast ==
    /\ call.at = "probe"
    /\ \E ok \in BOOLEAN :
        IF ~ ok /\ call.i > 1 THEN NextProvider("transport")
        ELSE LET next == [call EXCEPT !.at = "call"] IN call' = next /\ Send(next)
    /\ UNCHANGED <<scoring, cancelled, calls>>

\* availability, at the start and at a switch: a provider in between that cannot be reached
\* is passed over.
Probed ==
    /\ call.at = "probe"
    /\ \E ok \in BOOLEAN :
        IF ~ ok /\ call.i > 1 /\ Left > 0 THEN NextProvider("transport")
        ELSE LET next == [call EXCEPT !.at = "call"] IN call' = next /\ Send(next)
    /\ UNCHANGED <<scoring, cancelled, calls>>

Stream == call.at = "call" /\ StreamStep(cancelled) /\ UNCHANGED <<scoring, call, cancelled, calls>>

\* The provider is given up, and its score falls.
GiveUp(kind) ==
    /\ NextProvider(kind)
    /\ score' = Decayed(Current) /\ UNCHANGED <<user, roster, unavailable>>

\* (mutant) A request that ended because the task did counts as a failure of its provider.
JudgeFailureUnheeding ==
    LET words == req.outcome.words
        limited == RateLimited(words)
        again == [call EXCEPT !.at = "wait", !.try = @ + 1]
    IN IF call.try < MaxTransient /\ limited THEN call' = again /\ Rest /\ UNCHANGED scoring
       ELSE GiveUp("transport")

\* The catch of the call, in its order.
JudgeFailure ==
    LET answer == req.outcome
        words == answer.words
        limited == RateLimited(words)
        attempts == IF limited THEN 1 + MaxRetries ELSE MaxTransient
        adapted == IF WithoutStreaming(answer) THEN Whole(call) ELSE call
    IN IF cancelled THEN End("cancelled") /\ UNCHANGED scoring
       ELSE IF call.try < attempts /\ limited
       THEN call' = [adapted EXCEPT !.at = "wait", !.try = @ + 1] /\ Rest /\ UNCHANGED scoring
       ELSE IF call.try < attempts /\ Retryable(words) THEN Again(adapted) /\ UNCHANGED scoring
       ELSE IF call.try < MaxTransient /\ Transient(words)
       THEN call' = [call EXCEPT !.at = "gate"] /\ Rest /\ UNCHANGED scoring
       ELSE GiveUp("transport")

\* A refused answer is corrected once.
JudgeAnswer ==
    IF call.checked /\ ~ req.outcome.valid
    THEN IF call.try < MaxTransient THEN Again(call) /\ UNCHANGED scoring ELSE GiveUp("content")
    ELSE /\ End("answer")
         /\ score' = IF call.rewarded THEN Boosted(Current) ELSE score
         /\ UNCHANGED <<user, roster, unavailable>>

Judge ==
    /\ call.at = "call" /\ req.at = "ended"
    /\ IF req.outcome.ok THEN JudgeAnswer ELSE JudgeFailure
    /\ UNCHANGED <<cancelled, calls>>

\* The gate of a second try: is the endpoint there at all?
Gated ==
    /\ call.at = "gate"
    /\ \/ Again(Whole(call)) /\ UNCHANGED scoring
       \/ GiveUp("transport")
    /\ UNCHANGED <<cancelled, calls>>

\* The wait for a rate limit ends; it does not look at a cancellation.
Wake ==
    /\ call.at = "wait"
    /\ LET next == [call EXCEPT !.at = "call"] IN call' = next /\ Send(next)
    /\ UNCHANGED <<scoring, cancelled, calls>>

\* A cancellation may come at any time, also while the end of a request or the refusal of
\* its answer is being written down (wrapWithAudit, llm.provider_validation_failed): only
\* the judgement of a failure looks for it.
Resting == call.at \notin {"probe", "call", "gate", "wait"}
Cancel ==
    /\ ~ Resting /\ ~ cancelled /\ cancelled' = TRUE
    /\ UNCHANGED <<req, scoring, call, calls>>

\* The caller has the answer; its next call is another task's.
Take ==
    /\ call.at = "done" /\ call' = [NoCall EXCEPT !.at = "idle"] /\ cancelled' = FALSE
    /\ UNCHANGED <<req, scoring, calls>>

Internal == Probed \/ Stream \/ Judge \/ Gated \/ Wake

\* Recorded whatever call is under way.
TicketOutcome ==
    /\ calls < MaxCalls /\ calls' = calls + 1
    /\ RecordTicketOutcome /\ UNCHANGED <<req, call, cancelled>>
Next == Ready \/ Start \/ Internal \/ Cancel \/ Take \/ TicketOutcome

\* Node runs what is due: time passes and timers fire, and what has come is dealt with.
Clock ==
    /\ call.at = "call"
    /\ IF cancelled /\ Listens THEN Heed ELSE Tick \/ Expire \/ AskDiagnosis
    /\ UNCHANGED <<scoring, call, cancelled, calls>>
Fairness == WF_vars(Clock) /\ WF_vars(Probed \/ Judge \/ Gated \/ Wake)
Spec == Init /\ [][Next]_vars /\ Fairness

-----------------------------------------------------------------------------

\* The call as LlmRouter has it.
NotRouted == [at |-> "idle", left |-> 0, try |-> 0, content |-> TRUE, out |-> "none"]
RoutedAs(c) ==
    IF c.at \in {"start", "idle", "failed"} THEN NotRouted
    ELSE IF c.at = "done" THEN [NotRouted EXCEPT !.at = "done", !.out = c.out]
    ELSE [at |-> IF c.at = "probe" /\ c.i > 1 THEN "switch"
                 ELSE IF c.at \in {"probe", "gate"} THEN "call" ELSE c.at,
          left |-> Len(c.chain) - c.i + 1, try |-> c.try, content |-> c.content, out |-> "none"]
Routed == RoutedAs(call)

Router == INSTANCE LlmRouter WITH Providers <- Cardinality(Providers), chat <- Routed

\* REFINEMENT.  The call behaves as LlmRouter says: every failure of a request is one of its
\* four, a provider is tried as often as its failure is worth and then left for good, only a
\* cancelled call ends cancelled, and a run that passed its check always has a provider.
IsRouted ==
    /\ Router!RouterInit
    /\ [][Router!StartChat \/ Router!Take \/ Router!ChatStep(cancelled, call.checked)]_Routed

\* A run whose check passed never has a call refused for want of a provider.
NeverRefused == call.at # "refused"

\* What a failed request says is what happened: how far the stream had come, and a
\* diagnosis only of the silence it ended in (armStallDiagnosis, streamProgress).
Explained ==
    LET answer == req.outcome IN
    req.at = "ended" =>
        /\ answer.progress \in {"unknown", req.got}
        /\ answer.diagnosis # "none" => ~ req.heard
        /\ "first token" \in answer.words => req.got = "no-bytes"

\* What a provider answers for: an answer that was refused, a request that failed while the
\* task was still wanted, or such a failure and an endpoint that is not there any more.
Answers == req.at = "ended" /\ req.kind = KindOf(Current) /\ req.outcome.ok
AtFault ==
    \/ Answers /\ ~ req.outcome.valid
    \/ req.at = "ended" /\ req.kind = KindOf(Current) /\ ~ req.outcome.ok /\ ~ cancelled
    \/ call.at = "gate"

\* A call takes from a score only as it leaves the provider for good, for a fault of that
\* provider and not for the cancellation of the task, and adds to one only with an answer of
\* that provider that goes to the caller (FallbackClient.chat).  What the check before a run
\* and the outcomes of tickets do to the scores is apart from that.
Deserved ==
    [][call.at = "start" \/ calls' # calls \/ \A p \in Providers :
        /\ score'[p] < score[p] =>
              p = Current /\ AtFault /\ (call'.at = "done" \/ call'.i > call.i)
        /\ score'[p] > score[p] => p = Current /\ Answers /\ call'.out = "answer"]_vars

\* LIVENESS.  A call ends, unless an OpenAI stream that has begun to answer goes on for good:
\* every other silence or chatter runs into a timer.
GoesOn == req.got = "content-started" /\ req.kind = "openai" /\ (Piece \/ Reason)
CallEnds == <>[](~ Resting) => []<><<GoesOn>>_vars
=============================================================================
