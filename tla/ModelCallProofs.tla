--------------------------- MODULE ModelCallProofs ---------------------------
(***************************************************************************)
(* What a failed request says is true of it, for any timers; a role that   *)
(* passed its check has a provider in every later call, for any roster,    *)
(* scores and number of calls; and how the window of a call is divided,    *)
(* for any window and prompt.                                              *)
(***************************************************************************)
EXTENDS ModelCall, CallBudgets, FiniteSetTheorems, TLAPS

USE DEF Progress, Kinds

-----------------------------------------------------------------------------
(* The window.                                                              *)

\* Prompt, safety margin, response and feedback share the window of any provider exactly when
\* at least 1024 tokens are left beside the first two: below that the floors of the last two
\* do not give way (resolveSkillOperationWindow).
THEOREM WindowIsShared ==
    ASSUME NEW c \in Nat \ {0}, NEW chars \in Nat
    PROVE  PromptTokens(chars) + Safety(c) + ResponseTokens(c, chars) + FeedbackTokens(c, chars) <= c
               <=> c - PromptTokens(chars) - Safety(c) >= 1024
<1> DEFINE left == c - PromptTokens(chars) - Safety(c)
           a == Available(c, chars)
           r == ResponseTokens(c, chars)
           f == FeedbackTokens(c, chars)
<1>1. PromptTokens(chars) \in Nat /\ Safety(c) \in Nat
  BY DEF PromptTokens, Safety, AtLeast, EstimatedCharsPerToken
<1>2. a \in Nat /\ a >= 512 /\ (left >= 512 => a = left)
  BY <1>1 DEF Available, AtLeast
<1>3. r \in Nat /\ r >= 512 /\ (r > 512 => 20 * r <= 9 * a)
  BY <1>2 DEF ResponseTokens, AtLeast, Least
<1>4. f \in Nat /\ f >= 512 /\ (f > 512 => 20 * f <= 7 * AtLeast(512, a - r))
  BY <1>2, <1>3 DEF FeedbackTokens, AtLeast, Least
<1>5. a >= 1024 => r + f <= a
  BY <1>2, <1>3, <1>4 DEF AtLeast
<1> QED
  BY <1>1, <1>2, <1>3, <1>4, <1>5

\* What a tool may read fits in the feedback of the call, and what it may write in the
\* response, at three characters a token: the floors of both never come to bear.
THEOREM ChunksFit ==
    ASSUME NEW c \in Nat \ {0}, NEW chars \in Nat
    PROVE  /\ ReadChunk(c, chars) <= FeedbackChars(c, chars)
           /\ WriteChunk(c, chars) <= ResponseTokens(c, chars) * EstimatedCharsPerToken
<1>1. ResponseTokens(c, chars) \in Int /\ ResponseTokens(c, chars) >= 512
  <2>1. Available(c, chars) \in Int
    BY DEF Available, PromptTokens, Safety, AtLeast, EstimatedCharsPerToken
  <2> QED
    BY <2>1 DEF ResponseTokens, AtLeast, Least
<1>2. FeedbackTokens(c, chars) \in Int /\ FeedbackTokens(c, chars) >= 512
  <2>1. Available(c, chars) \in Int
    BY DEF Available, PromptTokens, Safety, AtLeast, EstimatedCharsPerToken
  <2> QED
    BY <1>1, <2>1 DEF FeedbackTokens, AtLeast, Least
<1>3. ReadChunk(c, chars) <= FeedbackChars(c, chars)
  BY <1>2 DEF ReadChunk, FeedbackChars, AtLeast, EstimatedCharsPerToken
<1>4. WriteChunk(c, chars) <= ResponseTokens(c, chars) * EstimatedCharsPerToken
  BY <1>1 DEF WriteChunk, AtLeast, EstimatedCharsPerToken
<1> QED
  BY <1>3, <1>4

\* No wait is longer than the policy's ceiling, whatever the provider asks for, and with
\* jitter none is shorter than half of what is planned within it (computeRetryDelayMs).
THEOREM WaitsAreBounded ==
    ASSUME NEW planned \in Nat, NEW ceiling \in Nat, NEW jittered \in BOOLEAN,
           NEW wait \in Waits(planned, ceiling, jittered)
    PROVE  wait <= ceiling /\ 2 * wait >= Least(planned, ceiling)
BY DEF Waits, Least, AtLeast

-----------------------------------------------------------------------------
(* A request.                                                               *)

Diagnoses == {"off", "armed", "asked", "clean", "network", "spent", "outlived"}
Outcomes ==
    [ok : BOOLEAN, valid : BOOLEAN, words : SUBSET Words,
     progress : Progress \cup {"unknown"}, diagnosis : {"none", "clean", "network"}]
Requests ==
    [at : {"none", "headers", "refused", "body", "ended"}, kind : Kinds, stream : BOOLEAN,
     capped : BOOLEAN, got : Progress, age : Nat, still : Nat, quiet : Nat,
     status : SUBSET Words, stall : Diagnoses, heard : BOOLEAN,
     outcome : Outcomes]

\* A diagnosis that is being waited for, or counts, is of a silence nothing has ended since;
\* an HTTP error never reads like a wait for the first token.
Sound(r) ==
    /\ r \in Requests
    /\ r.stall \in {"asked", "clean", "network"} /\ r.at # "ended" => ~ r.heard
    /\ r.at \in {"headers", "refused"} => r.got = "no-bytes"
    /\ "first token" \notin r.status
    /\ r.at = "ended" =>
        /\ r.outcome.progress \in {"unknown", r.got}
        /\ r.outcome.diagnosis # "none" => ~ r.heard
        /\ "first token" \in r.outcome.words => r.got = "no-bytes"

LEMMA Blank == NoRequest \in Requests /\ NoOutcome \in Outcomes /\ NoRequest.at = "none"
BY DEF Requests, Outcomes, NoRequest, NoOutcome, Diagnoses, Words

LEMMA Opening ==
    ASSUME NEW kind \in Kinds, NEW stream \in BOOLEAN, NEW capped \in BOOLEAN
    PROVE  Sound(Opened(kind, stream, capped)) /\ Sound(NoRequest)
BY DEF Sound, Requests, Outcomes, Opened, NoRequest, NoOutcome, Diagnoses, Words

LEMMA Answering ==
    ASSUME NEW r, Sound(r), NEW valid \in BOOLEAN
    PROVE  Sound(Answered(r, valid))
<1> DEFINE o == [NoOutcome EXCEPT !.ok = TRUE, !.valid = valid]
<1>1. o \in Outcomes /\ o.progress = "unknown" /\ o.diagnosis = "none" /\ o.words = {}
  BY DEF Outcomes, NoOutcome, Words
<1>2. Answered(r, valid) = [NoRequest EXCEPT !.at = "ended", !.kind = r.kind,
                                !.stream = r.stream, !.got = r.got, !.outcome = o]
  BY DEF Answered
<1> HIDE DEF o
<1>3. NoRequest.status = {} /\ NoRequest \in Requests
  BY Blank DEF NoRequest
<1> QED
  BY <1>1, <1>2, <1>3 DEF Sound, Requests

\* The end of a request that has not ended; its words speak of the first token only where
\* nothing had come.
LEMMA Failing ==
    ASSUME NEW r, Sound(r), r.at # "ended", NEW words \in SUBSET Words,
           NEW progress \in {"unknown", r.got},
           "first token" \in words => r.got = "no-bytes"
    PROVE  Sound(Failed(r, words, progress))
<1> DEFINE told == r.stall \in {"clean", "network"}
           all == words \cup (IF r.stall = "network" THEN {"broken"} ELSE {})
           verdict == IF told THEN r.stall ELSE "none"
           o == [NoOutcome EXCEPT !.words = all, !.progress = progress, !.diagnosis = verdict]
<1>1. all \in SUBSET Words /\ ("first token" \in all => "first token" \in words)
  BY DEF Words
<1>2. verdict \in {"none", "clean", "network"} /\ (verdict # "none" => ~ r.heard)
  BY DEF Sound
<1>3. Failed(r, words, progress) =
        [NoRequest EXCEPT !.at = "ended", !.kind = r.kind, !.stream = r.stream, !.got = r.got,
                          !.heard = r.heard, !.outcome = o]
  BY DEF Failed
<1> HIDE DEF all, verdict
<1>4. /\ o \in Outcomes
      /\ o.progress = progress /\ o.diagnosis = verdict /\ o.words = all
  BY <1>1, <1>2, Blank DEF Outcomes, NoOutcome, Sound, Requests
<1> HIDE DEF o
<1>5. NoRequest.status = {} /\ NoRequest \in Requests
  BY Blank DEF NoRequest
<1> QED
  BY <1>1, <1>2, <1>3, <1>4, <1>5 DEF Sound, Requests

LEMMA Seeing ==
    ASSUME NEW r, Sound(r), r.at # "ended"
    PROVE  /\ Sound(Seen(r)) /\ Seen(r).at = r.at /\ Seen(r).got = r.got
           /\ Seen(r).kind = r.kind
BY DEF Sound, Requests, Seen, Diagnoses

\* What a piece of output leaves.
LEMMA Piecing ==
    ASSUME Sound(req), req.at = "body"
    PROVE  Sound(WithPiece) /\ WithPiece.at = "body" /\ WithPiece.got = "content-started"
<1>1. Sound(Seen(req)) /\ Seen(req).at = "body"
  BY Seeing
<1>2. Sound([Seen(req) EXCEPT !.still = 0, !.got = "content-started",
                              !.age = IF Listens THEN 0 ELSE @])
  BY <1>1 DEF Sound, Requests
<1> QED
  BY <1>1, <1>2 DEF WithPiece, Sound, Requests

LEMMA Counting ==
    ASSUME NEW elapsed \in Nat, NEW limit
    PROVE  Counts(elapsed, limit) \in Nat
<1>1. elapsed + 1 \in Nat
  OBVIOUS
<1> QED
  BY <1>1 DEF Counts

LEMMA Timing ==
    ASSUME StreamAssumption, Sound(req), Tick \/ Expire \/ AskDiagnosis \/ Diagnose
    PROVE  Sound(req')
<1>1. CASE Tick
  <2>1. /\ Counts(req.age, HeadersLimit + WallLimit) \in Nat
        /\ Counts(req.still, IdleLimit) \in Nat /\ Counts(req.quiet, StallLimit) \in Nat
    BY Counting DEF Sound, Requests
  <2> QED
    BY <1>1, <2>1 DEF Tick, UnderWay, Sound, Requests
<1>2. CASE HeadersExpire
  <2>1. req.got = "no-bytes" /\ req.at # "ended"
    <3>1. HeadersLimit > 0 /\ UnderWay
      BY <1>2 DEF HeadersExpire, HeadersDue, Due
    <3>2. req.at = "headers"
      BY <3>1 DEF HeadersLimit
    <3> QED
      BY <3>2 DEF Sound
  <2> QED
    BY <1>2, <2>1, Failing DEF HeadersExpire, Words
<1>3. CASE WallExpires
  BY <1>3, Failing DEF WallExpires, UnderWay, Reported, Words
<1>4. CASE IdleExpires
  <2> DEFINE words == IF Thinking THEN {}
                      ELSE IF Listens /\ req.got = "no-bytes" THEN {"first token"} ELSE {"broken"}
  <2>1. /\ words \in SUBSET Words /\ ("first token" \in words => req.got = "no-bytes")
        /\ Reported \in {"unknown", req.got} /\ req.at # "ended"
    BY <1>4 DEF IdleExpires, UnderWay, Reported, Words
  <2>2. req' = Failed(req, words, Reported)
    BY <1>4 DEF IdleExpires
  <2> QED
    BY <2>1, <2>2, Failing
<1>5. CASE AskDiagnosis
  BY <1>5 DEF AskDiagnosis, UnderWay, Sound, Requests, Diagnoses
<1>6. CASE Diagnose
  BY <1>6 DEF Diagnose, UnderWay, Sound, Requests, Diagnoses
<1> QED
  BY <1>1, <1>2, <1>3, <1>4, <1>5, <1>6 DEF Expire

LEMMA Hearing ==
    ASSUME Sound(req), Peer
    PROVE  Sound(req')
<1>1. CASE Accept
  BY <1>1 DEF Accept, Sound, Requests
<1>2. CASE Reject
  <2>1. PICK status \in Statuses :
            req' = [req EXCEPT !.at = "refused", !.status = status,
                               !.still = IF Listens THEN @ ELSE 0]
    BY <1>2 DEF Reject
  <2>2. status \in SUBSET Words /\ "first token" \notin status
    BY DEF Statuses, Words
  <2>3. req.at = "headers"
    BY <1>2 DEF Reject
  <2> QED
    BY <2>1, <2>2, <2>3 DEF Sound, Requests
<1>3. CASE ErrorBody
  <2>1. req.status \in SUBSET Words /\ "first token" \notin req.status
    BY DEF Sound, Requests
  <2> QED
    BY <1>3, <2>1, Failing DEF ErrorBody
<1>4. CASE Comment
  BY <1>4, Seeing DEF Comment, Open
<1>5. CASE Reason
  <2>1. Sound(Seen(req)) /\ Seen(req).at = "body"
    BY <1>5, Seeing DEF Reason, Open
  <2> QED
    BY <1>5, <2>1 DEF Reason, Sound, Requests
<1>6. CASE Piece
  BY <1>6, Piecing DEF Piece, Open
<1>7. CASE Spoil
  BY <1>7, Piecing, Failing DEF Spoil, Open, Looping, NotJson, Words
<1>8. CASE Err
  <2>1. Sound(Seen(req)) /\ Seen(req).at # "ended"
    BY <1>8, Seeing DEF Err, Open
  <2> QED
    BY <1>8, <2>1, Failing DEF Err, Words
<1>9. CASE Complete
  BY <1>9, Answering DEF Complete
<1>10. CASE Deliver
  BY <1>10, Answering, Failing DEF Deliver, Words
<1>11. CASE Drop
  BY <1>11, Failing DEF Drop, UnderWay, Words
<1>12. CASE Respond
  BY <1>12 DEF Respond, Sound, Requests
<1>13. CASE Line
  <2>1. req.at = "body" /\ Sound(WithPiece) /\ WithPiece.at = "body"
    BY <1>13, Piecing DEF Line, Open
  <2>2. Sound(Seen(req))
    BY <2>1, Seeing
  <2>3. CASE req' = [Seen(req) EXCEPT !.still = 0]
    BY <2>2, <2>3 DEF Sound, Requests
  <2>4. CASE req' = WithPiece
    BY <2>1, <2>4
  <2>5. CASE \E valid \in BOOLEAN : req' = Answered(WithPiece, valid)
    BY <2>1, <2>5, Answering
  <2>6. CASE \E words \in Looping : req' = Failed(WithPiece, words, "unknown")
    BY <2>1, <2>6, Failing DEF Looping, Words
  <2>7. CASE req' = Failed(req, {}, "unknown")
    BY <2>1, <2>7, Failing DEF Words
  <2> QED
    BY <1>13, <2>3, <2>4, <2>5, <2>6, <2>7 DEF Line
<1>14. CASE Ends
  BY <1>14, Answering, Failing DEF Ends, Words
<1>15. CASE Post
  BY <1>15, Answering, Failing DEF Post, Words
<1>16. CASE Lose
  BY <1>16, Failing DEF Lose, UnderWay, Words
<1> QED
  BY <1>1, <1>2, <1>3, <1>4, <1>5, <1>6, <1>7, <1>8, <1>9, <1>10, <1>11, <1>12, <1>13, <1>14,
     <1>15, <1>16 DEF Peer

\* Whatever a request does, or the peer, or time.
LEMMA Streaming ==
    ASSUME StreamAssumption, Sound(req), NEW aborted, StreamStep(aborted)
    PROVE  Sound(req')
<1>1. CASE Heed
  BY <1>1, Failing DEF Heed, UnderWay, Words
<1> QED
  BY <1>1, Timing, Hearing DEF StreamStep

-----------------------------------------------------------------------------
(* A call.                                                                  *)

\* Of a call, what goes into its requests.
IsCall(c) ==
    /\ c \in [at : {c.at}, chain : {c.chain}, i : {c.i}, try : {c.try}, checked : {c.checked},
              rewarded : {c.rewarded}, take : BOOLEAN, capped : BOOLEAN, content : {c.content},
              out : {c.out}]

LEMMA Sending ==
    ASSUME NEW c, IsCall(c), Send(c)
    PROVE  Sound(req')
<1>1. KindOf(c.chain[c.i]) \in Kinds
  BY DEF KindOf
<1> QED
  BY <1>1, Opening DEF Send, IsCall

LEMMA Stopping ==
    ASSUME Rest
    PROVE  Sound(req')
BY Opening DEF Rest

\* The call leaves its provider, or ends.
LEMMA Leaving ==
    ASSUME IsCall(call), NEW kind, NextProvider(kind)
    PROVE  IsCall(call') /\ Sound(req')
<1>1. IsCall(NoCall)
  BY DEF IsCall, NoCall
<1>2. CASE Left > 0
  BY <1>2, Stopping DEF NextProvider, IsCall
<1>3. CASE ~ (Left > 0)
  BY <1>1, <1>3, Stopping DEF NextProvider, End, IsCall
<1> QED
  BY <1>2, <1>3

LEMMA Adapting ==
    ASSUME NEW c, IsCall(c)
    PROVE  IsCall(Whole(c))
BY DEF Whole, IsCall

LEMMA Repeating ==
    ASSUME NEW c, IsCall(c), Again(c)
    PROVE  IsCall(call') /\ Sound(req')
<1> DEFINE next == [c EXCEPT !.at = "call", !.try = @ + 1]
<1>1. IsCall(next)
  BY DEF IsCall
<1>2. call' = next /\ Send(next)
  BY DEF Again
<1> QED
  BY <1>1, <1>2, Sending

\* What a call's own steps need of it, and keep.
CallInv == IsCall(call) /\ Sound(req)

LEMMA Judging ==
    ASSUME CallInv, req.at = "ended", JudgeFailure \/ JudgeAnswer
    PROVE  CallInv'
<1>1. IsCall(NoCall) /\ IsCall(Whole(call))
  BY Adapting DEF IsCall, NoCall, CallInv
<1>2. ASSUME NEW out, End(out) PROVE CallInv'
  <2>1. IsCall([NoCall EXCEPT !.at = "done", !.out = out])
    BY DEF IsCall, NoCall
  <2> QED
    BY <1>2, <2>1, Stopping DEF End, CallInv
<1>3. ASSUME NEW kind, GiveUp(kind) PROVE CallInv'
  BY <1>3, Leaving DEF GiveUp, CallInv
<1>4. ASSUME NEW c, IsCall(c), Again(c) PROVE CallInv'
  BY <1>4, Repeating DEF CallInv
<1>5. ASSUME NEW c, IsCall(c), call' = [c EXCEPT !.at = "wait", !.try = @ + 1], Rest PROVE CallInv'
  <2>1. IsCall([c EXCEPT !.at = "wait", !.try = @ + 1])
    BY <1>5 DEF IsCall
  <2> QED
    BY <1>5, <2>1, Stopping DEF CallInv
<1>6. ASSUME call' = [call EXCEPT !.at = "gate"], Rest PROVE CallInv'
  <2>1. IsCall([call EXCEPT !.at = "gate"])
    BY DEF IsCall, CallInv
  <2> QED
    BY <1>6, <2>1, Stopping DEF CallInv
<1>7. CASE JudgeFailure
  <2> DEFINE adapted == IF WithoutStreaming(req.outcome) THEN Whole(call) ELSE call
  <2>1. IsCall(adapted)
    BY <1>1 DEF CallInv
  <2>2. \/ End("cancelled") \/ GiveUp("transport") \/ Again(adapted)
        \/ call' = [adapted EXCEPT !.at = "wait", !.try = @ + 1] /\ Rest
        \/ call' = [call EXCEPT !.at = "gate"] /\ Rest
    BY <1>7 DEF JudgeFailure
  <2> HIDE DEF adapted
  <2> QED
    BY <1>2, <1>3, <1>4, <1>5, <1>6, <2>1, <2>2
<1>8. CASE JudgeAnswer
  <2>1. Again(call) \/ GiveUp("content") \/ End("answer")
    BY <1>8 DEF JudgeAnswer
  <2> QED
    BY <1>2, <1>3, <1>4, <2>1 DEF CallInv
<1> QED
  BY <1>7, <1>8

LEMMA CallStep ==
    ASSUME StreamAssumption, CallInv, [Next]_vars
    PROVE  CallInv'
<1>1. CASE UNCHANGED vars
  BY <1>1 DEF vars, CallInv, IsCall, Sound
<1>2. CASE Ready
  <2>1. PICK at \in {"idle", "failed"} : call' = [NoCall EXCEPT !.at = at]
    BY <1>2 DEF Ready
  <2>2. IsCall([NoCall EXCEPT !.at = at])
    BY DEF IsCall, NoCall
  <2> QED
    BY <1>2, <2>1, <2>2 DEF Ready, CallInv, Sound
<1>3. CASE Start
  <2>1. PICK checked, rewarded, take \in BOOLEAN :
            call' = [NoCall EXCEPT !.at = IF Usable = {} THEN "refused" ELSE "probe",
                                   !.chain = Ranked, !.checked = checked, !.rewarded = rewarded,
                                   !.take = take]
    BY <1>3 DEF Start
  <2> DEFINE at == IF Usable = {} THEN "refused" ELSE "probe"
             chain == Ranked
  <2>2. call' = [NoCall EXCEPT !.at = at, !.chain = chain, !.checked = checked,
                               !.rewarded = rewarded, !.take = take]
    BY <2>1
  <2> HIDE DEF at, chain
  <2>3. IsCall(call')
    BY <2>2 DEF IsCall, NoCall
  <2> QED
    BY <1>3, <2>3 DEF Start, CallInv, Sound
<1>4. CASE Probed
  <2>1. ASSUME NextProvider("transport") PROVE CallInv'
    BY <2>1, Leaving DEF CallInv
  <2>2. ASSUME call' = [call EXCEPT !.at = "call"], Send([call EXCEPT !.at = "call"]) PROVE CallInv'
    <3>1. IsCall([call EXCEPT !.at = "call"])
      BY DEF IsCall, CallInv
    <3> QED
      BY <2>2, <3>1, Sending DEF CallInv
  <2> QED
    BY <1>4, <2>1, <2>2 DEF Probed
<1>5. CASE Stream
  BY <1>5, Streaming DEF Stream, CallInv, IsCall
<1>6. CASE Judge
  BY <1>6, Judging DEF Judge
<1>7. CASE Gated
  <2>1. Again(Whole(call)) \/ NextProvider("transport")
    BY <1>7 DEF Gated, GiveUp
  <2> QED
    BY <2>1, Adapting, Repeating, Leaving DEF CallInv
<1>8. CASE Wake
  <2>1. IsCall([call EXCEPT !.at = "call"])
    BY DEF IsCall, CallInv
  <2> QED
    BY <1>8, <2>1, Sending DEF Wake, CallInv
<1>9. CASE Cancel
  BY <1>9 DEF Cancel, CallInv, IsCall, Sound
<1>10. CASE Take
  <2>1. IsCall([NoCall EXCEPT !.at = "idle"])
    BY DEF IsCall, NoCall
  <2> QED
    BY <1>10, <2>1 DEF Take, CallInv, Sound
<1>11. CASE TicketOutcome
  BY <1>11 DEF TicketOutcome, CallInv, IsCall, Sound
<1> QED
  BY <1>1, <1>2, <1>3, <1>4, <1>5, <1>6, <1>7, <1>8, <1>9, <1>10, <1>11 DEF Next, Internal

\* INVARIANT.  What a failed request says is what happened, with any timers, roster and
\* number of calls: how far the stream had come, and a diagnosis only of the silence it
\* ended in (armStallDiagnosis, streamProgress).
THEOREM FailuresAreExplained == Spec => []Explained
<1>1. Init => CallInv
  <2>1. IsCall(NoCall)
    BY DEF IsCall, NoCall
  <2> QED
    BY <2>1, Opening DEF Init, CallInv
<1>2. CallInv /\ [Next]_vars => CallInv'
  BY CallStep, StreamAssumption
<1>3. CallInv => Explained
  BY DEF CallInv, Sound, Explained
<1> QED
  BY <1>1, <1>2, <1>3, PTL DEF Spec

-----------------------------------------------------------------------------
(* The providers of a role.                                                 *)

\* Scores stay in their range, and of the candidates of a run that passed its check one is
\* enabled and present.
ScoresTyped == score \in [Providers -> 0..10] /\ user \in [Providers -> {Unset} \cup 0..10]
Provided ==
    call.at \notin {"start", "failed"} =>
        \E p \in ToSet(roster) \cap Providers : Score(p) > 0 /\ p \notin unavailable
Served == ScoresTyped /\ Provided

LEMMA Bounded ==
    ASSUME NEW p, NEW v \in Int
    PROVE  Clamp(p, v) \in 1..10 /\ MinFor(p) \in 1..10 /\ MaxFor(p) \in 1..10
BY DEF Clamp, MinFor, MaxFor, Lesser, Greater

LEMMA Decaying ==
    ASSUME ScoresTyped, NEW p
    PROVE  /\ Decayed(p) \in [Providers -> 0..10] /\ Boosted(p) \in [Providers -> 0..10]
           /\ \A q \in Providers :
                score[q] > 0 => Decayed(p)[q] > 0 /\ Boosted(p)[q] > 0
<1>1. CASE p \in Providers
  <2>1. score[p] \in 0..10 /\ MinFor(p) \in 1..10 /\ MaxFor(p) \in 1..10
    BY <1>1, Bounded DEF ScoresTyped
  <2>2. /\ Greater(MinFor(p), score[p] - DecayBy) \in 1..10
        /\ Lesser(MaxFor(p), score[p] + BoostBy) \in 1..10
    BY <2>1 DEF Greater, Lesser, DecayBy, BoostBy
  <2>3. ASSUME NEW f, NEW g \in 1..10, f \in {score, [score EXCEPT ![p] = g]}
        PROVE  f \in [Providers -> 0..10] /\ \A q \in Providers : score[q] > 0 => f[q] > 0
    BY <1>1, <2>3 DEF ScoresTyped
  <2>4. Decayed(p) \in {score, [score EXCEPT ![p] = Greater(MinFor(p), score[p] - DecayBy)]}
    BY DEF Decayed
  <2>5. Boosted(p) \in {score, [score EXCEPT ![p] = Lesser(MaxFor(p), score[p] + BoostBy)]}
    BY DEF Boosted
  <2> QED
    BY <2>2, <2>3, <2>4, <2>5
<1>2. CASE p \notin Providers
  BY <1>2 DEF Decayed, Boosted, ScoresTyped
<1> QED
  BY <1>1, <1>2

\* The outcome of a ticket, likewise, of any number of providers.
LEMMA Crediting ==
    ASSUME ScoresTyped, RecordTicketOutcome
    PROVE  /\ score' \in [Providers -> 0..10]
           /\ \A q \in Providers : score[q] > 0 => score'[q] > 0
<1>1. PICK providers \in SUBSET ToSet(roster), gap \in BOOLEAN :
        score' = [p \in Providers |->
                     IF p \notin providers THEN score[p]
                     ELSE IF gap THEN Decayed(p)[p] ELSE Boosted(p)[p]]
  BY DEF RecordTicketOutcome
<1>2. ASSUME NEW p \in Providers
      PROVE  /\ score[p] \in 0..10 /\ Decayed(p)[p] \in 0..10 /\ Boosted(p)[p] \in 0..10
             /\ score[p] > 0 => Decayed(p)[p] > 0 /\ Boosted(p)[p] > 0
  BY Decaying DEF ScoresTyped
<1>3. ASSUME NEW p \in Providers
      PROVE  score'[p] \in {score[p], Decayed(p)[p], Boosted(p)[p]}
  BY <1>1
<1>4. DOMAIN score' = Providers /\ score' = [p \in Providers |-> score'[p]]
  BY <1>1
<1>5. \A p \in Providers : score'[p] \in 0..10 /\ (score[p] > 0 => score'[p] > 0)
  BY <1>2, <1>3
<1> QED
  BY <1>4, <1>5

\* A provider in use loses or gains; what it had that is above 0 stays so.
LEMMA Scoring ==
    ASSUME Served, UNCHANGED <<user, roster, unavailable>>, call.at \notin {"start", "failed"},
           NEW p, score' \in {score, Decayed(p), Boosted(p)}
    PROVE  Served'
<1>1. ScoresTyped'
  BY Decaying DEF Served, ScoresTyped
<1>2. \A q \in Providers : score[q] > 0 => score'[q] > 0
  BY Decaying DEF Served
<1>3. PICK q \in ToSet(roster) \cap Providers : Score(q) > 0 /\ q \notin unavailable
  BY DEF Served, Provided
<1>4. (Score(q) > 0)'
  BY <1>2, <1>3 DEF Score
<1> QED
  BY <1>1, <1>3, <1>4 DEF Served, Provided

LEMMA Checking ==
    ASSUME ScoresAssumption, ScoresTyped, NEW passes \in BOOLEAN, Preflight(passes)
    PROVE  /\ ScoresTyped'
           /\ passes => \E p \in ToSet(roster') \cap Providers :
                            (Score(p) > 0)' /\ p \notin unavailable'
<1>1. PICK reachable \in BOOLEAN, present \in SUBSET (Ollama \cap ToSet(Role)), others \in BOOLEAN :
        LET checked == Checked(reachable, present)
            revived == IF AnyLive(checked, Role) THEN checked ELSE Revived(checked)
            rescue == ~ AnyLive(revived, Role)
            found == reachable /\ (others \/ present # {})
            imported == [revived EXCEPT ![Imported] = MaxFor(Imported)]
            extended == IF Explicit THEN Role ELSE Append(Role, Imported)
        IN /\ IF ~ rescue THEN passes /\ score' = revived /\ roster' = Role
              ELSE IF ~ found THEN ~ passes /\ score' = revived /\ roster' = Role
              ELSE /\ score' = imported /\ roster' = extended
                   /\ passes = AnyLive(imported, extended)
           /\ UNCHANGED user
  BY DEF Preflight
<1> DEFINE checked == Checked(reachable, present)
           revived == IF AnyLive(checked, Role) THEN checked ELSE Revived(checked)
           imported == [revived EXCEPT ![Imported] = MaxFor(Imported)]
           extended == IF Explicit THEN Role ELSE Append(Role, Imported)
<1>2. checked \in [Providers -> 0..10]
  BY Bounded DEF Checked, ScoresTyped
<1>3. revived \in [Providers -> 0..10]
  <2>1. Revived(checked) \in [Providers -> 0..10]
    <3>1. \A p \in Providers : MaxFor(p) \in 0..10
      BY DEF MaxFor
    <3> HIDE DEF checked
    <3> QED
      BY <1>2, <3>1 DEF Revived
  <2> HIDE DEF checked
  <2> QED
    BY <1>2, <2>1
<1>4. imported \in [Providers -> 0..10]
  <2> HIDE DEF revived
  <2> QED
    BY <1>3, Bounded
<1>5. ToSet(Role) \subseteq Providers /\ ToSet(extended) \subseteq Providers
  <2>1. ToSet(Append(Role, Imported)) \subseteq ToSet(Role) \cup {Imported}
    BY DEF ToSet, ScoresAssumption
  <2> QED
    BY <2>1 DEF Providers
<1>6. /\ (score' = revived \/ score' = imported) /\ user' = user
      /\ passes => \/ score' = revived /\ roster' = Role /\ AnyLive(revived, Role)
                   \/ score' = imported /\ roster' = extended /\ AnyLive(imported, extended)
  <2>1. CASE AnyLive(revived, Role)
    <3>1. user' = user /\ score' = revived /\ roster' = Role
      BY <1>1, <2>1
    <3> QED
      BY <2>1, <3>1
  <2>2. CASE ~ AnyLive(revived, Role)
    <3>1. user' = user /\ ((~ passes /\ score' = revived) \/
            (score' = imported /\ roster' = extended /\ passes = AnyLive(imported, extended)))
      BY <1>1, <2>2
    <3> HIDE DEF revived, imported, extended
    <3> QED
      BY <3>1
  <2> QED
    BY <2>1, <2>2
<1> HIDE DEF revived, imported, extended
<1>7. ScoresTyped'
  BY <1>3, <1>4, <1>6 DEF ScoresTyped
<1>8. ASSUME NEW names, ToSet(names) \subseteq Providers, AnyLive(score', names), roster' = names
      PROVE  \E p \in ToSet(roster') \cap Providers : (Score(p) > 0)' /\ p \notin unavailable'
  BY <1>6, <1>8 DEF AnyLive, LiveWith, Score
<1> QED
  BY <1>5, <1>6, <1>7, <1>8

LEMMA ServeStep ==
    ASSUME ScoresAssumption, Served, [Next]_vars
    PROVE  Served'
<1>1. ASSUME UNCHANGED scoring,
             call'.at \in {"start", "failed"} \/ call.at \notin {"start", "failed"}
      PROVE  Served'
  BY <1>1 DEF scoring, Served, ScoresTyped, Provided, Score
<1>2. ASSUME call.at \notin {"start", "failed"}, NEW kind, GiveUp(kind)
      PROVE  Served'
  BY <1>2, Scoring DEF GiveUp
<1>3. CASE UNCHANGED vars
  BY <1>3 DEF vars, scoring, Served, ScoresTyped, Provided, Score
<1>4. CASE Ready
  <2>1. PICK passes \in BOOLEAN :
            Preflight(passes) /\ call' = [NoCall EXCEPT !.at = IF passes THEN "idle" ELSE "failed"]
    BY <1>4 DEF Ready
  <2>2. call'.at = IF passes THEN "idle" ELSE "failed"
    BY <2>1 DEF NoCall
  <2> QED
    BY <2>1, <2>2, Checking DEF Served, Provided
<1>5. CASE Start
  BY <1>1, <1>5 DEF Start
<1>6. CASE Probed \/ Stream \/ Wake
  BY <1>1, <1>6 DEF Probed, Stream, Wake
<1>7. CASE Judge
  <2>1. call.at = "call"
    BY <1>7 DEF Judge
  <2>2. CASE req.outcome.ok
    <3>1. JudgeAnswer
      BY <1>7, <2>2 DEF Judge
    <3>2. UNCHANGED scoring \/ GiveUp("content") \/
            (score' \in {score, Boosted(Current)} /\ UNCHANGED <<user, roster, unavailable>>)
      BY <3>1 DEF JudgeAnswer
    <3> QED
      BY <1>1, <1>2, <2>1, <3>2, Scoring
  <2>3. CASE ~ req.outcome.ok
    <3>1. UNCHANGED scoring \/ GiveUp("transport")
      BY <1>7, <2>3 DEF Judge, JudgeFailure
    <3> QED
      BY <1>1, <1>2, <2>1, <3>1
  <2> QED
    BY <2>2, <2>3
<1>8. CASE Gated
  <2>1. call.at = "gate" /\ (UNCHANGED scoring \/ GiveUp("transport"))
    BY <1>8 DEF Gated
  <2> QED
    BY <1>1, <1>2, <2>1
<1>9. CASE Cancel
  <2>1. UNCHANGED scoring /\ call' = call
    BY <1>9 DEF Cancel
  <2> QED
    BY <1>1, <2>1 DEF scoring, Served, ScoresTyped, Provided, Score
<1>10. CASE Take
  BY <1>1, <1>10 DEF Take
<1>11. CASE TicketOutcome
  <2>1. /\ score' \in [Providers -> 0..10] /\ UNCHANGED <<call, user, roster, unavailable>>
        /\ \A q \in Providers : score[q] > 0 => score'[q] > 0
    BY <1>11, Crediting DEF TicketOutcome, RecordTicketOutcome, Served
  <2>2. ScoresTyped'
    BY <2>1 DEF Served, ScoresTyped
  <2>3. Provided'
    BY <2>1 DEF Served, Provided, Score
  <2> QED
    BY <2>2, <2>3 DEF Served
<1> QED
  BY <1>3, <1>4, <1>5, <1>6, <1>7, <1>8, <1>9, <1>10, <1>11 DEF Next, Internal

\* Only the beginning of a call refuses it, and only without a provider.
LEMMA RefuseStep ==
    ASSUME CallInv, call.at # "refused", [Next]_vars, call.at = "idle" => Usable # {}
    PROVE  call'.at # "refused"
<1>1. ASSUME NEW kind, NextProvider(kind) PROVE call'.at # "refused"
  <2>1. CASE Left > 0
    BY <1>1, <2>1 DEF NextProvider, CallInv, IsCall
  <2>2. CASE ~ (Left > 0)
    BY <1>1, <2>2 DEF NextProvider, End, NoCall
  <2> QED
    BY <2>1, <2>2
<1>2. ASSUME NEW c, IsCall(c), Again(c) PROVE call'.at # "refused"
  BY <1>2 DEF Again, IsCall
<1>3. ASSUME NEW c, IsCall(c), NEW at \in {"call", "wait", "gate"}, NEW try,
             call' \in {[c EXCEPT !.at = at], [c EXCEPT !.at = at, !.try = try]}
      PROVE  call'.at # "refused"
  BY <1>3 DEF IsCall
<1>4. CASE UNCHANGED vars
  BY <1>4 DEF vars
<1>5. CASE Ready
  BY <1>5 DEF Ready, NoCall
<1>6. CASE Start
  BY <1>6 DEF Start, NoCall
<1>7. CASE Probed
  <2>1. NextProvider("transport") \/ call' = [call EXCEPT !.at = "call"]
    BY <1>7 DEF Probed
  <2> QED
    BY <1>1, <1>3, <2>1 DEF CallInv
<1>8. CASE Stream \/ Cancel
  BY <1>8 DEF Stream, Cancel
<1>9. CASE Judge
  <2>1. IsCall(call) /\ IsCall(Whole(call))
    BY Adapting DEF CallInv
  <2>2. ASSUME NEW out, End(out) PROVE call'.at # "refused"
    BY <2>2 DEF End, NoCall
  <2>3. CASE JudgeFailure
    <3> DEFINE adapted == IF WithoutStreaming(req.outcome) THEN Whole(call) ELSE call
    <3>1. IsCall(adapted)
      BY <2>1
    <3>2. \/ End("cancelled") \/ GiveUp("transport") \/ Again(adapted)
          \/ call' = [adapted EXCEPT !.at = "wait", !.try = adapted.try + 1]
          \/ call' = [call EXCEPT !.at = "gate"]
      BY <2>3 DEF JudgeFailure
    <3> HIDE DEF adapted
    <3>3. CASE call' = [adapted EXCEPT !.at = "wait", !.try = adapted.try + 1]
      BY <1>3, <3>1, <3>3
    <3>4. CASE call' = [call EXCEPT !.at = "gate"]
      BY <1>3, <2>1, <3>4
    <3> QED
      BY <1>1, <1>2, <2>2, <3>1, <3>2, <3>3, <3>4 DEF GiveUp
  <2>4. CASE JudgeAnswer
    BY <1>1, <1>2, <2>1, <2>2, <2>4 DEF JudgeAnswer, GiveUp
  <2> QED
    BY <1>9, <2>3, <2>4 DEF Judge
<1>10. CASE Gated
  BY <1>1, <1>2, <1>10, Adapting DEF Gated, GiveUp, CallInv
<1>11. CASE Wake
  BY <1>3, <1>11 DEF Wake, CallInv
<1>12. CASE Take
  BY <1>12 DEF Take, NoCall
<1>13. CASE TicketOutcome
  BY <1>13 DEF TicketOutcome
<1> QED
  BY <1>4, <1>5, <1>6, <1>7, <1>8, <1>9, <1>10, <1>11, <1>12, <1>13 DEF Next, Internal

\* What the runs begin with.
LEMMA InitServes ==
    ASSUME Init
    PROVE  Served /\ CallInv /\ NeverRefused
<1>1. ScoresTyped
  <2>1. PICK snapshot \in Snapshots :
          score = [p \in Providers |-> IF snapshot[p] = 0 THEN 0 ELSE Clamp(p, snapshot[p])]
    BY DEF Init, ScoresInit
  <2>2. snapshot \in [Providers -> 0..10] /\ user \in [Providers -> {Unset} \cup 0..10]
    BY ScoresAssumption DEF Init, ScoresInit, ScoresAssumption
  <2>3. \A p \in Providers : Clamp(p, snapshot[p]) \in 0..10
    BY <2>2, Bounded
  <2> QED
    BY <2>1, <2>2, <2>3 DEF ScoresTyped
<1>2. call = NoCall /\ req = NoRequest /\ NoCall.at = "start" /\ IsCall(NoCall)
  BY DEF Init, NoCall, IsCall
<1> QED
  BY <1>1, <1>2, Opening DEF Served, Provided, CallInv, NeverRefused

\* INVARIANT.  A run whose check passed never has a call refused for want of a provider,
\* whatever fails in it, and however often: any roster, scores and overrides
\* (FallbackClient, ScoreStore, preflightProviders).
THEOREM ProvidersRemain == Spec => []NeverRefused
<1> DEFINE Inv == Served /\ CallInv /\ NeverRefused
<1>1. Init => Inv
  BY InitServes
<1>2. Inv /\ [Next]_vars => Inv'
  <2> SUFFICES ASSUME Inv, [Next]_vars PROVE Inv'
    OBVIOUS
  <2>1. Served' /\ CallInv'
    BY ServeStep, CallStep, ScoresAssumption, StreamAssumption
  <2>2. call.at = "idle" => Usable # {}
    BY DEF Served, Provided, Usable
  <2> QED
    BY <2>1, <2>2, RefuseStep DEF NeverRefused
<1> QED
  BY <1>1, <1>2, PTL DEF Spec

-----------------------------------------------------------------------------
(* The call as its callers see it.                                          *)

\* A call has a provider and others after it, and is at its gate only before its last try.
UnderCall == {"probe", "call", "gate", "wait"}
InCall(c) ==
    /\ c.at \in UnderCall \cup {"start", "idle", "failed", "done"}
    /\ Len(c.chain) \in Nat /\ c.i \in Nat \ {0} /\ c.try \in Nat /\ c.content \in BOOLEAN
    /\ c.at \in UnderCall => c.i <= Len(c.chain)
    /\ c.at = "gate" => c.try < MaxTransient
Listed == ToSet(roster) \subseteq Providers /\ IsFiniteSet(ToSet(roster)) /\ IsFiniteSet(Providers)
RouteInv == InCall(call) /\ IsCall(call) /\ Listed

LEMMA NamesAreFew ==
    ASSUME ScoresAssumption
    PROVE  /\ IsFiniteSet(ToSet(Role)) /\ IsFiniteSet(Providers)
           /\ \A names \in {Role, Append(Role, Imported)} :
                ToSet(names) \subseteq Providers /\ IsFiniteSet(ToSet(names))
<1>1. Role \in Seq(ToSet(Role)) /\ Len(Role) \in Nat /\ DOMAIN Role = 1..Len(Role)
  BY DEF ScoresAssumption
<1>2. IsFiniteSet(ToSet(Role))
  <2>1. IsFiniteSet(1..Len(Role))
    BY <1>1, FS_Interval
  <2>2. ToSet(Role) = {Role[i] : i \in 1..Len(Role)}
    BY <1>1 DEF ToSet
  <2> DEFINE f == [i \in 1..Len(Role) |-> Role[i]]
  <2>3. f \in Surjection(1..Len(Role), ToSet(Role))
    BY <2>2 DEF Surjection
  <2> QED
    BY <2>1, <2>3, FS_Surjection
<1>3. IsFiniteSet(Providers)
  BY <1>2, FS_AddElement DEF Providers
<1>4. ToSet(Append(Role, Imported)) \subseteq Providers
  <2> DEFINE g == Append(Role, Imported)
  <2>1. /\ DOMAIN g = 1..(Len(Role) + 1) /\ g[Len(Role) + 1] = Imported
        /\ \A i \in 1..Len(Role) : g[i] = Role[i]
    <3>1. Role \in Seq(Providers) /\ Imported \in Providers
      <4>1. ToSet(Role) \subseteq Providers /\ Imported \in Providers
        BY DEF Providers
      <4> HIDE DEF Providers
      <4> QED
        BY <1>1, <4>1
    <3> HIDE DEF Providers
    <3> QED
      BY <1>1, <3>1
  <2>2. \A i \in 1..(Len(Role) + 1) : i \in 1..Len(Role) \/ i = Len(Role) + 1
    BY <1>1
  <2>3. \A i \in 1..Len(Role) : Role[i] \in ToSet(Role)
    BY <1>1 DEF ToSet
  <2>4. \A i \in DOMAIN g : g[i] \in Providers
    BY <2>1, <2>2, <2>3 DEF Providers
  <2> HIDE DEF g
  <2>5. ToSet(g) \subseteq Providers
    BY <2>4 DEF ToSet
  <2> QED
    BY <2>5 DEF g
<1>5. ToSet(Role) \subseteq Providers
  BY DEF Providers
<1> QED
  BY <1>2, <1>3, <1>4, <1>5, FS_Subset

\* What the mapping shows of a call that is under way.
Shown(c, at) ==
    [at |-> at, left |-> Len(c.chain) - c.i + 1, try |-> c.try, content |-> c.content, out |-> "none"]

LEMMA Showing ==
    ASSUME NEW c
    PROVE  /\ c.at \in {"call", "gate"} => RoutedAs(c) = Shown(c, "call")
           /\ c.at = "wait" => RoutedAs(c) = Shown(c, "wait")
           /\ c.at = "probe" => RoutedAs(c) = Shown(c, IF c.i > 1 THEN "switch" ELSE "call")
<1>1. CASE c.at \in {"call", "gate"}
  BY <1>1 DEF RoutedAs, Shown
<1>2. CASE c.at = "wait"
  BY <1>2 DEF RoutedAs, Shown
<1>3. CASE c.at = "probe"
  <2>1. CASE c.i > 1
    BY <1>3, <2>1 DEF RoutedAs, Shown
  <2>2. CASE ~ (c.i > 1)
    BY <1>3, <2>2 DEF RoutedAs, Shown
  <2> QED
    BY <2>1, <2>2
<1> QED
  BY <1>1, <1>2, <1>3

\* A call under way is shown by its place, and by what is left of it.
LEMMA Viewing ==
    ASSUME call.at \in UnderCall
    PROVE  \E at \in {"call", "wait", "switch"} : Routed = Shown(call, at)
<1>1. CASE call.at \in {"call", "gate"}
  BY <1>1, Showing DEF Routed
<1>2. CASE call.at = "wait"
  BY <1>2, Showing DEF Routed
<1>3. CASE call.at = "probe"
  <2> DEFINE at == IF call.i > 1 THEN "switch" ELSE "call"
  <2>1. Routed = Shown(call, at) /\ at \in {"call", "wait", "switch"}
    BY <1>3, Showing DEF Routed
  <2> QED
    BY <2>1
<1> QED
  BY <1>1, <1>2, <1>3 DEF UnderCall

LEMMA Ending ==
    ASSUME NEW out, End(out)
    PROVE  InCall(call') /\ Router!Ended(out) /\ RoutedAs(call') = [Router!NoChat EXCEPT !.at = "done", !.out = out]
<1>1. /\ call'.at = "done" /\ call'.out = out /\ Len(call'.chain) = 0 /\ call'.i = 1 /\ call'.try = 1
      /\ call'.content = TRUE
  BY DEF End, NoCall
<1>2. InCall(call')
  <2>1. call'.at \in {"start", "idle", "failed", "done"} /\ call'.at \notin UnderCall /\ call'.at # "gate"
    BY <1>1 DEF UnderCall
  <2>2. Len(call'.chain) \in Nat /\ call'.i \in Nat \ {0} /\ call'.try \in Nat /\ call'.content \in BOOLEAN
    <3>1. Len(call'.chain) = 0 /\ call'.i = 1 /\ call'.try = 1 /\ call'.content = TRUE
      BY <1>1
    <3>2. call'.content \in BOOLEAN
      BY <3>1
    <3> QED
      BY <3>1, <3>2
  <2> QED
    BY <1>1, <2>1, <2>2 DEF InCall
<1>3. RoutedAs(call') = [Router!NoChat EXCEPT !.at = "done", !.out = out]
  BY <1>1 DEF RoutedAs, NotRouted, Router!NoChat
<1>4. Routed' = RoutedAs(call')
  BY DEF Routed
<1> QED
  BY <1>2, <1>3, <1>4 DEF Router!Ended

\* A provider that is left for good is left in LlmRouter.
LEMMA LeavingIsRouted ==
    ASSUME RouteInv, call.at \in UnderCall, NEW kind, NextProvider(kind)
    PROVE  InCall(call') /\ Router!NextProvider(kind)
<1>1. Routed = RoutedAs(call) /\ Routed' = RoutedAs(call')
  BY DEF Routed
<1>2. /\ Routed.left = Left + 1 /\ Routed.content = call.content
      /\ Routed = [at |-> Routed.at, left |-> Left + 1, try |-> call.try,
                   content |-> call.content, out |-> "none"]
  BY Viewing DEF Left, Shown
<1>3. Left \in Int
  BY DEF RouteInv, InCall, Left
<1>4. CASE Left > 0
  <2> DEFINE content == call.content /\ kind = "content"
  <2>1. call' = [call EXCEPT !.at = "probe", !.i = @ + 1, !.try = 1, !.content = content,
                             !.take = @ \/ call.capped, !.capped = FALSE]
    BY <1>4 DEF NextProvider
  <2>2. content \in BOOLEAN
    OBVIOUS
  <2> HIDE DEF content
  <2>3. /\ call'.at = "probe" /\ call'.i = call.i + 1 /\ call'.try = 1 /\ call'.content = content
        /\ call'.chain = call.chain
    BY <2>1 DEF RouteInv, IsCall
  <2>4. call'.i > 1 /\ call'.i \in Nat \ {0} /\ call'.i <= Len(call.chain) /\ Len(call.chain) - call'.i + 1 = Left
    BY <1>4, <2>3 DEF RouteInv, InCall, Left
  <2>5. InCall(call')
    BY <2>2, <2>3, <2>4 DEF InCall, RouteInv, UnderCall
  <2>6. Routed' = [at |-> "switch", left |-> Left, try |-> 1, content |-> content, out |-> "none"]
    BY <1>1, <2>3, <2>4, Showing DEF Shown
  <2>7. Routed' = [Routed EXCEPT !.at = "switch", !.left = @ - 1, !.try = 1, !.content = content]
    <3> DEFINE before == Routed.at
               left == Left + 1
               less == Routed.left - 1
               switched == [Routed EXCEPT !.at = "switch"]
               shorter == [switched EXCEPT !.left = less]
               first == [shorter EXCEPT !.try = 1]
    <3>1. Routed = [at |-> before, left |-> left, try |-> call.try, content |-> call.content, out |-> "none"]
      BY <1>2
    <3>2. less = Left
      BY <1>2, <1>3
    <3> HIDE DEF before, less, left
    <3>3. switched = [at |-> "switch", left |-> left, try |-> call.try, content |-> call.content, out |-> "none"]
      BY <3>1
    <3> HIDE DEF switched
    <3>4. shorter = [at |-> "switch", left |-> less, try |-> call.try, content |-> call.content, out |-> "none"]
      BY <3>3
    <3> HIDE DEF shorter
    <3>5. first = [at |-> "switch", left |-> less, try |-> 1, content |-> call.content, out |-> "none"]
      BY <3>4
    <3> HIDE DEF first
    <3>6. Routed' = [first EXCEPT !.content = content]
      BY <2>6, <3>2, <3>5
    <3> QED
      BY <3>6 DEF first, shorter, switched, less
  <2>8. Routed.left > 1 /\ content = (Routed.content /\ kind = "content")
    BY <1>2, <1>3, <1>4 DEF content
  <2> QED
    BY <2>5, <2>7, <2>8 DEF Router!NextProvider
<1>5. CASE ~ (Left > 0)
  <2> DEFINE out == IF call.content /\ kind = "content" THEN "content" ELSE "infrastructure"
  <2>1. End(out)
    BY <1>5 DEF NextProvider
  <2>2. InCall(call') /\ Router!Ended(out)
    BY <2>1, Ending
  <2>3. ~ (Routed.left > 1) /\ out = IF Routed.content /\ kind = "content" THEN "content" ELSE "infrastructure"
    BY <1>2, <1>3, <1>5
  <2> QED
    BY <2>2, <2>3 DEF Router!NextProvider
<1> QED
  BY <1>4, <1>5

\* The same provider is asked again.
LEMMA AgainIsRouted ==
    ASSUME RouteInv, call.at \in {"call", "gate"},
           NEW c \in {call, Whole(call)},
           NEW at \in {"call", "wait"}, call' = [c EXCEPT !.at = at, !.try = @ + 1]
    PROVE  /\ InCall(call') /\ Routed.at = "call" /\ Routed.try = call.try
           /\ at = "call" => Router!Again
           /\ at = "wait" => Routed' = [Routed EXCEPT !.at = "wait", !.try = @ + 1]
<1>0. Routed = RoutedAs(call) /\ Routed' = RoutedAs(call')
  BY DEF Routed
<1>1. /\ IsCall(c) /\ c.chain = call.chain /\ c.i = call.i /\ c.try = call.try /\ c.content = call.content
  BY Adapting DEF RouteInv, IsCall, Whole
<1>2. /\ call'.at = at /\ call'.chain = call.chain /\ call'.i = call.i /\ call'.try = call.try + 1
      /\ call'.content = call.content
  BY <1>1 DEF IsCall
<1>3. InCall(call')
  BY <1>2 DEF RouteInv, InCall, UnderCall
<1>4. Routed = Shown(call, "call")
  BY <1>0, Showing
<1>5. Routed' = Shown(call', at)
  <2>1. CASE at = "call"
    BY <1>0, <1>2, <2>1, Showing
  <2>2. CASE at = "wait"
    BY <1>0, <1>2, <2>2, Showing
  <2> QED
    BY <2>1, <2>2
<1>6. Routed' = [Routed EXCEPT !.at = at, !.try = @ + 1]
  <2> DEFINE more == Routed.try + 1
  <2>1. more = call.try + 1
    BY <1>4 DEF Shown
  <2> HIDE DEF more
  <2> DEFINE left == Len(call.chain) - call.i + 1
             moved == [Routed EXCEPT !.at = at]
  <2>2. /\ Routed = [at |-> "call", left |-> left, try |-> call.try, content |-> call.content, out |-> "none"]
        /\ Routed' = [at |-> at, left |-> left, try |-> more, content |-> call.content, out |-> "none"]
    BY <1>2, <1>4, <1>5, <2>1 DEF Shown
  <2> HIDE DEF left
  <2>3. moved = [at |-> at, left |-> left, try |-> call.try, content |-> call.content, out |-> "none"]
    BY <2>2
  <2> HIDE DEF moved
  <2>4. Routed' = [moved EXCEPT !.try = more]
    BY <2>2, <2>3
  <2> QED
    BY <2>4 DEF moved, more
<1>7. CASE at = "call"
  <2>1. Routed' = [Routed EXCEPT !.try = @ + 1]
    BY <1>2, <1>4, <1>5, <1>7 DEF Shown
  <2> QED
    BY <1>3, <1>4, <1>7, <2>1 DEF Router!Again, Shown
<1>8. CASE at = "wait"
  BY <1>3, <1>4, <1>6, <1>8 DEF Shown
<1> QED
  BY <1>7, <1>8

\* A step of the call that its callers do not see, or that takes it from where it waits.
LEMMA GoingOn ==
    ASSUME RouteInv, call.at \in UnderCall, NEW at \in {"call", "gate"}, call' = [call EXCEPT !.at = at],
           at = "gate" => call.try < MaxTransient
    PROVE  InCall(call') /\ Routed' = [Routed EXCEPT !.at = "call"]
<1>0. Routed = RoutedAs(call) /\ Routed' = RoutedAs(call')
  BY DEF Routed
<1>1. /\ call'.at = at /\ call'.chain = call.chain /\ call'.i = call.i /\ call'.try = call.try
      /\ call'.content = call.content
  BY DEF RouteInv, IsCall
<1>2. InCall(call')
  BY <1>1 DEF RouteInv, InCall, UnderCall
<1>3. Routed' = Shown(call', "call")
  <2>1. call'.at \in {"call", "gate"}
    BY <1>1
  <2> QED
    BY <1>0, <2>1, Showing
<1>4. PICK before : Routed = Shown(call, before)
  BY Viewing
<1> QED
  BY <1>1, <1>2, <1>3, <1>4 DEF Shown

RoutedStep ==
    Routed' = Routed \/ Router!StartChat \/ Router!Take \/ Router!ChatStep(cancelled, call.checked)

LEMMA JudgingIsRouted ==
    ASSUME RouteInv, call.at = "call", CallAssumption, JudgeFailure \/ JudgeAnswer
    PROVE  InCall(call') /\ RoutedStep
<1>1. Routed.at = "call" /\ Routed.try = call.try
  BY Showing DEF Routed, Shown
<1>2. call.try \in Nat /\ MaxTransient = 2 /\ Router!MaxTransient = 2
  BY DEF RouteInv, InCall, MaxTransient, Router!MaxTransient
<1>3. ASSUME GiveUp("transport") PROVE InCall(call') /\ RoutedStep
  <2>1. InCall(call') /\ Router!NextProvider("transport")
    BY <1>3, LeavingIsRouted DEF GiveUp, UnderCall
  <2>2. Router!Call("final")
    BY <1>1, <2>1 DEF Router!Call
  <2> QED
    BY <2>1, <2>2 DEF RoutedStep, Router!ChatStep, Router!CallFailures
<1>4. CASE JudgeFailure
  <2> DEFINE words == req.outcome.words
             limited == RateLimited(words)
             attempts == IF limited THEN 1 + MaxRetries ELSE MaxTransient
             adapted == IF WithoutStreaming(req.outcome) THEN Whole(call) ELSE call
  <2>0. adapted \in {call, Whole(call)}
    OBVIOUS
  <2>1. \/ cancelled /\ End("cancelled")
        \/ GiveUp("transport")
        \/ call.try < attempts /\ limited /\ call' = [adapted EXCEPT !.at = "wait", !.try = @ + 1]
        \/ ~ (call.try < attempts /\ limited) /\ call.try < attempts /\ Again(adapted)
        \/ call.try < MaxTransient /\ call' = [call EXCEPT !.at = "gate"]
    BY <1>4 DEF JudgeFailure
  <2>2. CASE cancelled /\ End("cancelled")
    BY <1>1, <2>2, Ending DEF RoutedStep, Router!ChatStep, Router!Abort
  <2>3. CASE call.try < attempts /\ limited /\ call' = [adapted EXCEPT !.at = "wait", !.try = @ + 1]
    <3>1. call.try < 1 + MaxRetries
      BY <2>3
    <3> HIDE DEF adapted, attempts, limited
    <3>2. InCall(call') /\ Routed' = [Routed EXCEPT !.at = "wait", !.try = @ + 1]
      BY <2>0, <2>3, AgainIsRouted
    <3>3. Router!Call("limited")
      BY <1>1, <3>1, <3>2 DEF Router!Call, Router!Attempts
    <3> QED
      BY <3>2, <3>3 DEF RoutedStep, Router!ChatStep, Router!CallFailures
  <2>4. CASE ~ (call.try < attempts /\ limited) /\ call.try < attempts /\ Again(adapted)
    <3>1. call.try < 2
      BY <1>2, <2>4
    <3>2. call' = [adapted EXCEPT !.at = "call", !.try = @ + 1]
      BY <2>4 DEF Again
    <3> HIDE DEF adapted, attempts, limited
    <3>3. InCall(call') /\ Router!Again
      BY <2>0, <3>2, AgainIsRouted
    <3>4. Router!Call("broken")
      BY <1>1, <1>2, <3>1, <3>3 DEF Router!Call, Router!Attempts
    <3> QED
      BY <3>3, <3>4 DEF RoutedStep, Router!ChatStep, Router!CallFailures
  <2>5. CASE call.try < MaxTransient /\ call' = [call EXCEPT !.at = "gate"]
    <3>1. InCall(call') /\ Routed' = [Routed EXCEPT !.at = "call"]
      BY <2>5, GoingOn DEF UnderCall
    <3>2. Routed = [Routed EXCEPT !.at = "call"]
      BY <1>1, Showing DEF Routed, Shown
    <3> QED
      BY <3>1, <3>2 DEF RoutedStep
  <2> HIDE DEF adapted, attempts, limited
  <2> QED
    BY <1>3, <2>1, <2>2, <2>3, <2>4, <2>5
<1>5. CASE JudgeAnswer
  <2>1. \/ call.checked /\ call.try < MaxTransient /\ Again(call)
        \/ call.checked /\ ~ (call.try < MaxTransient) /\ GiveUp("content")
        \/ End("answer")
    BY <1>5 DEF JudgeAnswer
  <2>2. CASE call.checked /\ call.try < MaxTransient /\ Again(call)
    <3>1. call' = [call EXCEPT !.at = "call", !.try = @ + 1]
      BY <2>2 DEF Again
    <3>2. InCall(call') /\ Router!Again
      BY <3>1, AgainIsRouted
    <3>3. Router!Refuse
      BY <1>1, <1>2, <2>2, <3>2 DEF Router!Refuse
    <3> QED
      BY <2>2, <3>2, <3>3 DEF RoutedStep, Router!ChatStep
  <2>3. CASE call.checked /\ ~ (call.try < MaxTransient) /\ GiveUp("content")
    <3>1. InCall(call') /\ Router!NextProvider("content")
      BY <2>3, LeavingIsRouted DEF GiveUp, UnderCall
    <3>2. Router!Refuse
      BY <1>1, <1>2, <2>3, <3>1 DEF Router!Refuse
    <3> QED
      BY <2>3, <3>1, <3>2 DEF RoutedStep, Router!ChatStep
  <2>4. CASE End("answer")
    BY <1>1, <2>4, Ending DEF RoutedStep, Router!ChatStep, Router!Answer
  <2> QED
    BY <2>1, <2>2, <2>3, <2>4
<1> QED
  BY <1>4, <1>5

\* A call starts with the providers that are usable, and there is one.
LEMMA RanksAreCounted ==
    ASSUME Listed, Usable # {}
    PROVE  Len(Ranked) \in 1..Cardinality(Providers)
<1> DEFINE k == Cardinality(Usable)
<1>1. Usable \subseteq Providers
  BY DEF Listed, Usable
<1>2. IsFiniteSet(Usable) /\ k \in Nat /\ k <= Cardinality(Providers) /\ Cardinality(Providers) \in Nat
  BY <1>1, FS_Subset, FS_CardinalityType DEF Listed
<1>3. k # 0
  BY <1>2, FS_EmptySet
<1>4. Ranked = [n \in 1..k |-> AtRank(n)]
  BY DEF Ranked
<1> HIDE DEF k
<1>5. Len(Ranked) = k
  <2> DEFINE S == {AtRank(n) : n \in 1..k}
  <2>1. Ranked \in [1..k -> S]
    BY <1>4
  <2> HIDE DEF S
  <2>2. Ranked \in Seq(S)
    BY <1>2, <2>1
  <2> QED
    BY <1>2, <1>4, <2>2
<1> QED
  BY <1>2, <1>3, <1>5

LEMMA StartIsRouted ==
    ASSUME RouteInv, Start, Usable # {}
    PROVE  InCall(call') /\ Router!StartChat
<1> DEFINE n == Len(Ranked)
<1>1. n \in 1..Cardinality(Providers) /\ n \in Nat /\ n >= 1
  BY RanksAreCounted, FS_CardinalityType DEF RouteInv, Listed
<1>2. Routed.at = "idle"
  BY DEF Start, Routed, RoutedAs, NotRouted
<1>3. /\ call'.at = "probe" /\ call'.i = 1 /\ call'.try = 1 /\ call'.content = TRUE
      /\ call'.chain = Ranked
  BY DEF Start, NoCall
<1> HIDE DEF n
<1>4. InCall(call')
  <2>1. call'.content \in BOOLEAN /\ Len(call'.chain) = n
    BY <1>3 DEF n
  <2> QED
    BY <1>1, <1>3, <2>1 DEF InCall, UnderCall
<1>5. Routed' = [at |-> "call", left |-> n, try |-> 1, content |-> TRUE, out |-> "none"]
  <2>1. Routed' = Shown(call', "call")
    BY <1>3, Showing DEF Routed
  <2>2. Len(call'.chain) - call'.i + 1 = n
    BY <1>1, <1>3 DEF n
  <2> QED
    BY <1>3, <2>1, <2>2 DEF Shown
<1>6. Routed' = [Router!NoChat EXCEPT !.at = "call", !.left = n, !.try = 1]
  <2> DEFINE none == 0
             one == 1
             yes == TRUE
             c0 == Router!NoChat
             c1 == [c0 EXCEPT !.at = "call"]
             c2 == [c1 EXCEPT !.left = n]
  <2>1. c0 = [at |-> "idle", left |-> none, try |-> none, content |-> yes, out |-> "none"]
    BY DEF Router!NoChat
  <2>2. Routed' = [at |-> "call", left |-> n, try |-> one, content |-> yes, out |-> "none"]
    BY <1>5
  <2> HIDE DEF c0, none, one, yes
  <2>3. c1 = [at |-> "call", left |-> none, try |-> none, content |-> yes, out |-> "none"]
    BY <2>1
  <2> HIDE DEF c1
  <2>4. c2 = [at |-> "call", left |-> n, try |-> none, content |-> yes, out |-> "none"]
    BY <2>3
  <2> HIDE DEF c2
  <2>5. Routed' = [c2 EXCEPT !.try = one]
    BY <2>2, <2>4
  <2> QED
    BY <2>5 DEF c0, c1, c2, one
<1> QED
  BY <1>1, <1>2, <1>4, <1>6 DEF Router!StartChat, Router!Chatting

LEMMA RosterStep ==
    ASSUME Listed, [Next]_vars, ScoresAssumption
    PROVE  Listed'
<1>1. roster' = roster \/ roster' \in {Role, Append(Role, Imported)}
  <2>1. ASSUME NEW kind, GiveUp(kind) PROVE roster' = roster
    BY <2>1 DEF GiveUp
  <2>2. CASE Ready
    BY <2>2 DEF Ready, Preflight
  <2>3. CASE Judge
    <3>1. CASE JudgeFailure
      BY <2>1, <3>1 DEF JudgeFailure, scoring
    <3>2. CASE JudgeAnswer
      BY <2>1, <3>2 DEF JudgeAnswer, scoring
    <3> QED
      BY <2>3, <3>1, <3>2 DEF Judge
  <2>4. CASE Gated
    BY <2>1, <2>4 DEF Gated, scoring
  <2>5. CASE Start \/ Probed \/ Stream \/ Wake \/ Cancel \/ Take \/ UNCHANGED vars
    BY <2>5 DEF Start, Probed, Stream, Wake, Cancel, Take, vars, scoring
  <2>6. CASE TicketOutcome
    BY <2>6 DEF TicketOutcome, RecordTicketOutcome
  <2> QED
    BY <2>2, <2>3, <2>4, <2>5, <2>6 DEF Next, Internal
<1>2. CASE roster' = roster
  BY <1>2 DEF Listed
<1>3. CASE roster' \in {Role, Append(Role, Imported)}
  BY <1>3, NamesAreFew DEF Listed
<1> QED
  BY <1>1, <1>2, <1>3

\* Every step of the call is one of LlmRouter, or none it sees.
LEMMA RouteStep ==
    ASSUME RouteInv, [Next]_vars, call.at = "idle" => Usable # {}, ScoresAssumption, CallAssumption
    PROVE  InCall(call') /\ RoutedStep
<1>2. ASSUME call' = call PROVE InCall(call') /\ RoutedStep
  BY <1>2 DEF RouteInv, RoutedStep, Routed
<1>3. CASE Ready
  <2>1. call.at = "start" /\ call'.at \in {"idle", "failed"} /\ Len(call'.chain) = 0 /\ call'.i = 1
        /\ call'.try = 1 /\ call'.content = TRUE
    BY <1>3 DEF Ready, NoCall
  <2>2. InCall(call')
    <3>1. call'.at \notin UnderCall /\ call'.at # "gate" /\ call'.content \in BOOLEAN
      BY <2>1 DEF UnderCall
    <3> QED
      BY <2>1, <3>1 DEF InCall
  <2>3. Routed' = NotRouted /\ Routed = NotRouted
    BY <2>1 DEF Routed, RoutedAs
  <2> QED
    BY <2>2, <2>3 DEF RoutedStep
<1>4. CASE Start
  <2>1. InCall(call') /\ Router!StartChat
    BY <1>4, StartIsRouted DEF Start
  <2> QED
    BY <2>1 DEF RoutedStep
<1>5. CASE Probed
  <2>1. Routed = Shown(call, IF call.i > 1 THEN "switch" ELSE "call")
    BY <1>5, Showing DEF Routed, Probed
  <2>2. CASE call.i > 1 /\ Left > 0 /\ NextProvider("transport")
    <3>1. InCall(call') /\ Router!NextProvider("transport")
      BY <1>5, <2>2, LeavingIsRouted DEF Probed, UnderCall
    <3>2. Routed.at = "switch" /\ Routed.left > 1
      BY <2>1, <2>2 DEF Shown, Left, RouteInv, InCall
    <3>3. Router!Switch
      BY <3>1, <3>2 DEF Router!Switch
    <3> QED
      BY <3>1, <3>3 DEF RoutedStep, Router!ChatStep
  <2>3. CASE call' = [call EXCEPT !.at = "call"]
    <3>1. InCall(call') /\ Routed' = [Routed EXCEPT !.at = "call"]
      BY <1>5, <2>3, GoingOn DEF Probed, UnderCall
    <3>2. CASE call.i > 1
      <4>1. Routed.at = "switch"
        BY <2>1, <3>2 DEF Shown
      <4>2. Router!Switch
        BY <3>1, <4>1 DEF Router!Switch
      <4> QED
        BY <3>1, <4>2 DEF RoutedStep, Router!ChatStep
    <3>3. CASE ~ (call.i > 1)
      <4>1. Routed = [Routed EXCEPT !.at = "call"]
        BY <2>1, <3>3 DEF Shown
      <4> QED
        BY <3>1, <4>1 DEF RoutedStep
    <3> QED
      BY <3>2, <3>3
  <2> QED
    BY <1>5, <2>2, <2>3 DEF Probed
<1>6. CASE Stream \/ Cancel \/ TicketOutcome \/ UNCHANGED vars
  BY <1>2, <1>6 DEF Stream, Cancel, TicketOutcome, vars
<1>7. CASE Judge
  BY <1>7, JudgingIsRouted DEF Judge
<1>8. CASE Gated
  <2>0. Routed.at = "call" /\ Routed.try = call.try /\ call.try < MaxTransient
    BY <1>8, Showing DEF Gated, Routed, Shown, RouteInv, InCall
  <2>1. CASE Again(Whole(call))
    <3>1. call' = [Whole(call) EXCEPT !.at = "call", !.try = @ + 1]
      BY <2>1 DEF Again
    <3>2. InCall(call') /\ Router!Again
      BY <1>8, <3>1, AgainIsRouted DEF Gated
    <3>3. Router!Call("unconnected")
      BY <2>0, <3>2 DEF Router!Call, Router!MaxTransient, MaxTransient
    <3> QED
      BY <3>2, <3>3 DEF RoutedStep, Router!ChatStep, Router!CallFailures
  <2>2. CASE GiveUp("transport")
    <3>1. InCall(call') /\ Router!NextProvider("transport")
      BY <1>8, <2>2, LeavingIsRouted DEF Gated, GiveUp, UnderCall
    <3>2. Router!Call("final")
      BY <2>0, <3>1 DEF Router!Call
    <3> QED
      BY <3>1, <3>2 DEF RoutedStep, Router!ChatStep, Router!CallFailures
  <2> QED
    BY <1>8, <2>1, <2>2 DEF Gated
<1>9. CASE Wake
  <2>1. call' = [call EXCEPT !.at = "call"] /\ call.at = "wait"
    BY <1>9 DEF Wake
  <2>2. InCall(call') /\ Routed' = [Routed EXCEPT !.at = "call"]
    BY <2>1, GoingOn DEF UnderCall
  <2>3. Routed.at = "wait"
    BY <2>1, Showing DEF Routed, Shown
  <2>4. Router!Wake
    BY <2>2, <2>3 DEF Router!Wake
  <2> QED
    BY <2>2, <2>4 DEF RoutedStep, Router!ChatStep
<1>10. CASE Take
  <2>1. call.at = "done" /\ call'.at = "idle" /\ Len(call'.chain) = 0 /\ call'.i = 1
        /\ call'.try = 1 /\ call'.content = TRUE
    BY <1>10 DEF Take, NoCall
  <2>2. InCall(call')
    <3>1. call'.at \notin UnderCall /\ call'.at # "gate" /\ call'.content \in BOOLEAN
      BY <2>1 DEF UnderCall
    <3> QED
      BY <2>1, <3>1 DEF InCall
  <2>3. Routed' = Router!NoChat /\ Routed.at = "done"
    BY <2>1 DEF Routed, RoutedAs, NotRouted, Router!NoChat
  <2> QED
    BY <2>2, <2>3 DEF RoutedStep, Router!Take
<1> QED
  BY <1>3, <1>4, <1>5, <1>6, <1>7, <1>8, <1>9, <1>10 DEF Next, Internal

\* What both the refinement and the scores rest on.
RoutedInv == Served /\ CallInv /\ NeverRefused /\ RouteInv

LEMMA InitRoutes ==
    ASSUME Init
    PROVE  RoutedInv /\ Router!RouterInit
<1>1. call = NoCall /\ NoCall.at = "start" /\ Len(NoCall.chain) = 0 /\ NoCall.i = 1 /\ NoCall.try = 1
      /\ NoCall.content = TRUE
  BY DEF Init, NoCall
<1>2. InCall(call)
  <2>1. call.at \notin UnderCall /\ call.at # "gate" /\ call.content \in BOOLEAN
    BY <1>1 DEF UnderCall
  <2> QED
    BY <1>1, <2>1 DEF InCall
<1>3. Listed
  BY NamesAreFew, ScoresAssumption DEF Init, ScoresInit, Listed
<1>4. Router!RouterInit
  BY <1>1 DEF Routed, RoutedAs, NotRouted, Router!RouterInit, Router!NoChat
<1> QED
  BY <1>2, <1>3, <1>4, InitServes DEF RoutedInv, RouteInv, CallInv

LEMMA RoutedInvStep ==
    ASSUME RoutedInv, [Next]_vars
    PROVE  RoutedInv' /\ RoutedStep
<1>1. Served' /\ CallInv'
  BY ServeStep, CallStep, ScoresAssumption, StreamAssumption DEF RoutedInv
<1>2. call.at = "idle" => Usable # {}
  BY DEF RoutedInv, Served, Provided, Usable
<1>3. InCall(call') /\ Listed' /\ RoutedStep
  BY <1>2, RouteStep, RosterStep, ScoresAssumption, CallAssumption DEF RoutedInv, RouteInv
<1>4. NeverRefused'
  BY <1>2, RefuseStep DEF RoutedInv, NeverRefused
<1>5. RouteInv'
  BY <1>1, <1>3 DEF RouteInv, CallInv
<1> QED
  BY <1>1, <1>3, <1>4, <1>5 DEF RoutedInv

\* REFINEMENT.  Every step of a role's call of a model, down to the chunks of a stream and the
\* timers over it, is one that LlmRouter allows, whatever the providers, scores and retries
\* (FallbackClient.chat over chat of OllamaClient and OpenAIClient).
THEOREM CallIsRouted == Spec => IsRouted
<1> DEFINE Step == Router!StartChat \/ Router!Take \/ Router!ChatStep(cancelled, call.checked)
<1>1. Init => RoutedInv /\ Router!RouterInit
  BY InitRoutes
<1>2. RoutedInv /\ [Next]_vars => RoutedInv' /\ [Step]_Routed
  BY RoutedInvStep DEF RoutedStep
<1> HIDE DEF Step
<1>3. Spec => Router!RouterInit /\ [][Step]_Routed
  BY <1>1, <1>2, PTL DEF Spec
<1> QED
  BY <1>3 DEF IsRouted, Step

-----------------------------------------------------------------------------
(* Who answers for a failure.                                               *)

\* A request is one of the provider in use, and no score leaves the bounds of its provider, but
\* for one that is 0.
Heard == call.at = "call" => req.kind = KindOf(Current)
InRange == \A p \in Providers : score[p] = 0 \/ score[p] \in MinFor(p)..MaxFor(p)
HeardInv == ScoresTyped /\ InRange /\ CallInv /\ Heard

LEMMA OfOneKind ==
    /\ \A r, valid : Answered(r, valid).kind = r.kind
    /\ \A r, words, progress : Failed(r, words, progress).kind = r.kind
BY DEF Answered, Failed, NoRequest

\* A request stays one of its provider.
LEMMA StayingOfItsKind ==
    ASSUME Sound(req), NEW aborted, StreamStep(aborted)
    PROVE  req'.kind = req.kind
<1>1. req \in Requests
  BY DEF Sound
<1>2. Seen(req).kind = req.kind /\ WithPiece.kind = req.kind
  BY <1>1 DEF Seen, WithPiece, Requests
<1>3. CASE Heed
  BY <1>3, OfOneKind DEF Heed
<1>4. CASE Tick \/ AskDiagnosis \/ Diagnose \/ Accept \/ Reject \/ Respond
  BY <1>1, <1>4 DEF Tick, AskDiagnosis, Diagnose, Accept, Reject, Respond, Requests
<1>5. CASE Expire \/ ErrorBody \/ Drop \/ Lose
  <2>1. \E words, progress : req' = Failed(req, words, progress)
    <3>1. CASE Expire
      BY <3>1 DEF Expire, HeadersExpire, WallExpires, IdleExpires
    <3>2. CASE ErrorBody \/ Drop \/ Lose
      BY <3>2 DEF ErrorBody, Drop, Lose
    <3> QED
      BY <1>5, <3>1, <3>2
  <2> QED
    BY <2>1, OfOneKind
<1>6. CASE Complete \/ Deliver \/ Ends \/ Post
  BY <1>6, OfOneKind DEF Complete, Deliver, Ends, Post
<1>7. CASE Comment \/ Piece
  BY <1>2, <1>7 DEF Comment, Piece
<1>8. CASE Reason
  <2>1. Seen(req) \in Requests
    BY <1>1 DEF Seen, Requests, Diagnoses
  <2> QED
    BY <1>2, <1>8, <2>1 DEF Reason, Requests
<1>9. CASE Spoil \/ Err
  BY <1>2, <1>9, OfOneKind DEF Spoil, Err
<1>10. CASE Line
  <2>1. Seen(req) \in Requests
    BY <1>1 DEF Seen, Requests, Diagnoses
  <2>2. [Seen(req) EXCEPT !.still = 0].kind = req.kind
    BY <1>2, <2>1 DEF Requests
  <2>3. \/ req' = [Seen(req) EXCEPT !.still = 0]
        \/ req' = WithPiece \/ req' = Failed(req, {}, "unknown")
        \/ \E valid : req' = Answered(WithPiece, valid)
        \/ \E words : req' = Failed(WithPiece, words, "unknown")
    BY <1>10 DEF Line
  <2>4. CASE req' = [Seen(req) EXCEPT !.still = 0]
    BY <2>2, <2>4
  <2> QED
    BY <1>2, <2>3, <2>4, OfOneKind
<1> QED
  BY <1>3, <1>4, <1>5, <1>6, <1>7, <1>8, <1>9, <1>10 DEF StreamStep, Peer

LEMMA Asking ==
    ASSUME NEW c, Send(c)
    PROVE  req'.kind = KindOf(c.chain[c.i]) /\ req'.at = "headers"
BY DEF Send, Opened, NoRequest

LEMMA HeardStep ==
    ASSUME HeardInv, [Next]_vars
    PROVE  Heard'
<1>1. ASSUME NEW kind, NextProvider(kind) PROVE Heard'
  <2>1. CASE Left > 0
    <3>1. call'.at = "probe"
      BY <1>1, <2>1 DEF NextProvider, HeardInv, CallInv, IsCall
    <3> QED
      BY <3>1 DEF Heard
  <2>2. CASE ~ (Left > 0)
    <3>1. call'.at = "done"
      BY <1>1, <2>2 DEF NextProvider, End, NoCall
    <3> QED
      BY <3>1 DEF Heard
  <2> QED
    BY <2>1, <2>2
<1>2. ASSUME NEW c, call' = c, Send(c) PROVE Heard'
  <2>1. req'.kind = KindOf(Current') /\ req'.at = "headers"
    BY <1>2, Asking DEF Current
  <2> QED
    BY <2>1 DEF Heard
<1>3. ASSUME NEW c, Again(c) PROVE Heard'
  BY <1>2, <1>3 DEF Again
<1>4. ASSUME call'.at # "call" PROVE Heard'
  BY <1>4 DEF Heard
<1>5. CASE UNCHANGED vars
  BY <1>5 DEF vars, HeardInv, Heard, Current
<1>6. CASE Ready
  BY <1>4, <1>6 DEF Ready, NoCall
<1>7. CASE Start
  <2>1. call'.at \in {"refused", "probe"}
    BY <1>7 DEF Start, NoCall
  <2> QED
    BY <1>4, <2>1
<1>8. CASE Probed
  BY <1>1, <1>2, <1>8 DEF Probed
<1>9. CASE Stream
  <2>1. req'.kind = req.kind
    BY <1>9, StayingOfItsKind DEF Stream, HeardInv, CallInv
  <2>3. call.at = "call" /\ call' = call
    BY <1>9 DEF Stream
  <2>4. Current' = Current
    BY <2>3 DEF Current
  <2> QED
    BY <2>1, <2>3, <2>4 DEF Heard, HeardInv
<1>10. CASE Judge
  <2>1. ASSUME NEW out, End(out) PROVE Heard'
    BY <1>4, <2>1 DEF End, NoCall
  <2>2. CASE JudgeFailure
    <3> DEFINE adapted == IF WithoutStreaming(req.outcome) THEN Whole(call) ELSE call
    <3>1. \/ End("cancelled") \/ GiveUp("transport") \/ Again(adapted)
          \/ call' = [adapted EXCEPT !.at = "wait", !.try = adapted.try + 1]
          \/ call' = [call EXCEPT !.at = "gate"]
      BY <2>2 DEF JudgeFailure
    <3>2. IsCall(call) /\ IsCall(adapted)
      BY Adapting DEF HeardInv, CallInv
    <3> HIDE DEF adapted
    <3>3. CASE call' = [adapted EXCEPT !.at = "wait", !.try = adapted.try + 1]
      BY <1>4, <3>2, <3>3 DEF IsCall
    <3>4. CASE call' = [call EXCEPT !.at = "gate"]
      BY <1>4, <3>2, <3>4 DEF IsCall
    <3> QED
      BY <1>1, <1>3, <2>1, <3>1, <3>3, <3>4 DEF GiveUp
  <2>3. CASE JudgeAnswer
    BY <1>1, <1>3, <2>1, <2>3 DEF JudgeAnswer, GiveUp
  <2> QED
    BY <1>10, <2>2, <2>3 DEF Judge
<1>11. CASE Gated
  BY <1>1, <1>3, <1>11 DEF Gated, GiveUp
<1>12. CASE Wake
  BY <1>2, <1>12 DEF Wake
<1>13. CASE Cancel \/ TicketOutcome
  <2>1. call' = call /\ req' = req
    BY <1>13 DEF Cancel, TicketOutcome
  <2>2. Current' = Current
    BY <2>1 DEF Current
  <2> QED
    BY <2>1, <2>2 DEF Heard, HeardInv
<1>14. CASE Take
  BY <1>4, <1>14 DEF Take, NoCall
<1> QED
  BY <1>5, <1>6, <1>7, <1>8, <1>9, <1>10, <1>11, <1>12, <1>13, <1>14 DEF Next, Internal

\* What the call, the check before a run and the outcomes of tickets make of a score.
LEMMA Ranging ==
    ASSUME ScoresTyped, InRange, NEW p \in Providers
    PROVE  /\ Decayed(p) \in [Providers -> 0..10] /\ Boosted(p) \in [Providers -> 0..10]
           /\ \A q \in Providers : q # p => Decayed(p)[q] = score[q] /\ Boosted(p)[q] = score[q]
           /\ Decayed(p)[p] <= score[p] /\ Boosted(p)[p] >= score[p]
           /\ Decayed(p)[p] = 0 \/ Decayed(p)[p] \in MinFor(p)..MaxFor(p)
           /\ Boosted(p)[p] = 0 \/ Boosted(p)[p] \in MinFor(p)..MaxFor(p)
<1>1. /\ score \in [Providers -> 0..10] /\ score[p] \in 0..10
      /\ MinFor(p) \in 1..10 /\ MaxFor(p) \in 1..10 /\ MinFor(p) <= MaxFor(p)
      /\ score[p] = 0 \/ score[p] \in MinFor(p)..MaxFor(p)
  BY DEF ScoresTyped, InRange, MinFor, MaxFor
<1>2. ASSUME NEW v PROVE [score EXCEPT ![p] = v][p] = v
                         /\ \A q \in Providers : q # p => [score EXCEPT ![p] = v][q] = score[q]
  BY <1>1
<1>3. CASE Fixed(p)
  <2>1. Decayed(p) = score /\ Boosted(p) = score
    BY <1>3 DEF Decayed, Boosted
  <2> QED
    BY <1>1, <2>1
<1>4. CASE ~ Fixed(p)
  <2>1. score[p] \in MinFor(p)..MaxFor(p)
    BY <1>1, <1>4 DEF Fixed
  <2>2. Decayed(p) = [score EXCEPT ![p] = Greater(MinFor(p), score[p] - DecayBy)]
    BY <1>4 DEF Decayed
  <2>3. /\ Greater(MinFor(p), score[p] - DecayBy) \in MinFor(p)..MaxFor(p)
        /\ Greater(MinFor(p), score[p] - DecayBy) <= score[p]
    BY <1>1, <2>1 DEF Greater, DecayBy
  <2>4. \/ Boosted(p) = score
        \/ /\ Boosted(p) = [score EXCEPT ![p] = Lesser(MaxFor(p), score[p] + BoostBy)]
           /\ score[p] < MaxFor(p)
    BY <1>1, <1>4 DEF Boosted
  <2>5. score[p] < MaxFor(p) =>
          /\ Lesser(MaxFor(p), score[p] + BoostBy) \in MinFor(p)..MaxFor(p)
          /\ Lesser(MaxFor(p), score[p] + BoostBy) >= score[p]
    BY <1>1, <2>1 DEF Lesser, BoostBy
  <2>6. Decayed(p) \in [Providers -> 0..10] /\ Boosted(p) \in [Providers -> 0..10]
    BY Decaying
  <2>7. /\ Decayed(p)[p] \in MinFor(p)..MaxFor(p) /\ Decayed(p)[p] <= score[p]
        /\ \A q \in Providers : q # p => Decayed(p)[q] = score[q]
    BY <1>2, <2>2, <2>3
  <2>8. /\ Boosted(p)[p] \in MinFor(p)..MaxFor(p) /\ Boosted(p)[p] >= score[p]
        /\ \A q \in Providers : q # p => Boosted(p)[q] = score[q]
    BY <1>1, <1>2, <2>1, <2>4, <2>5
  <2> QED
    BY <2>6, <2>7, <2>8
<1> QED
  BY <1>3, <1>4

\* A score the call changes is one of the provider in use.
Scored == \A p \in Providers : score'[p] # score[p] => p = Current
Lowered == score' = Decayed(Current) /\ Scored /\ \A p \in Providers : score'[p] <= score[p]
Raised == score' = Boosted(Current) /\ Scored /\ \A p \in Providers : score'[p] >= score[p]

LEMMA Changing ==
    ASSUME ScoresTyped, InRange, score' \in {Decayed(Current), Boosted(Current)}
    PROVE  /\ InRange'
           /\ score' = Decayed(Current) => Lowered
           /\ score' = Boosted(Current) => Raised
<1>1. CASE Current \in Providers
  <2>1. PICK c \in Providers : c = Current
    BY <1>1
  <2>2. /\ \A q \in Providers : q # c => Decayed(c)[q] = score[q] /\ Boosted(c)[q] = score[q]
        /\ Decayed(c)[c] <= score[c] /\ Boosted(c)[c] >= score[c]
        /\ Decayed(c)[c] = 0 \/ Decayed(c)[c] \in MinFor(c)..MaxFor(c)
        /\ Boosted(c)[c] = 0 \/ Boosted(c)[c] \in MinFor(c)..MaxFor(c)
    BY Ranging
  <2>3. score' = Decayed(c) \/ score' = Boosted(c)
    BY <2>1
  <2>4. \A q \in Providers : q # c => score'[q] = score[q]
    BY <2>2, <2>3
  <2>5. score'[c] = 0 \/ score'[c] \in MinFor(c)..MaxFor(c)
    BY <2>2, <2>3
  <2>6. InRange'
    BY <2>4, <2>5 DEF InRange
  <2>7. \A q \in Providers : score[q] \in Nat
    BY DEF ScoresTyped
  <2>8. Scored
    BY <2>1, <2>4 DEF Scored
  <2> QED
    BY <2>1, <2>2, <2>4, <2>6, <2>7, <2>8 DEF Lowered, Raised
<1>2. CASE Current \notin Providers
  <2>1. score' = score /\ score \in [Providers -> 0..10]
    BY <1>2 DEF Decayed, Boosted, ScoresTyped
  <2> QED
    BY <2>1 DEF InRange, Lowered, Raised, Scored
<1> QED
  BY <1>1, <1>2

LEMMA InitRanges ==
    ASSUME Init
    PROVE  InRange
<1>1. PICK snapshot \in Snapshots :
        score = [p \in Providers |-> IF snapshot[p] = 0 THEN 0 ELSE Clamp(p, snapshot[p])]
  BY DEF Init, ScoresInit
<1>2. \A p \in Providers : snapshot[p] \in 0..10
  BY ScoresAssumption DEF ScoresAssumption
<1>3. \A p \in Providers, v \in 0..10 : Clamp(p, v) \in MinFor(p)..MaxFor(p)
  BY DEF Clamp, MinFor, MaxFor, Lesser, Greater
<1> QED
  BY <1>1, <1>2, <1>3 DEF InRange

\* The check before a run, too, leaves every score within its bounds.
LEMMA PreflightRanges ==
    ASSUME ScoresAssumption, ScoresTyped, InRange, NEW passes \in BOOLEAN, Preflight(passes)
    PROVE  InRange'
<1> DEFINE Fits(s) == DOMAIN s = Providers
                        /\ \A p \in Providers : s[p] = 0 \/ s[p] \in MinFor(p)..MaxFor(p)
<1>1. \A p \in Providers : MinFor(p) \in MinFor(p)..MaxFor(p) /\ MaxFor(p) \in MinFor(p)..MaxFor(p)
  BY DEF MinFor, MaxFor
<1>2. ASSUME NEW reachable, NEW present PROVE Fits(Checked(reachable, present))
  BY <1>1 DEF Checked, InRange
<1>3. ASSUME NEW s, Fits(s) PROVE Fits(Revived(s))
  BY <1>1, <1>3 DEF Revived
<1>4. ASSUME NEW s, Fits(s) PROVE Fits([s EXCEPT ![Imported] = MaxFor(Imported)])
  BY <1>1, <1>4
<1>5. \E reachable, present : LET checked == Checked(reachable, present) IN
        score' \in {checked, Revived(checked), [checked EXCEPT ![Imported] = MaxFor(Imported)],
                    [Revived(checked) EXCEPT ![Imported] = MaxFor(Imported)]}
  BY DEF Preflight
<1>6. Fits(score')
  BY <1>2, <1>3, <1>4, <1>5
<1> QED
  BY <1>6 DEF InRange

LEMMA OutcomeRanges ==
    ASSUME ScoresTyped, InRange, RecordTicketOutcome
    PROVE  InRange'
<1>1. PICK providers \in SUBSET ToSet(roster), gap \in BOOLEAN :
        score' = [p \in Providers |->
                     IF p \notin providers THEN score[p]
                     ELSE IF gap THEN Decayed(p)[p] ELSE Boosted(p)[p]]
  BY DEF RecordTicketOutcome
<1>2. ASSUME NEW p \in Providers
      PROVE  score'[p] = 0 \/ score'[p] \in MinFor(p)..MaxFor(p)
  <2>1. score'[p] \in {score[p], Decayed(p)[p], Boosted(p)[p]}
    BY <1>1
  <2>2. /\ Decayed(p)[p] = 0 \/ Decayed(p)[p] \in MinFor(p)..MaxFor(p)
        /\ Boosted(p)[p] = 0 \/ Boosted(p)[p] \in MinFor(p)..MaxFor(p)
        /\ score[p] = 0 \/ score[p] \in MinFor(p)..MaxFor(p)
    BY Ranging DEF InRange
  <2> QED
    BY <2>1, <2>2
<1> QED
  BY <1>2 DEF InRange

\* The call leaves its provider.
Leaves == call'.at = "done" \/ call'.i > call.i

LEMMA GivingUp ==
    ASSUME HeardInv, call.i \in Nat, NEW kind, GiveUp(kind)
    PROVE  InRange' /\ Lowered /\ Leaves
<1>1. score' = Decayed(Current) /\ NextProvider(kind)
  BY DEF GiveUp
<1>2. InRange' /\ Lowered
  BY <1>1, Changing DEF HeardInv
<1>3. CASE Left > 0
  <2>1. call'.i = call.i + 1
    BY <1>1, <1>3 DEF NextProvider, HeardInv, CallInv, IsCall
  <2> QED
    BY <1>2, <2>1 DEF Leaves
<1>4. CASE ~ (Left > 0)
  BY <1>1, <1>2, <1>4 DEF NextProvider, End, NoCall, Leaves
<1> QED
  BY <1>3, <1>4

DeservedStep ==
    call.at = "start" \/ calls' # calls \/ \A p \in Providers :
        /\ score'[p] < score[p] =>
              p = Current /\ AtFault /\ (call'.at = "done" \/ call'.i > call.i)
        /\ score'[p] > score[p] => p = Current /\ Answers /\ call'.out = "answer"

LEMMA Deserving ==
    ASSUME HeardInv, call.i \in Nat, calls \in Nat, ScoresAssumption, [Next]_vars
    PROVE  InRange' /\ DeservedStep
<1>0. \A p \in Providers : score[p] \in Nat
  BY DEF HeardInv, ScoresTyped
<1>1. ASSUME score' = score PROVE InRange' /\ DeservedStep
  BY <1>0, <1>1 DEF HeardInv, InRange, DeservedStep
<1>2. ASSUME Lowered, Leaves, AtFault PROVE DeservedStep
  <2>1. \A p \in Providers : ~ (score'[p] > score[p])
    <3>1. \A p \in Providers : score'[p] <= score[p] /\ (score'[p] # score[p] => p = Current)
      BY <1>2 DEF Lowered, Scored
    <3>2. ScoresTyped => \A p \in Providers : Decayed(Current)[p] \in Nat
      BY Decaying
    <3> QED
      BY <1>0, <1>2, <3>1, <3>2 DEF Lowered, HeardInv
  <2>2. \A p \in Providers : score'[p] < score[p] => p = Current
    BY <1>0, <1>2 DEF Lowered, Scored
  <2> QED
    BY <1>2, <2>1, <2>2 DEF DeservedStep, Leaves
<1>3. ASSUME Raised, Answers, call'.out = "answer" PROVE DeservedStep
  <2>1. \A p \in Providers : ~ (score'[p] < score[p])
    <3>1. ScoresTyped => \A p \in Providers : Boosted(Current)[p] \in Nat
      BY Decaying
    <3> QED
      BY <1>0, <1>3, <3>1 DEF Raised, HeardInv
  <2>2. \A p \in Providers : score'[p] > score[p] => p = Current
    BY <1>0, <1>3 DEF Raised, Scored
  <2> QED
    BY <1>3, <2>1, <2>2 DEF DeservedStep
<1>4. CASE Ready
  <2>1. call.at = "start"
    BY <1>4 DEF Ready
  <2> QED
    BY <1>4, <2>1, PreflightRanges DEF Ready, HeardInv, DeservedStep
<1>5. CASE TicketOutcome
  <2>1. calls' # calls
    BY <1>5 DEF TicketOutcome
  <2> QED
    BY <1>5, <2>1, OutcomeRanges DEF TicketOutcome, HeardInv, DeservedStep
<1>6. CASE Judge
  <2>1. req.at = "ended" /\ req.kind = KindOf(Current)
    BY <1>6 DEF Judge, HeardInv, Heard
  <2>2. CASE JudgeFailure /\ ~ req.outcome.ok
    <3>1. score' = score \/ (~ cancelled /\ GiveUp("transport"))
      BY <2>2 DEF JudgeFailure, scoring
    <3>2. ~ cancelled => AtFault
      BY <2>1, <2>2 DEF AtFault
    <3> QED
      BY <1>1, <1>2, <3>1, <3>2, GivingUp
  <2>3. CASE JudgeAnswer /\ req.outcome.ok
    <3>1. Answers
      BY <2>1, <2>3 DEF Answers
    <3>2. \/ score' = score
          \/ ~ req.outcome.valid /\ GiveUp("content")
          \/ score' = Boosted(Current) /\ End("answer")
      BY <2>3 DEF JudgeAnswer, scoring
    <3>3. ~ req.outcome.valid => AtFault
      BY <3>1 DEF AtFault
    <3>4. ASSUME score' = Boosted(Current), End("answer") PROVE InRange' /\ DeservedStep
      <4>1. Raised /\ InRange'
        BY <3>4, Changing DEF HeardInv
      <4>2. call'.out = "answer"
        BY <3>4 DEF End, NoCall
      <4> QED
        BY <1>3, <3>1, <4>1, <4>2
    <3> QED
      BY <1>1, <1>2, <3>2, <3>3, <3>4, GivingUp
  <2> QED
    BY <1>6, <2>2, <2>3 DEF Judge
<1>7. CASE Gated
  <2>1. call.at = "gate" /\ (score' = score \/ GiveUp("transport"))
    BY <1>7 DEF Gated, scoring
  <2>2. AtFault
    BY <2>1 DEF AtFault
  <2> QED
    BY <1>1, <1>2, <2>1, <2>2, GivingUp
<1>8. CASE Start \/ Probed \/ Stream \/ Wake \/ Cancel \/ Take \/ UNCHANGED vars
  <2>1. score' = score
    BY <1>8 DEF Start, Probed, Stream, Wake, Cancel, Take, vars, scoring
  <2> QED
    BY <1>1, <2>1
<1> QED
  BY <1>4, <1>5, <1>6, <1>7, <1>8 DEF Next, Internal

\* ACTION PROPERTY.  For any providers, scores, timers and order of chunks, failures and
\* cancellation: a call lowers no score but that of the provider it leaves, for a request or an
\* answer of that provider, never for one that failed because the task was cancelled; and it
\* raises none but that of the provider whose answer goes to the caller.  One role, one call at
\* a time; what the check before a run and the outcomes of tickets change is not the call's
\* (FallbackClient.chat, ScoreStore).
THEOREM ScoresAreDeserved == Spec => Deserved
<1> DEFINE Inv == RoutedInv /\ HeardInv /\ calls \in Nat
<1>1. Init => Inv
  <2> SUFFICES ASSUME Init PROVE Inv
    OBVIOUS
  <2>1. call.at = "start" /\ calls = 0
    BY DEF Init, NoCall
  <2> QED
    BY <2>1, InitRoutes, InitRanges DEF RoutedInv, Served, HeardInv, Heard
<1>2. Inv /\ [Next]_vars => Inv' /\ DeservedStep
  <2> SUFFICES ASSUME Inv, [Next]_vars PROVE Inv' /\ DeservedStep
    OBVIOUS
  <2>1. RoutedInv'
    BY RoutedInvStep
  <2>2. call.i \in Nat
    BY DEF RoutedInv, RouteInv, InCall
  <2>3. Heard' /\ InRange' /\ DeservedStep
    BY <2>2, HeardStep, Deserving, ScoresAssumption
  <2>4. calls' \in {calls, calls + 1}
    BY DEF Next, Internal, Ready, Start, Probed, Stream, Judge, Gated, Wake, Cancel, Take,
           TicketOutcome, vars
  <2> QED
    BY <2>1, <2>3, <2>4 DEF HeardInv, RoutedInv, Served
<1> HIDE DEF DeservedStep
<1>3. Spec => [][DeservedStep]_vars
  BY <1>1, <1>2, PTL DEF Spec
<1> QED
  BY <1>3 DEF Deserved, DeservedStep
=============================================================================
