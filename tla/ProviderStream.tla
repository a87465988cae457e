--------------------------- MODULE ProviderStream ---------------------------
(***************************************************************************)
(* One request to a provider, from its first byte to its answer or its     *)
(* failure: OpenAIClient (src/llm/openai.ts) and OllamaClient              *)
(* (src/llm/ollama.ts), streamed or not.                                   *)
(*                                                                         *)
(* Time passes in ticks, never past a timer that is due.  The peer may say *)
(* anything the protocol has at any moment, and may fall silent for good.  *)
(* Of the text that arrives only its kind matters, and of a failure's      *)
(* message the words the router looks for.                                 *)
(***************************************************************************)
EXTENDS Naturals

CONSTANTS
    Headers,    \* stream_headers_timeout_ms: how long response headers may take
    First,      \* stream_first_token_timeout_ms
    Idle,       \* stream_idle_timeout_ms: how long a stream that has begun may pause
    Wall,       \* request_timeout_ms
    Cap,        \* NON_STREAM_RETRY_TIMEOUT_MS
    Stall       \* stall_diagnosis_after_ms; of each, 0 is never

ASSUME StreamAssumption ==
    /\ Headers \in Nat /\ First \in Nat /\ Idle \in Nat /\ Wall \in Nat /\ Stall \in Nat
    /\ Cap \in Nat \ {0}

VARIABLES
    req         \* the request under way, or the last one and how it ended

Kinds == {"openai", "ollama"}

\* What the router finds in a message: a wait for the first token, a stream that broke off
\* (idle, aborted, terminated, a failed fetch), a time that is up or a connection refused, a
\* model that loops or does not write JSON, a rate limit, and a quota that is used up.
Words == {"first token", "broken", "unreachable", "loop", "degenerate", "429", "quota"}

\* LLMFailureDetails.streamProgress
Progress == {"no-bytes", "reasoning-only", "content-started"}

NoOutcome == [ok |-> FALSE, valid |-> FALSE, words |-> {}, progress |-> "unknown",
              diagnosis |-> "none"]
NoRequest ==
    [at |-> "none", kind |-> "openai", stream |-> TRUE, capped |-> FALSE, got |-> "no-bytes",
     age |-> 0, still |-> 0, quiet |-> 0, status |-> {}, stall |-> "off", heard |-> FALSE,
     outcome |-> NoOutcome]

\* chat, with stream if the caller takes tokens; only OpenAIClient watches for silence and
\* heeds a lower budget.
Opened(kind, stream, capped) ==
    [NoRequest EXCEPT !.at = "headers", !.kind = kind, !.stream = stream, !.capped = capped,
                      !.stall = IF kind = "openai" /\ Stall > 0 THEN "armed" ELSE "off"]

UnderWay == req.at \in {"headers", "refused", "body"}
Listens == req.kind = "openai"
Streams(kind) == req.kind = kind /\ req.stream

-----------------------------------------------------------------------------
(* The end of a request.                                                    *)

\* The content is what the caller's contract takes, or is not.
Answered(r, valid) ==
    [NoRequest EXCEPT !.at = "ended", !.kind = r.kind, !.stream = r.stream, !.got = r.got,
                      !.outcome = [NoOutcome EXCEPT !.ok = TRUE, !.valid = valid]]

\* wrapOpenAIError, withStallDiagnosis: a diagnosis is told along with the failure, and its
\* words with the message's.
Failed(r, words, progress) ==
    LET told == r.stall \in {"clean", "network"} IN
    [NoRequest EXCEPT
        !.at = "ended", !.kind = r.kind, !.stream = r.stream, !.got = r.got, !.heard = r.heard,
        !.outcome = [NoOutcome EXCEPT
            !.words = words \cup (IF r.stall = "network" THEN {"broken"} ELSE {}),
            !.progress = progress,
            !.diagnosis = IF told THEN r.stall ELSE "none"]]

-----------------------------------------------------------------------------
(* The timers.                                                              *)

HeadersLimit == IF Streams("openai") /\ req.at = "headers" THEN Headers ELSE 0

\* The budget of the whole: in an OpenAI stream only until the content begins.
WallLimit ==
    IF req.capped /\ Listens /\ ~ req.stream
    THEN IF Wall \in 1..Cap THEN Wall ELSE Cap
    ELSE IF Streams("openai") /\ req.got = "content-started" THEN 0 ELSE Wall

\* (mutant) The idle timer is not armed again by the tokens of the answer.
IdleLimitBefore ==
    IF ~ req.stream \/ req.got = "content-started" THEN 0 ELSE IF Listens THEN First ELSE Idle

\* armIdle: without a token.  Ollama makes no difference between the first and the next.
IdleLimit ==
    IF ~ req.stream THEN 0
    ELSE IF Listens /\ req.got # "content-started" THEN First ELSE Idle

StallLimit == IF req.stall = "armed" THEN Stall ELSE 0

Due(elapsed, limit) == limit > 0 /\ elapsed >= limit
HeadersDue == Due(req.age, HeadersLimit)
WallDue == Due(req.age, WallLimit)
IdleDue == Due(req.still, IdleLimit)
StallDue == Due(req.quiet, StallLimit)

Counts(elapsed, limit) == IF limit > 0 THEN elapsed + 1 ELSE elapsed
Tick ==
    /\ UnderWay /\ ~ (HeadersDue \/ WallDue \/ IdleDue \/ StallDue)
    /\ HeadersLimit + WallLimit + IdleLimit + StallLimit > 0
    /\ req' = [req EXCEPT !.age = Counts(@, HeadersLimit + WallLimit),
                          !.still = Counts(@, IdleLimit), !.quiet = Counts(@, StallLimit)]

\* A model that has only thought gets a message without the words of a time-out.
Thinking == Listens /\ req.got = "reasoning-only"
Reported == IF Streams("openai") THEN req.got ELSE "unknown"

HeadersExpire == UnderWay /\ HeadersDue /\ req' = Failed(req, {}, "no-bytes")
WallExpires ==
    UnderWay /\ WallDue /\ req' = Failed(req, IF Thinking THEN {} ELSE {"unreachable"}, Reported)
IdleExpires ==
    /\ UnderWay /\ IdleDue
    /\ req' = Failed(req, IF Thinking THEN {}
                          ELSE IF Listens /\ req.got = "no-bytes" THEN {"first token"}
                          ELSE {"broken"}, Reported)
Expire == HeadersExpire \/ WallExpires \/ IdleExpires

\* armStallDiagnosis: asked once, answered whenever; what a byte has outlived is discarded.
AskDiagnosis ==
    UnderWay /\ StallDue /\ req' = [req EXCEPT !.stall = "asked", !.quiet = 0, !.heard = FALSE]
Diagnose ==
    /\ UnderWay
    /\ \/ /\ req.stall = "asked"
          /\ \E verdict \in {"clean", "network", "spent"} : req' = [req EXCEPT !.stall = verdict]
       \/ req.stall = "outlived" /\ req' = [req EXCEPT !.stall = "spent"]

\* (mutant) A byte restarts the clock, and an answer that was on its way still counts.
SeenOnly(r) == [r EXCEPT !.quiet = 0, !.heard = @ \/ r.stall \notin {"off", "armed"}]

Seen(r) ==
    [r EXCEPT !.quiet = 0, !.heard = @ \/ r.stall \notin {"off", "armed"},
              !.stall = CASE @ = "asked" -> "outlived"
                          [] @ \in {"clean", "network"} -> "spent"
                          [] OTHER -> @]

-----------------------------------------------------------------------------
(* What an OpenAI-compatible peer does.                                     *)

\* Response headers; until then nothing else runs out.
Accept ==
    /\ req.at = "headers" /\ Streams("openai") /\ req' = [req EXCEPT !.at = "body"]

\* An HTTP error: a rate limit that lifts or one that does not, a gateway's time-out, or
\* anything else.  Its body is read under the same timers.
Statuses == {{"429"}, {"429", "quota"}, {"unreachable"}, {}}
Reject ==
    /\ req.at = "headers"
    /\ \E status \in Statuses :
        req' = [req EXCEPT !.at = "refused", !.status = status,
                           !.still = IF Listens THEN @ ELSE 0]
ErrorBody == req.at = "refused" /\ req' = Failed(req, req.status, "unknown")

Open(kind) == req.at = "body" /\ req.kind = kind

\* Bytes that are no output.
Comment == Open("openai") /\ req' = Seen(req)

Reason ==
    /\ Open("openai")
    /\ req' = [Seen(req) EXCEPT !.still = 0, !.got = IF @ = "no-bytes" THEN "reasoning-only" ELSE @]

\* A piece of the answer: the wall-clock timer of an OpenAI stream ends with the first.
WithPiece ==
    [Seen(req) EXCEPT !.still = 0, !.got = "content-started", !.age = IF Listens THEN 0 ELSE @]
Piece == Open("openai") /\ req' = WithPiece

\* The detectors: a token that repeats itself, a text that does; an answer that is no JSON.
Looping == {{"loop"}, {}}
NotJson == {{"degenerate"}, {}}
Spoil == Open("openai") /\ \E words \in Looping \cup NotJson : req' = Failed(WithPiece, words, "unknown")

\* An error of the protocol, in a chunk or in the shape of content.
Err == Open("openai") /\ req' = Failed(Seen(req), {}, "unknown")

\* The stream says it is done, the caller has enough, or it just ends: what there is may be
\* no more than a part.
Complete == Open("openai") /\ \E valid \in BOOLEAN : req' = Answered(req, valid)

\* An answer in one piece; or nothing but reasoning, an error, or no JSON.
Deliver ==
    /\ req.at = "headers" /\ Listens /\ ~ req.stream
    /\ \/ \E valid \in BOOLEAN : req' = Answered(req, valid)
       \/ req' = Failed(req, {}, "unknown")

\* The connection cannot be made, or is lost.
Drop == UnderWay /\ Listens /\ req' = Failed(req, {"broken"}, "unknown")

-----------------------------------------------------------------------------
(* What an Ollama server does.                                              *)

\* Its idle timer starts anew with the headers.
Respond ==
    /\ req.at = "headers" /\ Streams("ollama") /\ req' = [req EXCEPT !.at = "body", !.still = 0]

\* Lines, each of which resets the idle timer: nothing of the answer, a piece of it, its end
\* or as much as the caller needs, a loop, or an error.
Line ==
    /\ Open("ollama")
    /\ \/ req' = [Seen(req) EXCEPT !.still = 0]
       \/ req' = WithPiece
       \/ \E valid \in BOOLEAN : req' = Answered(WithPiece, valid)
       \/ \E words \in Looping : req' = Failed(WithPiece, words, "unknown")
       \/ req' = Failed(req, {}, "unknown")

\* The response ends, as an answer whatever there is of it, or is aborted.
Ends ==
    /\ Streams("ollama")
    /\ \/ req.at = "body" /\ \E valid \in BOOLEAN : req' = Answered(req, valid)
       \/ req.at \in {"body", "refused"} /\ req' = Failed(req, {"broken"}, "unknown")

\* postJson: an answer in one piece, or one that is no JSON or an error.
Post ==
    /\ req.at = "headers" /\ ~ Listens /\ ~ req.stream
    /\ \/ \E valid \in BOOLEAN : req' = Answered(req, valid)
       \/ req' = Failed(req, {}, "unknown")

\* No connection: refused or reset, or for any other reason.
Lose ==
    /\ UnderWay /\ ~ Listens
    /\ \E words \in {{"unreachable"}, {}} : req' = Failed(req, words, "unknown")

Peer ==
    \/ Accept \/ Reject \/ ErrorBody \/ Comment \/ Reason \/ Piece \/ Spoil \/ Err \/ Complete
    \/ Deliver \/ Drop \/ Respond \/ Line \/ Ends \/ Post \/ Lose

\* bindAbortSignal: only OpenAIClient listens to the cancellation; nothing else reaches it
\* from then on.
Heed == UnderWay /\ Listens /\ req' = Failed(req, {}, "unknown")

StreamStep(aborted) ==
    \/ ~ (aborted /\ Listens) /\ (Tick \/ Expire \/ AskDiagnosis \/ Diagnose \/ Peer)
    \/ aborted /\ Heed
=============================================================================
