----------------------------- MODULE CallBudgets -----------------------------
(***************************************************************************)
(* What a call may cost: how the context window of the provider in use is  *)
(* divided (resolveSkillOperationWindow in src/llm/window.ts), and how     *)
(* long a rate limit is waited for (src/llm/retry.ts).  The ratios are     *)
(* exact here, not binary fractions.                                       *)
(***************************************************************************)
EXTENDS Integers

Least(a, b) == IF a < b THEN a ELSE b
AtLeast(floor, v) == IF v < floor THEN floor ELSE v

\* A window of `c' tokens and a prompt of `chars' characters.
EstimatedCharsPerToken == 3
PromptTokens(chars) == (AtLeast(0, chars) + EstimatedCharsPerToken - 1) \div EstimatedCharsPerToken

Safety(c) == AtLeast(1024, (c + 19) \div 20)
Available(c, chars) == AtLeast(512, c - PromptTokens(chars) - Safety(c))
ResponseTokens(c, chars) ==
    AtLeast(512, Least(c \div 8, (9 * Available(c, chars)) \div 20))
FeedbackTokens(c, chars) ==
    LET available == AtLeast(512, Available(c, chars) - ResponseTokens(c, chars))
    IN AtLeast(512, Least(c \div 5, (7 * available) \div 20))
FeedbackChars(c, chars) == FeedbackTokens(c, chars) * EstimatedCharsPerToken
ReadChunk(c, chars) == AtLeast(1024, (7 * FeedbackChars(c, chars)) \div 10)
WriteChunk(c, chars) ==
    AtLeast(1024, (18 * (ResponseTokens(c, chars) * EstimatedCharsPerToken)) \div 25)

\* The wait before a retry: what the provider asked for, or twice the last; `jittered',
\* anything from half of it on.  A quarter of a second is added to what was asked for.
BaseDelay == 1000
Planned(attempt, asked) ==
    IF asked > 0 THEN asked + 250 ELSE BaseDelay * 2 ^ AtLeast(0, attempt - 1)
Waits(planned, ceiling, jittered) ==
    LET capped == Least(planned, AtLeast(0, ceiling))
    IN (IF jittered THEN (capped + 1) \div 2 ELSE capped) .. capped
=============================================================================
