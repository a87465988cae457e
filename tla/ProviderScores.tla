--------------------------- MODULE ProviderScores ---------------------------
(***************************************************************************)
(* What ranks the providers: the scores XCompiler keeps, those the user    *)
(* pins (ScoreStore in src/llm/scores.ts), and which providers the check   *)
(* before a run leaves usable (preflightProviders in src/llm/preflight.ts).*)
(* Scores are in tenths.                                                   *)
(***************************************************************************)
EXTENDS Integers, FiniteSets, SequencesExt

CONSTANTS
    Role,           \* the providers configured for the role, in their order
    Ollama,         \* which providers are models of the Ollama server
    Cluster,        \* which are tagged as aggregated routes
    Imported,       \* the provider that is registered for a model found on the server
    Explicit,       \* whether role_fallbacks names the candidates of the role
    Snapshots,      \* what llm_scores.yaml may hold
    Overrides       \* what llm_scores_user.yaml may hold

Providers == ToSet(Role) \cup {Imported}
Unset == -1

ASSUME ScoresAssumption ==
    /\ Role \in Seq(ToSet(Role)) /\ Ollama \subseteq Providers /\ Cluster \subseteq Providers /\ Imported \in Ollama
    /\ Imported \notin ToSet(Role) /\ Explicit \in BOOLEAN
    /\ Snapshots \subseteq [Providers -> 0..10]
    /\ Overrides \subseteq [Providers -> {Unset} \cup 0..10]

VARIABLES
    score,          \* dynamicScores
    user,           \* userScores
    roster,         \* the candidates of the role in this run
    unavailable     \* what this run does not use

scoring == <<score, user, roster, unavailable>>

MinFor(p) == IF p \in Cluster THEN 2 ELSE 1
MaxFor(p) == IF p \in Cluster THEN 5 ELSE 10
DecayBy == 5
BoostBy == 1
Lesser(a, b) == IF a < b THEN a ELSE b
Greater(a, b) == IF a > b THEN a ELSE b
Clamp(p, v) == Greater(MinFor(p), Lesser(MaxFor(p), v))

UserDisabled(p) == user[p] = 0
Score(p) == IF user[p] = Unset THEN score[p] ELSE user[p]
Fixed(p) == UserDisabled(p) \/ score[p] = 0

Decayed(p) == IF Fixed(p) THEN score ELSE [score EXCEPT ![p] = Greater(MinFor(p), @ - DecayBy)]
Boosted(p) ==
    IF Fixed(p) \/ score[p] >= MaxFor(p) THEN score
    ELSE [score EXCEPT ![p] = Lesser(MaxFor(p), @ + BoostBy)]

\* load: what is read is brought within its bounds.
ScoresInit ==
    /\ \E snapshot \in Snapshots :
        score = [p \in Providers |-> IF snapshot[p] = 0 THEN 0 ELSE Clamp(p, snapshot[p])]
    /\ user \in Overrides
    /\ roster = Role /\ unavailable = {}

\* listRolesWithoutLiveProvider
LiveWith(s, p) == p \notin unavailable' /\ (IF user[p] = Unset THEN s[p] ELSE user[p]) > 0
AnyLive(s, names) == \E p \in ToSet(names) : LiveWith(s, p)

\* Models that are gone get the lowest score, models that are back the highest.
Checked(reachable, present) ==
    [p \in Providers |->
        IF p \notin Ollama \cap ToSet(Role) \/ ~ reachable THEN score[p]
        ELSE IF p \notin present THEN MinFor(p)
        ELSE IF Score(p) = 0 /\ ~ UserDisabled(p) THEN MaxFor(p) ELSE score[p]]

\* reviveScoreZeroNonOllamaCandidates
Revived(s) ==
    [p \in Providers |->
        IF p \in ToSet(Role) \ (Ollama \cup unavailable') /\ s[p] = 0 /\ user[p] = Unset
        THEN MaxFor(p) ELSE s[p]]

\* The whole check; it fails if the role is left without a provider.
Preflight(passes) ==
    \E reachable \in BOOLEAN, present \in SUBSET (Ollama \cap ToSet(Role)), others \in BOOLEAN :
        LET checked == Checked(reachable, present)
            revived == IF AnyLive(checked, Role) THEN checked ELSE Revived(checked)
            rescue == ~ AnyLive(revived, Role)
            found == reachable /\ (others \/ present # {})
            imported == [revived EXCEPT ![Imported] = MaxFor(Imported)]
            extended == IF Explicit THEN Role ELSE Append(Role, Imported)
        IN /\ unavailable' = (Ollama \cap ToSet(Role)) \ (IF reachable THEN present ELSE {})
           /\ IF ~ rescue THEN passes /\ score' = revived /\ roster' = Role
              ELSE IF ~ found THEN ~ passes /\ score' = revived /\ roster' = Role
              ELSE /\ score' = imported /\ roster' = extended
                   /\ passes = AnyLive(imported, extended)
           /\ UNCHANGED user

\* recordTicketOutcome: what came of a ticket counts for or against every provider that
\* worked on it, whatever is under way.  The tests call it; the program does not yet.
RecordTicketOutcome ==
    /\ \E providers \in SUBSET ToSet(roster) \ {{}}, gap \in BOOLEAN :
        score' = [p \in Providers |->
                     IF p \notin providers THEN score[p]
                     ELSE IF gap THEN Decayed(p)[p] ELSE Boosted(p)[p]]
    /\ UNCHANGED <<user, roster, unavailable>>

\* rankByScore: by descending score, in the order of the configuration.
Usable == {p \in ToSet(roster) : Score(p) > 0 /\ p \notin unavailable}
AtRank(n) ==
    LET place(p) == CHOOSE i \in DOMAIN roster : roster[i] = p
        better(p, q) == Score(p) > Score(q) \/ (Score(p) = Score(q) /\ place(p) < place(q))
    IN CHOOSE p \in Usable : Cardinality({q \in Usable : better(q, p)}) = n - 1
Ranked == [n \in 1..Cardinality(Usable) |-> AtRank(n)]
=============================================================================
