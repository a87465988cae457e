--------------------------- MODULE ProjectRunProofs ---------------------------
(***************************************************************************)
(* What a project is promised of its canonical branch, whatever fails in   *)
(* whatever step: for any number of Steps, failures, faults and Bugs.      *)
(***************************************************************************)
EXTENDS ProjectRun, FiniteSetTheorems, SequenceTheorems, WellFoundedInduction, TLAPS

-----------------------------------------------------------------------------
(* Histories.                                                               *)

Commits == [adds : SUBSET Nat, of : ChangeSetNames \cup {None}]
Histories == Seq(Commits) \ {<<>>}
MarksOf(history) == {history[i].of : i \in 1..Len(history)} \ {None}

LEMMA NoneIsApart ==
    /\ None \notin ChangeSetNames /\ None \notin Tickets /\ None # Main
    /\ None \notin TicketBranches /\ None \notin GateBranches
    /\ Main \notin TicketBranches /\ Main \notin GateBranches
  BY NamesAssumption

LEMMA CommitIs ==
    ASSUME NEW adds \in SUBSET Nat, NEW of \in ChangeSetNames \cup {None}
    PROVE  Commit(adds, of) \in Commits /\ Commit(adds, of).adds = adds /\ Commit(adds, of).of = of
  BY DEF Commit, Commits

LEMMA Appended ==
    ASSUME NEW h \in Seq(Commits), NEW k \in Commits
    PROVE  /\ Append(h, k) \in Histories
           /\ Len(Append(h, k)) = Len(h) + 1 /\ Last(Append(h, k)) = k
           /\ Content(Append(h, k)) = Content(h) \cup k.adds
           /\ MarksOf(Append(h, k)) = MarksOf(h) \cup ({k.of} \ {None})
<1> DEFINE g == Append(h, k)
<1>1. /\ g \in Seq(Commits) /\ Len(h) \in Nat /\ Len(g) = Len(h) + 1
      /\ g[Len(h) + 1] = k /\ \A i \in 1..Len(h) : g[i] = h[i]
  OBVIOUS
<1>2. g # <<>>
  BY <1>1
<1>3. \A i \in 1..Len(g) : i \in 1..Len(h) \/ i = Len(h) + 1
  BY <1>1
<1>4. \A i \in 1..Len(h) : i \in 1..Len(g)
  BY <1>1
<1>5. Len(h) + 1 \in 1..Len(g)
  BY <1>1
<1> HIDE DEF g
<1>6. Content(g) = Content(h) \cup k.adds
  BY <1>1, <1>3, <1>4, <1>5 DEF Content
<1>7. MarksOf(g) = MarksOf(h) \cup ({k.of} \ {None})
  BY <1>1, <1>3, <1>4, <1>5 DEF MarksOf
<1> QED
  BY <1>1, <1>2, <1>6, <1>7 DEF g, Histories, Last

LEMMA Contents ==
    ASSUME NEW h \in Seq(Commits)
    PROVE  Content(h) \in SUBSET Nat
<1> SUFFICES ASSUME NEW i \in 1..Len(h) PROVE h[i].adds \in SUBSET Nat
  BY DEF Content
<1>1. h[i] \in Commits
  OBVIOUS
<1> QED
  BY <1>1 DEF Commits

\* A candidate holds what both of its branches hold.
LEMMA CandidateIs ==
    ASSUME NEW target \in Histories, NEW source \in Histories
    PROVE  /\ Candidate(target, source) \in Histories
           /\ Content(Candidate(target, source)) = Content(target) \cup Content(source)
<1>1. CASE IsPrefix(source, target)
  <2>1. Len(source) <= Len(target) /\ SubSeq(source, 1, Len(source)) = SubSeq(target, 1, Len(source))
    BY <1>1 DEF IsPrefix
  <2>2. Len(source) \in Nat /\ Len(target) \in Nat
    BY DEF Histories
  <2>3. \A i \in 1..Len(source) : source[i] = target[i] /\ i \in 1..Len(target)
    <3> SUFFICES ASSUME NEW i \in 1..Len(source) PROVE source[i] = target[i] /\ i \in 1..Len(target)
      OBVIOUS
    <3>1. SubSeq(source, 1, Len(source))[i] = source[i]
      BY <2>2 DEF Histories
    <3>2. SubSeq(target, 1, Len(source))[i] = target[i]
      BY <2>1, <2>2 DEF Histories
    <3> QED
      BY <2>1, <2>2, <3>1, <3>2
  <2>4. Content(source) \subseteq Content(target)
    BY <2>3 DEF Content
  <2> QED
    BY <1>1, <2>4 DEF Candidate
<1>2. CASE ~ IsPrefix(source, target)
  <2>1. Content(source) \in SUBSET Nat /\ None \in ChangeSetNames \cup {None}
    BY Contents DEF Histories
  <2> QED
    BY <1>2, <2>1, CommitIs, Appended DEF Candidate, Histories
<1> QED
  BY <1>1, <1>2

-----------------------------------------------------------------------------
(* Names.                                                                   *)

\* The branches a change set may have for its source.
OwnBranches(c) == {TicketBranch(c[1], c[2])} \cup {b \in GateBranches : b[2] = c}

LEMMA NewBranchIs ==
    ASSUME NEW c \in ChangeSetNames
    PROVE  TicketBranch(c[1], c[2]) \in TicketBranches
<1>1. c[1] \in Tickets /\ c[2] \in Nat /\ c = <<c[1], c[2]>>
  BY DEF ChangeSetNames
<1> QED
  BY <1>1 DEF TicketBranch, TicketBranches

LEMMA GateBranchIs ==
    ASSUME NEW c \in ChangeSetNames, NEW n \in Nat
    PROVE  GateBranch(c, n) \in GateBranches /\ GateBranch(c, n)[2] = c
  BY DEF GateBranch, GateBranches

LEMMA BranchesApart == TicketBranches \cap GateBranches = {}
<1> SUFFICES ASSUME NEW b \in TicketBranches, b \in GateBranches PROVE FALSE
  OBVIOUS
<1>1. b[1] = "ticket" /\ b[1] = "gate"
  BY DEF TicketBranches, GateBranches
<1> QED
  BY <1>1

\* No branch is of two change sets.
LEMMA OwnersApart ==
    ASSUME NEW c \in ChangeSetNames, NEW d \in ChangeSetNames, NEW b,
           b \in OwnBranches(c), b \in OwnBranches(d)
    PROVE  c = d
<1>1. CASE b \in GateBranches
  <2>1. b # TicketBranch(c[1], c[2]) /\ b # TicketBranch(d[1], d[2])
    BY <1>1, NewBranchIs, BranchesApart
  <2> QED
    BY <2>1 DEF OwnBranches
<1>2. CASE b \notin GateBranches
  <2>1. <<"ticket", c[1], c[2]>> = <<"ticket", d[1], d[2]>>
    BY <1>2 DEF OwnBranches, TicketBranch
  <2>2. c[1] = d[1] /\ c[2] = d[2] /\ c = <<c[1], c[2]>> /\ d = <<d[1], d[2]>>
    BY <2>1 DEF ChangeSetNames
  <2> QED
    BY <2>2
<1> QED
  BY <1>1, <1>2

LEMMA OwnIsNotMain ==
    ASSUME NEW c \in ChangeSetNames, NEW b \in OwnBranches(c)
    PROVE  b # Main /\ b \in TicketBranches \cup GateBranches
  BY NoneIsApart, NewBranchIs DEF OwnBranches

-----------------------------------------------------------------------------
(* The repository.                                                          *)

Names == {Main} \cup TicketBranches \cup GateBranches

GitTypes ==
    /\ branch \in [DOMAIN branch -> Histories]
    /\ DOMAIN branch \subseteq Names /\ IsFiniteSet(DOMAIN branch)
    /\ tree \in [DOMAIN tree -> SUBSET Nat]
    /\ staged \in SUBSET Nat
    /\ Main \in DOMAIN branch /\ Main \in DOMAIN tree

\* What there is of the branches stays, but for branch b.
Beside(b) ==
    \A n \in DOMAIN branch \ {b} : n \in DOMAIN branch' /\ branch'[n] = branch[n]

LEMMA WithIs ==
    ASSUME NEW f, NEW x, NEW v
    PROVE  /\ DOMAIN With(f, x, v) = DOMAIN f \cup {x} /\ With(f, x, v)[x] = v
           /\ \A y \in DOMAIN f : y # x => With(f, x, v)[y] = f[y]
           /\ \A S : v \in S /\ f \in [DOMAIN f -> S] => With(f, x, v) \in [DOMAIN f \cup {x} -> S]
  BY DEF With

LEMMA CheckOutIs ==
    ASSUME GitTypes, NEW b \in Names \ {Main}, NEW start \in Histories, CheckOut(b, start)
    PROVE  /\ GitTypes' /\ UNCHANGED staged /\ tree'[Main] = tree[Main] /\ branch'[Main] = branch[Main]
           /\ \A n \in DOMAIN branch : n \in DOMAIN branch' /\ branch'[n] = branch[n]
           /\ b \in DOMAIN branch' /\ b \in DOMAIN tree'
           /\ b \notin DOMAIN branch => branch'[b] = start
           /\ \A n \in DOMAIN tree : n \in DOMAIN tree'
<1>1. /\ tree' \in [DOMAIN tree' -> SUBSET Nat] /\ DOMAIN tree' = DOMAIN tree \cup {b}
      /\ tree'[Main] = tree[Main]
  <2>1. tree' = [n \in DOMAIN tree \cup {b} |-> IF n = b THEN {} ELSE tree[n]]
    BY DEF CheckOut, With
  <2>2. Main # b
    BY DEF Names
  <2> QED
    BY <2>1, <2>2 DEF GitTypes
<1>2. /\ branch' \in [DOMAIN branch' -> Histories] /\ DOMAIN branch' = DOMAIN branch \cup {b}
      /\ \A n \in DOMAIN branch : branch'[n] = branch[n]
      /\ b \notin DOMAIN branch => branch'[b] = start
  <2>1. CASE b \in DOMAIN branch
    BY <2>1 DEF CheckOut, GitTypes
  <2>2. CASE b \notin DOMAIN branch
    <3>1. branch' = [n \in DOMAIN branch \cup {b} |-> IF n = b THEN start ELSE branch[n]]
      BY <2>2 DEF CheckOut, With
    <3> QED
      BY <2>2, <3>1 DEF GitTypes
  <2> QED
    BY <2>1, <2>2
<1>3. IsFiniteSet(DOMAIN branch')
  BY <1>2, FS_AddElement DEF GitTypes
<1> QED
  BY <1>1, <1>2, <1>3 DEF CheckOut, GitTypes

LEMMA SnapshotIs ==
    ASSUME GitTypes, NEW b \in DOMAIN branch, b \in DOMAIN tree, Snapshot(b)
    PROVE  /\ GitTypes' /\ Beside(b)
           /\ DOMAIN branch' = DOMAIN branch /\ DOMAIN tree' = DOMAIN tree
           /\ Content(branch'[b]) = Content(branch[b]) \cup tree[b] \cup (IF b = Main THEN staged ELSE {})
           /\ MarksOf(branch'[b]) = MarksOf(branch[b])
           /\ \E all \in SUBSET Nat : branch'[b] = Append(branch[b], Commit(all, None))
           /\ tree'[b] = {} /\ \A n \in DOMAIN tree \ {b} : tree'[n] = tree[n]
           /\ staged' = IF b = Main THEN {} ELSE staged
<1> DEFINE all == tree[b] \cup (IF b = Main THEN staged ELSE {})
<1>1. all \in SUBSET Nat
  BY DEF GitTypes
<1>2. /\ branch' = [branch EXCEPT ![b] = Append(@, Commit(all, None))]
      /\ tree' = [tree EXCEPT ![b] = {}] /\ staged' = IF b = Main THEN {} ELSE staged
  BY DEF Snapshot
<1> HIDE DEF all
<1>3. branch[b] \in Histories /\ branch[b] \in Seq(Commits)
  BY DEF GitTypes, Histories
<1>4. Commit(all, None) \in Commits /\ Commit(all, None).adds = all /\ Commit(all, None).of = None
  BY <1>1, CommitIs
<1>5. /\ Append(branch[b], Commit(all, None)) \in Histories
      /\ Content(Append(branch[b], Commit(all, None))) = Content(branch[b]) \cup all
      /\ MarksOf(Append(branch[b], Commit(all, None))) = MarksOf(branch[b]) \cup {}
  BY <1>3, <1>4, Appended
<1>6. branch'[b] = Append(branch[b], Commit(all, None)) /\ DOMAIN branch' = DOMAIN branch
  BY <1>2
<1>7. GitTypes'
  BY <1>2, <1>5 DEF GitTypes
<1>8. Content(branch'[b]) = Content(branch[b]) \cup tree[b] \cup (IF b = Main THEN staged ELSE {})
  BY <1>5, <1>6 DEF all
<1>9. tree'[b] = {} /\ DOMAIN tree' = DOMAIN tree /\ \A n \in DOMAIN tree \ {b} : tree'[n] = tree[n]
  BY <1>2
<1>10. Beside(b)
  BY <1>2 DEF Beside
<1> QED
  BY <1>1, <1>2, <1>5, <1>6, <1>7, <1>8, <1>9, <1>10

LEMMA RevertIs ==
    ASSUME GitTypes, NEW b \in DOMAIN branch, NEW revision \in Histories, RevertTo(b, revision)
    PROVE  /\ GitTypes' /\ Beside(b) /\ branch'[b] = revision
           /\ DOMAIN branch' = DOMAIN branch /\ DOMAIN tree' = DOMAIN tree
           /\ b \in DOMAIN tree => tree'[b] = {}
           /\ \A n \in DOMAIN tree \ {b} : tree'[n] = tree[n]
           /\ staged' = IF b = Main THEN {} ELSE staged
  BY DEF RevertTo, GitTypes, Beside

LEMMA WithoutIs ==
    ASSUME GitTypes, NEW b, b # Main, tree' = Without(b), UNCHANGED staged,
           branch' = branch \/ branch' = [n \in DOMAIN branch \ {b} |-> branch[n]]
    PROVE  /\ GitTypes' /\ tree'[Main] = tree[Main] /\ branch'[Main] = branch[Main]
           /\ \A n \in DOMAIN branch \ {b} : n \in DOMAIN branch' /\ branch'[n] = branch[n]
<1>1. /\ tree' \in [DOMAIN tree' -> SUBSET Nat] /\ Main \in DOMAIN tree' /\ tree'[Main] = tree[Main]
  BY DEF GitTypes, Without
<1>2. CASE branch' = branch
  BY <1>1, <1>2 DEF GitTypes
<1>3. CASE branch' = [n \in DOMAIN branch \ {b} |-> branch[n]]
  <2>1. IsFiniteSet(DOMAIN branch')
    BY <1>3, FS_Subset DEF GitTypes
  <2> QED
    BY <1>1, <1>3, <2>1 DEF GitTypes
<1> QED
  BY <1>2, <1>3

-----------------------------------------------------------------------------
(* The invariant.                                                           *)

TheBindings == [kind : {"none", "canonical", "ticket", "gate"}, branch : Names \cup {None},
                of : ChangeSetNames \cup {None}]
TheTickets == [step : Nat, parent : Tickets \cup {None}, state : {"open", "done"},
               binding : TheBindings]
TheChangeSets == [root : Tickets, tickets : SUBSET Tickets, source : Names,
                  state : {"developing", "reviewing", "gate-passed", "merged"}]
TheGates == [request : {"none", "draft", "validating", "approved", "changes-requested",
                        "mergeable", "merged"},
             status : {"none", "running", "passed", "failed", "stale", "infrastructure-failed"},
             src : Seq(Commits), tgt : Seq(Commits)]
TheRuns == [at : Labels, t : Tickets \cup {None}, c : ChangeSetNames \cup {None},
            caller : {None, "ticket", "phase", "start", "reconcile"}, todo : SUBSET ChangeSetNames,
            base : Seq(Commits), w : Nat, b : Names \cup {None}]

DomainTypes ==
    /\ ticket \in [DOMAIN ticket -> TheTickets] /\ DOMAIN ticket \subseteq Tickets
    /\ changeSet \in [DOMAIN changeSet -> TheChangeSets]
    /\ ChangeSetIds \subseteq ChangeSetNames /\ IsFiniteSet(ChangeSetIds)
    /\ gate \in [DOMAIN changeSet -> TheGates]
    /\ run \in TheRuns
    /\ made \in Nat

\* A change set is named after its root and its generation, and has a branch of its own.
Sources ==
    \A c \in ChangeSetIds :
        /\ changeSet[c].root = c[1] /\ c[1] \in DOMAIN ticket /\ c[1] \in changeSet[c].tickets
        /\ c[2] <= Cardinality({d \in ChangeSetIds : changeSet[d].root = c[1]})
        /\ changeSet[c].source \in DOMAIN branch \cap OwnBranches(c)

\* A Bug is of the Step that has the code, is caused by its Story and has a number of its
\* own, and only a Bug goes where a gate has judged.
Bound ==
    /\ \A s \in 1..Steps : Story(s) \in DOMAIN ticket
    /\ \A t \in DOMAIN ticket :
        /\ t[1] = "story" => ticket[t].step = t[2]
        /\ t[1] = "bug" => /\ ticket[t].step = CodeStep /\ ticket[t].parent = Story(CodeStep)
                           /\ t[2] <= Cardinality({u \in DOMAIN ticket : u[1] = "bug"})
        /\ Binding(t).kind = "gate" => t[1] = "bug"
        /\ Binding(t).of # None <=> Binding(t).kind \in {"ticket", "gate"}
        /\ Binding(t).of # None => Binding(t).of \in ChangeSetIds
        /\ Binding(t).kind = "gate" =>
            Binding(t).branch \in DOMAIN branch \cap GateBranches /\ Binding(t).branch[2] = Binding(t).of

Attempting == {"baseline", "execute", "judge", "verified"}
Preserving == {"preserve", "preserved", "restore"}
Developing == {"scope", "promote", "create", "route"} \cup Attempting \cup Preserving
Judging == {"open", "review", "gate", "gated", "check", "cleanup", "passed"}
Merging == {"verdict", "authorize", "intend", "squash", "commit", "persist"}
Trying == {"gated", "check", "cleanup"}

\* An attempt is in the working copy of the canonical branch or of a change set that has
\* not landed, and knows what to go back to.
AtWork ==
    /\ run.at \in Developing \cup {"integrate"} =>
        run.t \in DOMAIN ticket /\ run.todo = {} /\ run.caller = None
    /\ run.at \in Developing => ticket[run.t].state = "open"
    /\ At("integrate") => ticket[run.t].state = "done"
    /\ run.at \in Attempting =>
        /\ run.b \in DOMAIN tree \cap DOMAIN branch
        /\ run.b = Main \/ \E c \in Unmerged : changeSet[c].source = run.b
    /\ run.at \in Attempting \cup Preserving => Binding(run.t).kind # "gate"
    /\ run.at \in {"execute", "judge"} => run.base = branch[run.b]
    /\ At("judge") => run.w \in tree[run.b]
    /\ At("verified") => run.w \in Content(branch[run.b])
    /\ At("promote") => /\ Follows(run.t) /\ Binding(run.t).kind = "gate"
                        /\ Binding(run.t).branch \in DOMAIN tree

\* A ticket that has code to write is in the change set it works in, and no other ticket
\* works in one.
Placed ==
    /\ run.at \in Attempting => \A c \in Unmerged : Binding(run.t).of = c => run.t \in changeSet[c].tickets
    /\ (run.at \in Attempting /\ run.b = Main) \/ run.at \in {"preserve", "preserved"} =>
        Binding(run.t).of = None /\ ~ IsCode(run.t)
    /\ At("create") => IsCode(run.t) /\ ~ Follows(run.t) /\ Inherited(run.t) = {}

\* A rejected candidate on the canonical branch is its last commit, until it is taken back.
ToRestore ==
    /\ run.at \in Preserving =>
        /\ run.b = Main /\ tree[Main] = {} /\ staged = {} /\ run.base \in Histories
        /\ branch[Main] = Append(run.base, Last(branch[Main])) /\ Last(branch[Main]).of = None
    /\ At("create") => NewBranch(Story(CodeStep)) \in DOMAIN branch \cap DOMAIN tree
    /\ At("preserved") => NewBranch(run.t) \in DOMAIN branch

\* What is integrated has not landed, and who integrates it will not come to it again.
Integrating ==
    /\ run.todo \subseteq Unmerged
    /\ run.at \in Judging \cup Merging => run.c \in Unmerged /\ run.c \notin run.todo
    /\ At("release") => run.c \in ChangeSetIds /\ ~ Active(run.c)
    /\ run.at \in Judging \cup {"bug"} => run.caller \in {"ticket", "phase"}
    /\ run.at \in Merging => run.caller \in {"ticket", "phase", "start"}
    /\ At("release") => run.caller \in {"ticket", "phase", "start", "reconcile"}
    /\ At("phase") => run.caller = "phase"
    /\ run.at \in Merging => changeSet[run.c].state = "gate-passed"
    /\ At("pending") \/ (run.at \in Merging \cup {"release"} /\ run.caller \in {"start", "reconcile"}) =>
        \A c \in run.todo : changeSet[c].state = "gate-passed"

\* A candidate is on a branch nobody works on.
Candidates ==
    /\ run.at \in Trying =>
        /\ run.b \in DOMAIN branch \cap GateBranches /\ run.b[2] = run.c
        /\ \A c \in ChangeSetIds : changeSet[c].source # run.b
        /\ \A t \in DOMAIN ticket : Binding(t).kind = "gate" => Binding(t).branch # run.b
    /\ At("bug") /\ run.caller = "ticket" =>
        /\ run.c \in ChangeSetIds
        /\ run.b # None => /\ run.b \in DOMAIN branch \cap GateBranches /\ run.b[2] = run.c
                           /\ Content(branch[Source]) \subseteq Content(branch[run.b])

\* There is one Bug at a time, and a Story only when there is none.
OneBug ==
    /\ \A t, u \in OpenBugs : t = u
    /\ run.at \in Developing \cup {"integrate"} => OpenBugs \subseteq {run.t}
    /\ run.at \in Judging \cup Merging \cup {"release", "bug", "phase"} =>
        /\ run.caller = "ticket" => OpenBugs = {}
        /\ run.caller = "phase" => Undone = {}

\* What a gate says is of what it has judged.
Judged ==
    /\ At("gated") =>
        /\ run.base = branch[Main]
        /\ Content(branch[run.b]) = Content(branch[Main]) \cup Content(branch[Source])
    /\ At("check") => /\ TheGate.src = branch[Source] /\ TheGate.status = "running"
                      /\ Content(branch[Source]) \subseteq Content(branch[run.b])
    /\ run.at \in {"authorize", "intend", "squash", "commit"} =>
        TheGate.status = "passed" /\ TheGate.src = branch[Source]
    /\ At("commit") =>
        TheGate.tgt = branch[Main] /\ staged = Content(branch[Source]) \ Content(branch[Main])

\* A change set whose commit is there and whose record is not waits for the next run, and
\* no gate has judged anything since.
Marks == MarksOf(branch[Main])
Unrecorded == {c \in Marks : Active(c)}
Pending(c) ==
    \/ At("down")
    \/ At("pending") /\ c \in run.todo
    \/ At("persist") /\ run.c = c
    \/ At("verdict") /\ run.caller = "start" /\ c \in run.todo \cup {run.c}
    \/ At("release") /\ run.caller = "reconcile" /\ c \in run.todo
Marked ==
    /\ Marks \subseteq ChangeSetIds
    /\ \A x \in ChangeSetIds : MarksOf(gate[x].tgt) \subseteq Marks
    /\ \A c \in Unrecorded :
        /\ \A x \in ChangeSetIds : c \notin MarksOf(gate[x].tgt)
        /\ changeSet[c].state = "gate-passed" /\ Pending(c)

\* What has landed is there with all its branch holds, and stays there when a candidate is
\* taken back.
Landing ==
    /\ \A c \in ChangeSetIds : ~ Active(c) \/ c \in Marks => Holds(c)
    /\ At("persist") => Holds(run.c)
    /\ run.at \in Preserving => \A c \in ChangeSetIds : ~ Active(c) =>
        Content(branch[changeSet[c].source]) \subseteq Content(run.base)

\* Nothing is on the canonical branch, in its index or in its working copy that was not
\* accepted or left, but for what the attempt has just done.
Clear ==
    /\ \A c \in ChangeSetIds : gate[c].status = "passed" => Content(gate[c].src) \subseteq accepted
    /\ staged \subseteq accepted \cup left
    /\ Content(IF run.at \in Preserving THEN run.base ELSE branch[Main]) \subseteq accepted \cup left
    /\ tree[Main] \subseteq accepted \cup left \cup (IF At("judge") /\ run.b = Main THEN {run.w} ELSE {})
    /\ At("verified") => run.w \in accepted

\* Work that was delivered outlives the candidate that is taken back, and the candidate of a
\* gate that an open Bug goes on with.
Delivering ==
    /\ NoWorkLost
    /\ run.at \in Preserving => \A t \in DOMAIN by :
        \/ by[t] \in Content(run.base)
        \/ \E c \in Unmerged : by[t] \in Content(branch[changeSet[c].source])
    /\ \A t \in OpenBugs : Binding(t).kind = "gate" /\ Follows(t) =>
        Content(branch[changeSet[Binding(t).of].source]) \subseteq Content(branch[Binding(t).branch])

\* While there are Stories to come, what is delivered in a change set is in hand, has an open
\* Bug or waits for the next run.
Together == \A c \in Unmerged : \A t \in changeSet[c].tickets : t \in DOMAIN ticket /\ Binding(t).of = c
Owed == {c \in Unmerged : \E t \in changeSet[c].tickets : ticket[t].state = "done"} \ (cut \cup skipped)
Awaited(c) ==
    \/ \E t \in OpenBugs : Binding(t).of = c
    \/ /\ changeSet[c].state = "gate-passed"
       /\ \/ At("down")
          \/ At("pending") /\ c \in run.todo
          \/ /\ run.caller \in {"start", "reconcile"} /\ run.at \in Merging \cup {"release"}
             /\ c \in run.todo \cup {run.c}
    \/ run.at \in Judging \cup Merging \cup {"bug"} /\ run.c = c
    \/ At("integrate") /\ run.t \in changeSet[c].tickets
InSight ==
    /\ Together
    /\ (\E t \in Undone : t[1] = "story") => \A c \in Owed : Awaited(c)

RunInv ==
    /\ GitTypes /\ DomainTypes /\ Sources /\ Bound
    /\ AtWork /\ Placed /\ ToRestore /\ Integrating /\ Candidates /\ OneBug
    /\ Judged /\ Marked /\ Landing /\ Clear /\ Delivering /\ InSight

-----------------------------------------------------------------------------
(* Fresh names.                                                             *)

LEMMA LeastOf ==
    ASSUME NEW S, S \subseteq Nat, S # {}
    PROVE  \E x \in S : \A y \in S : x <= y
<1> DEFINE T == {0..x : x \in S}
<1>1. \A t \in T : t \in FiniteSubsetsOf(Nat)
  <2> SUFFICES ASSUME NEW x \in S PROVE 0..x \in FiniteSubsetsOf(Nat)
    OBVIOUS
  <2>1. x \in Nat /\ 0..x \subseteq Nat
    OBVIOUS
  <2> QED
    BY <2>1, FS_Interval DEF FiniteSubsetsOf
<1>2. PICK t \in T : \A u \in T : <<u, t>> \notin StrictSubsetOrdering(Nat)
  <2>1. T # {} /\ T \subseteq FiniteSubsetsOf(Nat)
    BY <1>1
  <2> HIDE DEF T
  <2> QED
    BY <2>1, FS_StrictSubsetOrderingWellFounded, WFMin
<1>3. PICK x \in S : t = 0..x
  OBVIOUS
<1>4. ASSUME NEW y \in S, ~ (x <= y) PROVE FALSE
  <2>1. x \in Nat /\ y \in Nat /\ 0..y \subseteq 0..x /\ x \in 0..x /\ x \notin 0..y
    BY <1>4
  <2>2. <<0..y, 0..x>> \in StrictSubsetOrdering(Nat)
    BY <2>1 DEF StrictSubsetOrdering
  <2> QED
    BY <1>2, <1>3, <2>2
<1> QED
  BY <1>4

LEMMA NewestIs ==
    ASSUME DomainTypes, Sources, NEW C \in SUBSET ChangeSetIds, C # {}
    PROVE  Newest(C) \in C
<1> DEFINE n == Cardinality(ChangeSetIds)
           S == {n - c[2] : c \in C}
<1>1. n \in Nat
  BY FS_CardinalityType DEF DomainTypes
<1>2. \A c \in C : c[2] \in Nat /\ c[2] <= n
  <2> SUFFICES ASSUME NEW c \in C PROVE c[2] \in Nat /\ c[2] <= n
    OBVIOUS
  <2> DEFINE D == {d \in ChangeSetIds : changeSet[d].root = c[1]}
  <2>1. Cardinality(D) <= n /\ Cardinality(D) \in Nat
    BY <1>1, FS_Subset, FS_CardinalityType DEF DomainTypes
  <2>2. c \in ChangeSetNames /\ c[2] <= Cardinality(D)
    BY DEF Sources, DomainTypes
  <2> HIDE DEF n, D
  <2>3. c[2] \in Nat
    BY <2>2 DEF ChangeSetNames
  <2> QED
    BY <1>1, <2>1, <2>2, <2>3
<1> HIDE DEF n
<1>3. S \subseteq Nat /\ S # {}
  BY <1>1, <1>2
<1>4. PICK s \in S : \A y \in S : s <= y
  BY <1>3, LeastOf
<1>5. PICK c \in C : s = n - c[2]
  OBVIOUS
<1>6. ASSUME NEW d \in C PROVE d[2] <= c[2]
  <2>1. n - c[2] <= n - d[2]
    BY <1>4, <1>5
  <2> HIDE DEF S
  <2> QED
    BY <1>1, <1>2, <2>1
<1> QED
  BY <1>6 DEF Newest

\* Where a ticket finds the change set of its lineage, that has not landed.
LEMMA InheritedIs ==
    ASSUME DomainTypes, Sources, NEW t, Follows(t) => Binding(t).of \in ChangeSetIds,
           Follows(t) \/ Inherited(t) # {}
    PROVE  TheChangeSet(t) \in Unmerged
<1>1. CASE ~ Follows(t)
  <2>1. Inherited(t) \in SUBSET ChangeSetIds /\ Inherited(t) \subseteq Unmerged /\ Inherited(t) # {}
    BY <1>1 DEF Inherited, Unmerged
  <2>2. Newest(Inherited(t)) \in Unmerged
    BY <2>1, NewestIs
  <2> QED
    BY <1>1, <2>2 DEF TheChangeSet
<1>2. CASE Follows(t)
  BY <1>2 DEF TheChangeSet, Follows, Unmerged
<1> QED
  BY <1>1, <1>2

\* The next generation has a name of its own.
LEMMA NewIdIs ==
    ASSUME DomainTypes, Sources, NEW root \in Tickets
    PROVE  /\ Generation(root) \in Nat /\ NewId(root) \in ChangeSetNames \ ChangeSetIds
           /\ NewId(root)[1] = root /\ NewBranch(root) \in OwnBranches(NewId(root))
           /\ NewBranch(root) \in TicketBranches
           /\ NewId(root)[2] = Cardinality({d \in ChangeSetIds : changeSet[d].root = root}) + 1
<1> DEFINE D == {d \in ChangeSetIds : changeSet[d].root = root}
<1>1. Cardinality(D) \in Nat
  BY FS_Subset, FS_CardinalityType DEF DomainTypes
<1>2. Generation(root) = 1 + Cardinality(D)
  BY DEF Generation
<1>3. ASSUME NewId(root) \in ChangeSetIds PROVE FALSE
  <2>1. NewId(root) = <<root, 1 + Cardinality(D)>>
    BY <1>2 DEF NewId
  <2>2. NewId(root)[1] = root /\ NewId(root)[2] = 1 + Cardinality(D)
    BY <2>1
  <2>3. PICK c \in ChangeSetIds : c = NewId(root)
    BY <1>3
  <2>4. c[2] <= Cardinality({d \in ChangeSetIds : changeSet[d].root = c[1]})
    BY DEF Sources
  <2>5. c[1] = root /\ c[2] = 1 + Cardinality(D)
    BY <2>2, <2>3
  <2>6. {d \in ChangeSetIds : changeSet[d].root = c[1]} = D
    BY <2>5
  <2> HIDE DEF D
  <2>7. c[2] <= Cardinality(D)
    BY <2>4, <2>6, Zenon
  <2> QED
    BY <1>1, <2>5, <2>7
<1> HIDE DEF D
<1>4. NewId(root) \in ChangeSetNames /\ NewId(root)[1] = root /\ NewId(root)[2] = Cardinality(D) + 1
  BY <1>1, <1>2 DEF NewId, ChangeSetNames
<1>5. NewBranch(root) = TicketBranch(NewId(root)[1], NewId(root)[2])
  BY DEF NewBranch, NewId
<1> QED
  BY <1>1, <1>2, <1>3, <1>4, <1>5, NewBranchIs DEF D, OwnBranches

\* A gate makes its candidate on a branch that was not there.
LEMMA FreshGateIs ==
    ASSUME GitTypes, NEW c \in ChangeSetNames
    PROVE  FreshGate(c) \in GateBranches \ DOMAIN branch /\ FreshGate(c)[2] = c
<1> DEFINE n == Cardinality(DOMAIN branch)
           S == {i \in 1..(1 + n) : GateBranch(c, i) \notin DOMAIN branch}
<1>1. n \in Nat /\ IsFiniteSet(DOMAIN branch)
  BY FS_CardinalityType DEF GitTypes
<1>2. S # {}
  <2> SUFFICES ASSUME \A i \in 1..(1 + n) : GateBranch(c, i) \in DOMAIN branch PROVE FALSE
    OBVIOUS
  <2> DEFINE f == [i \in 1..(1 + n) |-> GateBranch(c, i)]
  <2>1. IsFiniteSet(1..(1 + n)) /\ Cardinality(1..(1 + n)) = 1 + n
    BY <1>1, FS_Interval
  <2>2. f \in [1..(1 + n) -> DOMAIN branch]
    OBVIOUS
  <2>3. \A i, j \in 1..(1 + n) : i # j => f[i] # f[j]
    BY DEF GateBranch
  <2>4. Cardinality(1..(1 + n)) > n
    BY <1>1, <2>1
  <2> HIDE DEF n, f
  <2>5. \E i, j \in 1..(1 + n) : i # j /\ f[i] = f[j]
    BY <1>1, <2>1, <2>2, <2>4, FS_PigeonHole DEF n
  <2> QED
    BY <2>3, <2>5
<1>3. S \subseteq Nat
  BY <1>1
<1>4. \E x \in S : \A y \in S : x <= y
  BY <1>2, <1>3, LeastOf
<1>5. Min(S) \in S
  BY <1>4 DEF Min
<1>6. FreshGate(c) = GateBranch(c, Min(S))
  BY DEF FreshGate
<1> HIDE DEF n
<1>7. Min(S) \in Nat /\ GateBranch(c, Min(S)) \notin DOMAIN branch
  BY <1>1, <1>5
<1> QED
  BY <1>6, <1>7, GateBranchIs

-----------------------------------------------------------------------------
(* Steps that only move the run on.                                         *)

USE DEF At, Go, Developing, Attempting, Preserving, Judging, Merging, Trying

\* The part of the invariant that is about the run.
RunParts == AtWork /\ Placed /\ ToRestore /\ Integrating /\ Candidates /\ OneBug /\ Judged
Still == UNCHANGED <<git, domain, record>>

LEMMA RunIs == RunInv => run \in TheRuns /\ run.at \in Labels /\ made \in Nat
  BY DEF RunInv, DomainTypes, TheRuns

LEMMA StillTypes ==
    ASSUME RunInv, Still, run' \in TheRuns, made' = made
    PROVE  GitTypes' /\ DomainTypes' /\ Sources' /\ Bound'
  BY DEF RunInv, Still, git, domain, GitTypes, DomainTypes, Sources, Bound, Binding, ChangeSetIds

LEMMA StillKeeps ==
    ASSUME RunInv, Still, run' \in TheRuns, made' = made, RunParts',
           left \subseteq left', cut \subseteq cut', skipped \subseteq skipped',
           run.at \notin Preserving \cup {"judge", "verified"},
           run'.at \notin Preserving \cup {"judge", "verified", "persist"},
           \A c \in Unrecorded : Pending(c) => Pending(c)',
           \A c \in Owed : Awaited(c) => Awaited(c)' \/ c \in cut' \cup skipped'
    PROVE  RunInv'
<1>1. GitTypes' /\ DomainTypes' /\ Sources' /\ Bound'
  BY StillTypes
<1>2. Marked'
  BY DEF RunInv, Still, git, domain, Marked, Marks, Unrecorded, Active, ChangeSetIds
<1>3. Landing'
  BY DEF RunInv, Still, git, domain, Landing, Marks, Holds, Active, ChangeSetIds
<1>4. Clear'
  BY DEF RunInv, Still, git, domain, record, Clear, ChangeSetIds
<1>5. Delivering'
  BY DEF RunInv, Still, git, domain, record, Delivering, NoWorkLost, Unmerged, Active, OpenBugs, Undone,
         Binding, Follows, ChangeSetIds
<1>6. InSight'
  <2>1. Together'
    BY DEF RunInv, Still, domain, InSight, Together, Unmerged, Active, Binding, ChangeSetIds
  <2>2. \A c \in Owed' : c \in Owed /\ c \notin cut' \cup skipped'
    BY DEF Still, domain, Owed, Unmerged, Active, ChangeSetIds
  <2>3. Undone' = Undone
    BY DEF Still, domain, Undone
  <2> QED
    BY <2>1, <2>2, <2>3 DEF RunInv, InSight
<1> QED
  BY <1>1, <1>2, <1>3, <1>4, <1>5, <1>6 DEF RunInv, RunParts

LEMMA StartRunKeeps ==
    ASSUME RunInv, StartRun
    PROVE  RunInv'
<1>1. Still /\ made' = made /\ UNCHANGED ends
  BY DEF StartRun, Still, counts, record, Fails, Fault
<1>2. /\ At("down")
      /\ run' = [at |-> "pending", t |-> None, c |-> None, caller |-> None, todo |-> {c \in Unmerged : changeSet[c].state = "gate-passed"},
                       base |-> <<>>, w |-> 0, b |-> None]
  BY DEF StartRun, Idle
<1>3. run' \in TheRuns
  BY <1>2, RunIs DEF TheRuns, Labels, RunInv, Unmerged, DomainTypes, ChangeSetIds
<1>4. AtWork'
  BY <1>1, <1>2, RunIs DEF RunInv, Still, git, domain, TheRuns, AtWork, Unmerged, Active, ChangeSetIds, Binding, Follows
<1>5. Placed'
  BY <1>1, <1>2, RunIs DEF RunInv, Still, git, domain, TheRuns, Placed, Unmerged, Active, Inherited, Lineage, IsCode, ChangeSetIds, Binding, Follows
<1>6. ToRestore'
  BY <1>1, <1>2, RunIs DEF RunInv, Still, git, domain, TheRuns, ToRestore
<1>7. Integrating'
  BY <1>1, <1>2, RunIs DEF RunInv, Still, git, domain, TheRuns, Integrating, Unmerged, Active, ChangeSetIds
<1>8. Candidates'
  BY <1>1, <1>2, RunIs DEF RunInv, Still, git, domain, TheRuns, Candidates, Source, Binding, ChangeSetIds
<1>9. OneBug'
  BY <1>1, <1>2, RunIs DEF RunInv, Still, git, domain, TheRuns, OneBug, OpenBugs, Undone
<1>10. Judged'
  BY <1>1, <1>2, RunIs DEF RunInv, Still, git, domain, TheRuns, Judged, TheGate, Source
<1>11. \A c \in Unrecorded : Pending(c) => Pending(c)'
  BY <1>2 DEF RunInv, Marked, Pending, Unrecorded, Unmerged, Marks
<1>12. \A c \in Owed : Awaited(c) => Awaited(c)'
  BY <1>1, <1>2, RunIs DEF RunInv, TheRuns, Still, domain, Awaited, OpenBugs, Undone, Binding, Integrating, Owed, Unmerged
<1> QED
  BY <1>1, <1>2, <1>3, <1>4, <1>5, <1>6, <1>7, <1>8, <1>9, <1>10, <1>11, <1>12, StillKeeps DEF RunParts, ends

LEMMA ScheduleKeeps ==
    ASSUME RunInv, Schedule
    PROVE  RunInv'
<1>1. Still /\ made' = made /\ UNCHANGED ends
  BY DEF Schedule, Still, counts, record, Fails, Fault
<1>2. PICK t \in Offered :
        At("loop") /\ run' = [at |-> "scope", t |-> t, c |-> None, caller |-> None, todo |-> {},
                       base |-> <<>>, w |-> 0, b |-> None]
  BY DEF Schedule, Idle
<1>3. run' \in TheRuns
  BY <1>2, RunIs DEF TheRuns, Labels, RunInv, DomainTypes, Offered, OpenBugs, Undone
<1>4. AtWork'
  BY <1>1, <1>2, RunIs DEF RunInv, Still, git, domain, TheRuns, AtWork, Unmerged, Active, ChangeSetIds, Binding, Follows, Offered, OpenBugs, Undone
<1>5. Placed'
  BY <1>1, <1>2, RunIs DEF RunInv, Still, git, domain, TheRuns, Placed, Unmerged, Active, Inherited, Lineage, IsCode, ChangeSetIds, Binding, Follows, Offered, OpenBugs, Undone
<1>6. ToRestore'
  BY <1>1, <1>2, RunIs DEF RunInv, Still, git, domain, TheRuns, ToRestore, Offered, OpenBugs, Undone
<1>7. Integrating'
  BY <1>1, <1>2, RunIs DEF RunInv, Still, git, domain, TheRuns, Integrating, Unmerged, Active, ChangeSetIds, Offered, OpenBugs, Undone
<1>8. Candidates'
  BY <1>1, <1>2, RunIs DEF RunInv, Still, git, domain, TheRuns, Candidates, Source, Binding, ChangeSetIds, Offered, OpenBugs, Undone
<1>9. OneBug'
  BY <1>1, <1>2, RunIs DEF RunInv, Still, git, domain, TheRuns, OneBug, OpenBugs, Undone, Offered, OpenBugs, Undone
<1>10. Judged'
  BY <1>1, <1>2, RunIs DEF RunInv, Still, git, domain, TheRuns, Judged, TheGate, Source, Offered, OpenBugs, Undone
<1>11. \A c \in Unrecorded : Pending(c) => Pending(c)'
  BY <1>1, <1>2, RunIs DEF RunInv, TheRuns, Pending, Integrating, Offered, OpenBugs, Undone
<1>12. \A c \in Owed : Awaited(c) => Awaited(c)'
  BY <1>1, <1>2, RunIs DEF RunInv, TheRuns, Still, domain, Awaited, OpenBugs, Undone, Binding, Integrating, Offered, OpenBugs, Undone
<1> QED
  BY <1>1, <1>2, <1>3, <1>4, <1>5, <1>6, <1>7, <1>8, <1>9, <1>10, <1>11, <1>12, StillKeeps DEF RunParts, ends

LEMMA PhaseGatePassesKeeps ==
    ASSUME RunInv, PhaseGatePasses
    PROVE  RunInv'
<1>1. Still /\ made' = made /\ UNCHANGED ends
  BY DEF PhaseGatePasses, Still, counts, record, Fails, Fault
<1>2. /\ At("loop") /\ Undone = {}
      /\ run' = [at |-> "phase", t |-> None, c |-> None, caller |-> "phase", todo |-> Unmerged,
                       base |-> <<>>, w |-> 0, b |-> None]
  BY DEF PhaseGatePasses, Idle
<1>3. run' \in TheRuns
  BY <1>2, RunIs DEF TheRuns, Labels, RunInv, Unmerged, DomainTypes, ChangeSetIds
<1>4. AtWork'
  BY <1>1, <1>2, RunIs DEF RunInv, Still, git, domain, TheRuns, AtWork, Unmerged, Active, ChangeSetIds, Binding, Follows
<1>5. Placed'
  BY <1>1, <1>2, RunIs DEF RunInv, Still, git, domain, TheRuns, Placed, Unmerged, Active, Inherited, Lineage, IsCode, ChangeSetIds, Binding, Follows
<1>6. ToRestore'
  BY <1>1, <1>2, RunIs DEF RunInv, Still, git, domain, TheRuns, ToRestore
<1>7. Integrating'
  BY <1>1, <1>2, RunIs DEF RunInv, Still, git, domain, TheRuns, Integrating, Unmerged, Active, ChangeSetIds
<1>8. Candidates'
  BY <1>1, <1>2, RunIs DEF RunInv, Still, git, domain, TheRuns, Candidates, Source, Binding, ChangeSetIds
<1>9. OneBug'
  BY <1>1, <1>2, RunIs DEF RunInv, Still, git, domain, TheRuns, OneBug, OpenBugs, Undone
<1>10. Judged'
  BY <1>1, <1>2, RunIs DEF RunInv, Still, git, domain, TheRuns, Judged, TheGate, Source
<1>11. \A c \in Unrecorded : Pending(c) => Pending(c)'
  BY <1>1, <1>2, RunIs DEF RunInv, TheRuns, Pending, Integrating
<1>12. \A c \in Owed : Awaited(c) => Awaited(c)'
  BY <1>1, <1>2, RunIs DEF RunInv, TheRuns, Still, domain, Awaited, OpenBugs, Undone, Binding, Integrating
<1> QED
  BY <1>1, <1>2, <1>3, <1>4, <1>5, <1>6, <1>7, <1>8, <1>9, <1>10, <1>11, <1>12, StillKeeps DEF RunParts, ends

LEMMA PhaseGateFailsKeeps ==
    ASSUME RunInv, PhaseGateFails
    PROVE  RunInv'
<1>1. Still /\ made' = made /\ UNCHANGED ends
  BY DEF PhaseGateFails, Still, counts, record, Fails, Fault
<1>2. /\ At("loop") /\ Undone = {}
      /\ run' = [at |-> "bug", t |-> None, c |-> None, caller |-> "phase", todo |-> {},
                       base |-> <<>>, w |-> 0, b |-> None]
  BY DEF PhaseGateFails, Idle
<1>3. run' \in TheRuns
  BY <1>2, RunIs DEF TheRuns, Labels
<1>4. AtWork'
  BY <1>1, <1>2, RunIs DEF RunInv, Still, git, domain, TheRuns, AtWork, Unmerged, Active, ChangeSetIds, Binding, Follows
<1>5. Placed'
  BY <1>1, <1>2, RunIs DEF RunInv, Still, git, domain, TheRuns, Placed, Unmerged, Active, Inherited, Lineage, IsCode, ChangeSetIds, Binding, Follows
<1>6. ToRestore'
  BY <1>1, <1>2, RunIs DEF RunInv, Still, git, domain, TheRuns, ToRestore
<1>7. Integrating'
  BY <1>1, <1>2, RunIs DEF RunInv, Still, git, domain, TheRuns, Integrating, Unmerged, Active, ChangeSetIds
<1>8. Candidates'
  BY <1>1, <1>2, RunIs DEF RunInv, Still, git, domain, TheRuns, Candidates, Source, Binding, ChangeSetIds
<1>9. OneBug'
  BY <1>1, <1>2, RunIs DEF RunInv, Still, git, domain, TheRuns, OneBug, OpenBugs, Undone
<1>10. Judged'
  BY <1>1, <1>2, RunIs DEF RunInv, Still, git, domain, TheRuns, Judged, TheGate, Source
<1>11. \A c \in Unrecorded : Pending(c) => Pending(c)'
  BY <1>1, <1>2, RunIs DEF RunInv, TheRuns, Pending, Integrating
<1>12. \A c \in Owed : Awaited(c) => Awaited(c)'
  BY <1>1, <1>2, RunIs DEF RunInv, TheRuns, Still, domain, Awaited, OpenBugs, Undone, Binding, Integrating
<1> QED
  BY <1>1, <1>2, <1>3, <1>4, <1>5, <1>6, <1>7, <1>8, <1>9, <1>10, <1>11, <1>12, StillKeeps DEF RunParts, ends

LEMMA CompleteKeeps ==
    ASSUME RunInv, Complete
    PROVE  RunInv'
<1>1. Still /\ made' = made /\ UNCHANGED ends
  BY DEF Complete, Still, counts, record, Fails, Fault
<1>2. At("phase") /\ run' = [run EXCEPT !.at = "complete"]
  BY DEF Complete
<1>3. run' \in TheRuns
  BY <1>2, RunIs DEF TheRuns, Labels
<1>4. AtWork'
  BY <1>1, <1>2, RunIs DEF RunInv, Still, git, domain, TheRuns, AtWork, Unmerged, Active, ChangeSetIds, Binding, Follows
<1>5. Placed'
  BY <1>1, <1>2, RunIs DEF RunInv, Still, git, domain, TheRuns, Placed, Unmerged, Active, Inherited, Lineage, IsCode, ChangeSetIds, Binding, Follows
<1>6. ToRestore'
  BY <1>1, <1>2, RunIs DEF RunInv, Still, git, domain, TheRuns, ToRestore
<1>7. Integrating'
  BY <1>1, <1>2, RunIs DEF RunInv, Still, git, domain, TheRuns, Integrating, Unmerged, Active, ChangeSetIds
<1>8. Candidates'
  BY <1>1, <1>2, RunIs DEF RunInv, Still, git, domain, TheRuns, Candidates, Source, Binding, ChangeSetIds
<1>9. OneBug'
  BY <1>1, <1>2, RunIs DEF RunInv, Still, git, domain, TheRuns, OneBug, OpenBugs, Undone
<1>10. Judged'
  BY <1>1, <1>2, RunIs DEF RunInv, Still, git, domain, TheRuns, Judged, TheGate, Source
<1>11. \A c \in Unrecorded : Pending(c) => Pending(c)'
  BY <1>1, <1>2, RunIs DEF RunInv, TheRuns, Pending, Integrating
<1>12. \A c \in Owed : Awaited(c) => Awaited(c)'
  BY <1>1, <1>2, RunIs DEF RunInv, TheRuns, Still, domain, Awaited, OpenBugs, Undone, Binding, Integrating
<1> QED
  BY <1>1, <1>2, <1>3, <1>4, <1>5, <1>6, <1>7, <1>8, <1>9, <1>10, <1>11, <1>12, StillKeeps DEF RunParts, ends

LEMMA NothingToMergeKeeps ==
    ASSUME RunInv, NothingToMerge
    PROVE  RunInv'
<1>1. Still /\ made' = made /\ UNCHANGED ends
  BY DEF NothingToMerge, Still, counts, record, Fails, Fault
<1>2. /\ At("integrate") /\ run' = [run EXCEPT !.at = "loop"]
      /\ \A c \in Unmerged : run.t \notin changeSet[c].tickets
  BY DEF NothingToMerge, Unmerged
<1>3. run' \in TheRuns
  BY <1>2, RunIs DEF TheRuns, Labels
<1>4. AtWork'
  BY <1>1, <1>2, RunIs DEF RunInv, Still, git, domain, TheRuns, AtWork, Unmerged, Active, ChangeSetIds, Binding, Follows
<1>5. Placed'
  BY <1>1, <1>2, RunIs DEF RunInv, Still, git, domain, TheRuns, Placed, Unmerged, Active, Inherited, Lineage, IsCode, ChangeSetIds, Binding, Follows
<1>6. ToRestore'
  BY <1>1, <1>2, RunIs DEF RunInv, Still, git, domain, TheRuns, ToRestore
<1>7. Integrating'
  BY <1>1, <1>2, RunIs DEF RunInv, Still, git, domain, TheRuns, Integrating, Unmerged, Active, ChangeSetIds
<1>8. Candidates'
  BY <1>1, <1>2, RunIs DEF RunInv, Still, git, domain, TheRuns, Candidates, Source, Binding, ChangeSetIds
<1>9. OneBug'
  BY <1>1, <1>2, RunIs DEF RunInv, Still, git, domain, TheRuns, OneBug, OpenBugs, Undone
<1>10. Judged'
  BY <1>1, <1>2, RunIs DEF RunInv, Still, git, domain, TheRuns, Judged, TheGate, Source
<1>11. \A c \in Unrecorded : Pending(c) => Pending(c)'
  BY <1>1, <1>2, RunIs DEF RunInv, TheRuns, Pending, Integrating
<1>12. \A c \in Owed : Awaited(c) => Awaited(c)'
  BY <1>1, <1>2, RunIs DEF RunInv, TheRuns, Still, domain, Awaited, OpenBugs, Undone, Binding, Integrating, Owed
<1> QED
  BY <1>1, <1>2, <1>3, <1>4, <1>5, <1>6, <1>7, <1>8, <1>9, <1>10, <1>11, <1>12, StillKeeps DEF RunParts, ends

LEMMA IntegrateTicketKeeps ==
    ASSUME RunInv, IntegrateTicket
    PROVE  RunInv'
<1>1. Still /\ made' = made /\ UNCHANGED ends
  BY DEF IntegrateTicket, Still, counts, record, Fails, Fault
<1>2. PICK d \in Unmerged :
        /\ At("integrate") /\ run.t \in changeSet[d].tickets
        /\ run' = [run EXCEPT !.at = "open", !.c = d, !.caller = "ticket"]
  BY DEF IntegrateTicket, Unmerged
<1>3. run' \in TheRuns
  BY <1>2, RunIs DEF TheRuns, Labels, RunInv, Unmerged, DomainTypes, ChangeSetIds
<1>4. AtWork'
  BY <1>1, <1>2, RunIs DEF RunInv, Still, git, domain, TheRuns, AtWork, Unmerged, Active, ChangeSetIds, Binding, Follows
<1>5. Placed'
  BY <1>1, <1>2, RunIs DEF RunInv, Still, git, domain, TheRuns, Placed, Unmerged, Active, Inherited, Lineage, IsCode, ChangeSetIds, Binding, Follows
<1>6. ToRestore'
  BY <1>1, <1>2, RunIs DEF RunInv, Still, git, domain, TheRuns, ToRestore
<1>7. Integrating'
  BY <1>1, <1>2, RunIs DEF RunInv, Still, git, domain, TheRuns, Integrating, Unmerged, Active, ChangeSetIds, AtWork
<1>8. Candidates'
  BY <1>1, <1>2, RunIs DEF RunInv, Still, git, domain, TheRuns, Candidates, Source, Binding, ChangeSetIds
<1>9. OneBug'
  BY <1>1, <1>2, RunIs DEF RunInv, Still, git, domain, TheRuns, OneBug, OpenBugs, Undone, AtWork
<1>10. Judged'
  BY <1>1, <1>2, RunIs DEF RunInv, Still, git, domain, TheRuns, Judged, TheGate, Source
<1>11. \A c \in Unrecorded : Pending(c) => Pending(c)'
  BY <1>1, <1>2, RunIs DEF RunInv, TheRuns, Pending, Integrating
<1>12. \A c \in Owed : Awaited(c) => Awaited(c)'
  BY <1>1, <1>2, RunIs DEF RunInv, TheRuns, Still, domain, Awaited, OpenBugs, Undone, Binding, Integrating, Owed, AtWork, InSight, Together
<1> QED
  BY <1>1, <1>2, <1>3, <1>4, <1>5, <1>6, <1>7, <1>8, <1>9, <1>10, <1>11, <1>12, StillKeeps DEF RunParts, ends

LEMMA IntegrateNextKeeps ==
    ASSUME RunInv, IntegrateNext
    PROVE  RunInv'
<1>1. Still /\ made' = made /\ UNCHANGED ends
  BY DEF IntegrateNext, Still, counts, record, Fails, Fault
<1>2. PICK d \in run.todo :
        At("phase") /\ run' = [run EXCEPT !.at = "open", !.c = d, !.caller = "phase", !.todo = run.todo \ {d}]
  BY DEF IntegrateNext
<1>3. run' \in TheRuns
  BY <1>2, RunIs DEF TheRuns, Labels
<1>4. AtWork'
  BY <1>1, <1>2, RunIs DEF RunInv, Still, git, domain, TheRuns, AtWork, Unmerged, Active, ChangeSetIds, Binding, Follows
<1>5. Placed'
  BY <1>1, <1>2, RunIs DEF RunInv, Still, git, domain, TheRuns, Placed, Unmerged, Active, Inherited, Lineage, IsCode, ChangeSetIds, Binding, Follows
<1>6. ToRestore'
  BY <1>1, <1>2, RunIs DEF RunInv, Still, git, domain, TheRuns, ToRestore
<1>7. Integrating'
  BY <1>1, <1>2, RunIs DEF RunInv, Still, git, domain, TheRuns, Integrating, Unmerged, Active, ChangeSetIds
<1>8. Candidates'
  BY <1>1, <1>2, RunIs DEF RunInv, Still, git, domain, TheRuns, Candidates, Source, Binding, ChangeSetIds
<1>9. OneBug'
  BY <1>1, <1>2, RunIs DEF RunInv, Still, git, domain, TheRuns, OneBug, OpenBugs, Undone, Integrating
<1>10. Judged'
  BY <1>1, <1>2, RunIs DEF RunInv, Still, git, domain, TheRuns, Judged, TheGate, Source
<1>11. \A c \in Unrecorded : Pending(c) => Pending(c)'
  BY <1>1, <1>2, RunIs DEF RunInv, TheRuns, Pending, Integrating
<1>12. \A c \in Owed : Awaited(c) => Awaited(c)'
  BY <1>1, <1>2, RunIs DEF RunInv, TheRuns, Still, domain, Awaited, OpenBugs, Undone, Binding, Integrating
<1> QED
  BY <1>1, <1>2, <1>3, <1>4, <1>5, <1>6, <1>7, <1>8, <1>9, <1>10, <1>11, <1>12, StillKeeps DEF RunParts, ends

LEMMA VerdictHoldsKeeps ==
    ASSUME RunInv, VerdictHolds
    PROVE  RunInv'
<1>1. Still /\ made' = made /\ UNCHANGED ends
  BY DEF VerdictHolds, Still, counts, record, Fails, Fault
<1>2. PICK label \in {"intend", "authorize"} :
        /\ At("verdict") /\ run' = [run EXCEPT !.at = label]
        /\ TheGate.status = "passed" /\ TheGate.src = branch[Source] /\ TheGate.tgt = branch[Main]
  BY DEF VerdictHolds, IsCurrent
<1>3. run' \in TheRuns
  BY <1>2, RunIs DEF TheRuns, Labels
<1>4. AtWork'
  BY <1>1, <1>2, RunIs DEF RunInv, Still, git, domain, TheRuns, AtWork, Unmerged, Active, ChangeSetIds, Binding, Follows
<1>5. Placed'
  BY <1>1, <1>2, RunIs DEF RunInv, Still, git, domain, TheRuns, Placed, Unmerged, Active, Inherited, Lineage, IsCode, ChangeSetIds, Binding, Follows
<1>6. ToRestore'
  BY <1>1, <1>2, RunIs DEF RunInv, Still, git, domain, TheRuns, ToRestore
<1>7. Integrating'
  BY <1>1, <1>2, RunIs DEF RunInv, Still, git, domain, TheRuns, Integrating, Unmerged, Active, ChangeSetIds
<1>8. Candidates'
  BY <1>1, <1>2, RunIs DEF RunInv, Still, git, domain, TheRuns, Candidates, Source, Binding, ChangeSetIds
<1>9. OneBug'
  BY <1>1, <1>2, RunIs DEF RunInv, Still, git, domain, TheRuns, OneBug, OpenBugs, Undone
<1>10. Judged'
  BY <1>1, <1>2, RunIs DEF RunInv, Still, git, domain, TheRuns, Judged, TheGate, Source
<1>11. \A c \in Unrecorded : Pending(c) => Pending(c)'
  BY <1>2, RunIs DEF RunInv, TheGate, Integrating, Marked, Marks, Unrecorded, Unmerged
<1>12. \A c \in Owed : Awaited(c) => Awaited(c)'
  BY <1>1, <1>2, RunIs DEF RunInv, TheRuns, Still, domain, Awaited, OpenBugs, Undone, Binding, Integrating
<1> QED
  BY <1>1, <1>2, <1>3, <1>4, <1>5, <1>6, <1>7, <1>8, <1>9, <1>10, <1>11, <1>12, StillKeeps DEF RunParts, ends

LEMMA ApproveKeeps ==
    ASSUME RunInv, Approve
    PROVE  RunInv'
<1>1. Still /\ made' = made /\ UNCHANGED ends
  BY DEF Approve, Still, counts, record, Fails, Fault
<1>2. At("authorize") /\ run' = [run EXCEPT !.at = "intend"]
  BY DEF Approve
<1>3. run' \in TheRuns
  BY <1>2, RunIs DEF TheRuns, Labels
<1>4. AtWork'
  BY <1>1, <1>2, RunIs DEF RunInv, Still, git, domain, TheRuns, AtWork, Unmerged, Active, ChangeSetIds, Binding, Follows
<1>5. Placed'
  BY <1>1, <1>2, RunIs DEF RunInv, Still, git, domain, TheRuns, Placed, Unmerged, Active, Inherited, Lineage, IsCode, ChangeSetIds, Binding, Follows
<1>6. ToRestore'
  BY <1>1, <1>2, RunIs DEF RunInv, Still, git, domain, TheRuns, ToRestore
<1>7. Integrating'
  BY <1>1, <1>2, RunIs DEF RunInv, Still, git, domain, TheRuns, Integrating, Unmerged, Active, ChangeSetIds
<1>8. Candidates'
  BY <1>1, <1>2, RunIs DEF RunInv, Still, git, domain, TheRuns, Candidates, Source, Binding, ChangeSetIds
<1>9. OneBug'
  BY <1>1, <1>2, RunIs DEF RunInv, Still, git, domain, TheRuns, OneBug, OpenBugs, Undone
<1>10. Judged'
  BY <1>1, <1>2, RunIs DEF RunInv, Still, git, domain, TheRuns, Judged, TheGate, Source
<1>11. \A c \in Unrecorded : Pending(c) => Pending(c)'
  BY <1>1, <1>2, RunIs DEF RunInv, TheRuns, Pending, Integrating
<1>12. \A c \in Owed : Awaited(c) => Awaited(c)'
  BY <1>1, <1>2, RunIs DEF RunInv, TheRuns, Still, domain, Awaited, OpenBugs, Undone, Binding, Integrating
<1> QED
  BY <1>1, <1>2, <1>3, <1>4, <1>5, <1>6, <1>7, <1>8, <1>9, <1>10, <1>11, <1>12, StillKeeps DEF RunParts, ends

LEMMA NothingPendingKeeps ==
    ASSUME RunInv, NothingPending
    PROVE  RunInv'
<1>1. Still /\ made' = made /\ UNCHANGED ends
  BY DEF NothingPending, Still, counts, record, Fails, Fault
<1>2. At("pending") /\ run.todo = {} /\ run' = [run EXCEPT !.at = "loop"]
  BY DEF NothingPending
<1>3. run' \in TheRuns
  BY <1>2, RunIs DEF TheRuns, Labels
<1>4. AtWork'
  BY <1>1, <1>2, RunIs DEF RunInv, Still, git, domain, TheRuns, AtWork, Unmerged, Active, ChangeSetIds, Binding, Follows
<1>5. Placed'
  BY <1>1, <1>2, RunIs DEF RunInv, Still, git, domain, TheRuns, Placed, Unmerged, Active, Inherited, Lineage, IsCode, ChangeSetIds, Binding, Follows
<1>6. ToRestore'
  BY <1>1, <1>2, RunIs DEF RunInv, Still, git, domain, TheRuns, ToRestore
<1>7. Integrating'
  BY <1>1, <1>2, RunIs DEF RunInv, Still, git, domain, TheRuns, Integrating, Unmerged, Active, ChangeSetIds
<1>8. Candidates'
  BY <1>1, <1>2, RunIs DEF RunInv, Still, git, domain, TheRuns, Candidates, Source, Binding, ChangeSetIds
<1>9. OneBug'
  BY <1>1, <1>2, RunIs DEF RunInv, Still, git, domain, TheRuns, OneBug, OpenBugs, Undone
<1>10. Judged'
  BY <1>1, <1>2, RunIs DEF RunInv, Still, git, domain, TheRuns, Judged, TheGate, Source
<1>11. \A c \in Unrecorded : Pending(c) => Pending(c)'
  BY <1>1, <1>2, RunIs DEF RunInv, TheRuns, Pending, Integrating
<1>12. \A c \in Owed : Awaited(c) => Awaited(c)'
  BY <1>1, <1>2, RunIs DEF RunInv, TheRuns, Still, domain, Awaited, OpenBugs, Undone, Binding, Integrating
<1> QED
  BY <1>1, <1>2, <1>3, <1>4, <1>5, <1>6, <1>7, <1>8, <1>9, <1>10, <1>11, <1>12, StillKeeps DEF RunParts, ends

LEMMA ResumeGateKeeps ==
    ASSUME RunInv, ResumeGate
    PROVE  RunInv'
<1>1. Still /\ made' = made /\ UNCHANGED ends
  BY DEF ResumeGate, Still, counts, record, Fails, Fault
<1>2. PICK d \in run.todo :
        /\ At("pending")
        /\ run' = [run EXCEPT !.at = "verdict", !.c = d, !.caller = "start", !.todo = run.todo \ {d}]
  BY DEF ResumeGate, Resume
<1>3. run' \in TheRuns
  BY <1>2, RunIs DEF TheRuns, Labels
<1>4. AtWork'
  BY <1>1, <1>2, RunIs DEF RunInv, Still, git, domain, TheRuns, AtWork, Unmerged, Active, ChangeSetIds, Binding, Follows
<1>5. Placed'
  BY <1>1, <1>2, RunIs DEF RunInv, Still, git, domain, TheRuns, Placed, Unmerged, Active, Inherited, Lineage, IsCode, ChangeSetIds, Binding, Follows
<1>6. ToRestore'
  BY <1>1, <1>2, RunIs DEF RunInv, Still, git, domain, TheRuns, ToRestore
<1>7. Integrating'
  BY <1>1, <1>2, RunIs DEF RunInv, Still, git, domain, TheRuns, Integrating, Unmerged, Active, ChangeSetIds
<1>8. Candidates'
  BY <1>1, <1>2, RunIs DEF RunInv, Still, git, domain, TheRuns, Candidates, Source, Binding, ChangeSetIds
<1>9. OneBug'
  BY <1>1, <1>2, RunIs DEF RunInv, Still, git, domain, TheRuns, OneBug, OpenBugs, Undone
<1>10. Judged'
  BY <1>1, <1>2, RunIs DEF RunInv, Still, git, domain, TheRuns, Judged, TheGate, Source
<1>11. \A c \in Unrecorded : Pending(c) => Pending(c)'
  BY <1>1, <1>2, RunIs DEF RunInv, TheRuns, Pending, Integrating
<1>12. \A c \in Owed : Awaited(c) => Awaited(c)'
  BY <1>1, <1>2, RunIs DEF RunInv, TheRuns, Still, domain, Awaited, OpenBugs, Undone, Binding, Integrating
<1> QED
  BY <1>1, <1>2, <1>3, <1>4, <1>5, <1>6, <1>7, <1>8, <1>9, <1>10, <1>11, <1>12, StillKeeps DEF RunParts, ends

LEMMA ConflictKeeps ==
    ASSUME RunInv, Conflict
    PROVE  RunInv'
<1>1. Still /\ made' = made /\ UNCHANGED ends
  BY DEF Conflict, Still, counts, record, Fails, Fault
<1>2. At("gate") /\ run' = [run EXCEPT !.at = "bug", !.b = None]
  BY DEF Conflict
<1>3. run' \in TheRuns
  BY <1>2, RunIs DEF TheRuns, Labels
<1>4. AtWork'
  BY <1>1, <1>2, RunIs DEF RunInv, Still, git, domain, TheRuns, AtWork, Unmerged, Active, ChangeSetIds, Binding, Follows
<1>5. Placed'
  BY <1>1, <1>2, RunIs DEF RunInv, Still, git, domain, TheRuns, Placed, Unmerged, Active, Inherited, Lineage, IsCode, ChangeSetIds, Binding, Follows
<1>6. ToRestore'
  BY <1>1, <1>2, RunIs DEF RunInv, Still, git, domain, TheRuns, ToRestore
<1>7. Integrating'
  BY <1>1, <1>2, RunIs DEF RunInv, Still, git, domain, TheRuns, Integrating, Unmerged, Active, ChangeSetIds
<1>8. Candidates'
  BY <1>1, <1>2, RunIs DEF RunInv, Still, git, domain, TheRuns, Candidates, Source, Binding, ChangeSetIds, Integrating, Unmerged
<1>9. OneBug'
  BY <1>1, <1>2, RunIs DEF RunInv, Still, git, domain, TheRuns, OneBug, OpenBugs, Undone
<1>10. Judged'
  BY <1>1, <1>2, RunIs DEF RunInv, Still, git, domain, TheRuns, Judged, TheGate, Source
<1>11. \A c \in Unrecorded : Pending(c) => Pending(c)'
  BY <1>1, <1>2, RunIs DEF RunInv, TheRuns, Pending, Integrating
<1>12. \A c \in Owed : Awaited(c) => Awaited(c)'
  BY <1>1, <1>2, RunIs DEF RunInv, TheRuns, Still, domain, Awaited, OpenBugs, Undone, Binding, Integrating
<1> QED
  BY <1>1, <1>2, <1>3, <1>4, <1>5, <1>6, <1>7, <1>8, <1>9, <1>10, <1>11, <1>12, StillKeeps DEF RunParts, ends

-----------------------------------------------------------------------------
(* Steps that change the repository, and not the record.                    *)

\* The branches a change set or a ticket goes on with.
InUse ==
    {Main} \cup {changeSet[c].source : c \in ChangeSetIds}
        \cup {Binding(t).branch : t \in {u \in DOMAIN ticket : Binding(u).kind = "gate"}}
Sparing(b) == \A n \in InUse : n \in DOMAIN branch' /\ (n # b => branch'[n] = branch[n])

LEMMA InUseIs ==
    ASSUME RunInv
    PROVE  /\ InUse \subseteq Names \cap DOMAIN branch
           /\ \A c \in ChangeSetIds : /\ c \in ChangeSetNames /\ changeSet[c].source \in InUse \ {Main}
                                      /\ changeSet[c].source \in DOMAIN branch
           /\ \A c, d \in ChangeSetIds : changeSet[c].source = changeSet[d].source => c = d
<1>1. \A c \in ChangeSetIds : c \in ChangeSetNames /\ changeSet[c].source \in OwnBranches(c)
  BY DEF RunInv, DomainTypes, Sources
<1>2. \A c \in ChangeSetIds : changeSet[c].source # Main /\ changeSet[c].source \in Names
  BY <1>1, OwnIsNotMain DEF Names
<1>3. \A c, d \in ChangeSetIds : changeSet[c].source = changeSet[d].source => c = d
  BY <1>1, OwnersApart
<1>4. \A t \in DOMAIN ticket : Binding(t).kind = "gate" =>
        Binding(t).branch \in DOMAIN branch \cap GateBranches
  BY DEF RunInv, Bound
<1>5. InUse \subseteq Names \cap DOMAIN branch
  BY <1>2, <1>4 DEF InUse, Names, RunInv, Sources, GitTypes
<1>6. \A c \in ChangeSetIds : changeSet[c].source \in InUse \ {Main}
  BY <1>2 DEF InUse
<1>7. \A c \in ChangeSetIds : changeSet[c].source \in DOMAIN branch
  BY DEF RunInv, Sources
<1> QED
  BY <1>1, <1>3, <1>5, <1>6, <1>7

\* The types, with the domain objects as they were.
LEMMA GitStepTypes ==
    ASSUME RunInv, UNCHANGED <<ticket, changeSet>>, GitTypes', NEW b, Sparing(b),
           gate' \in [DOMAIN changeSet -> TheGates], run' \in TheRuns, made' \in Nat
    PROVE  DomainTypes' /\ Sources' /\ Bound'
<1>1. DomainTypes'
  BY DEF RunInv, DomainTypes, ChangeSetIds
<1>2. Sources'
  <2>1. \A c \in ChangeSetIds : changeSet[c].source \in DOMAIN branch'
    BY InUseIs DEF Sparing
  <2> QED
    BY <2>1 DEF RunInv, Sources, ChangeSetIds
<1>3. Bound'
  <2>1. \A t \in DOMAIN ticket : Binding(t).kind = "gate" => Binding(t).branch \in DOMAIN branch'
    <3> SUFFICES ASSUME NEW t \in DOMAIN ticket, Binding(t).kind = "gate"
                 PROVE  Binding(t).branch \in DOMAIN branch'
      OBVIOUS
    <3>1. Binding(t).branch \in GateBranches
      BY DEF RunInv, Bound
    <3>2. Binding(t).branch \in InUse
      BY DEF InUse
    <3> QED
      BY <3>2 DEF Sparing
  <2> QED
    BY <2>1 DEF RunInv, Bound, Binding, ChangeSetIds
<1> QED
  BY <1>1, <1>2, <1>3

\* Branch b has grown, or nothing has changed of the branches in use.
LEMMA BranchGrows ==
    ASSUME RunInv, UNCHANGED <<ticket, changeSet, by>>, GitTypes', RunParts', Marked',
           run' \in TheRuns, made' \in Nat, gate' \in [DOMAIN changeSet -> TheGates],
           \A c \in ChangeSetIds : gate'[c].status = "passed" => Content(gate'[c].src) \subseteq accepted',
           NEW b, b = Main \/ \E c \in Unmerged : changeSet[c].source = b, Sparing(b),
           Content(branch[b]) \subseteq Content(branch'[b]),
           \A c \in Marks' \ Marks : Holds(c)', run'.at = "persist" => Holds(run.c)',
           b # Main => Unrecorded = {} /\ \A t \in OpenBugs : Binding(t).kind # "gate",
           accepted \subseteq accepted', left \subseteq left',
           cut \subseteq cut', skipped \subseteq skipped',
           run.at \in Preserving => run'.at \in Preserving,
           run'.at \in Preserving =>
               run'.base = IF run.at \in Preserving THEN run.base ELSE branch[Main],
           run'.at \in Preserving \/ Content(branch'[Main]) \subseteq accepted' \cup left',
           staged' \subseteq accepted' \cup left',
           tree'[Main] \subseteq accepted' \cup left'
                \cup (IF run'.at = "judge" /\ run'.b = Main THEN {run'.w} ELSE {}),
           run'.at = "verified" => run'.w \in accepted',
           \A c \in Owed : Awaited(c) => Awaited(c)' \/ c \in cut' \cup skipped',
           run'.at = "persist" => run'.c = run.c
    PROVE  RunInv'
<1>1. DomainTypes' /\ Sources' /\ Bound'
  BY GitStepTypes DEF RunInv, DomainTypes
<1>2. \A c \in ChangeSetIds : Content(branch[changeSet[c].source]) \subseteq Content(branch'[changeSet[c].source])
  BY InUseIs DEF Sparing
<1>3. Content(branch[Main]) \subseteq Content(branch'[Main])
  BY DEF Sparing, InUse
<1>4. Landing'
  <2>1. ASSUME NEW c \in ChangeSetIds, ~ Active(c) \/ c \in Marks
        PROVE  /\ Content(branch'[changeSet[c].source]) = Content(branch[changeSet[c].source])
               /\ Holds(c)
    <3>1. Holds(c)
      BY <2>1 DEF RunInv, Landing
    <3>2. changeSet[c].source # b
      BY <2>1, InUseIs DEF Unmerged, Unrecorded
    <3> QED
      BY <3>1, <3>2, InUseIs DEF Sparing
  <2>2. \A c \in ChangeSetIds : ~ Active(c) \/ c \in Marks =>
            Content(branch'[changeSet[c].source]) \subseteq Content(branch'[Main])
    BY <1>3, <2>1 DEF Holds
  <2>3. run'.at \in Preserving => \A c \in ChangeSetIds : ~ Active(c) =>
            Content(branch'[changeSet[c].source]) \subseteq Content(run'.base)
    BY <2>1 DEF RunInv, Landing, Holds
  <2>4. \A c \in ChangeSetIds : ~ Active(c) \/ c \in Marks' => Holds(c)'
    BY <2>2 DEF Holds
  <2> QED
    BY <2>3, <2>4 DEF Landing, Holds, Active, ChangeSetIds
<1>5. Clear'
  <2>1. Content(IF run'.at \in Preserving THEN run'.base ELSE branch'[Main]) \subseteq accepted' \cup left'
    BY DEF RunInv, Clear
  <2> QED
    BY <2>1 DEF Clear, ChangeSetIds
<1>6. Delivering'
  <2>1. NoWorkLost'
    BY <1>2, <1>3 DEF RunInv, Delivering, NoWorkLost, Unmerged, Active, ChangeSetIds
  <2>2. run'.at \in Preserving => \A t \in DOMAIN by :
            \/ by[t] \in Content(run'.base)
            \/ \E c \in Unmerged : by[t] \in Content(branch'[changeSet[c].source])
    BY <1>2 DEF RunInv, Delivering, NoWorkLost, Unmerged
  <2>3. ASSUME NEW t \in OpenBugs, Binding(t).kind = "gate", Follows(t)
        PROVE  /\ Binding(t).of \in ChangeSetIds
               /\ Content(branch'[changeSet[Binding(t).of].source]) \subseteq Content(branch'[Binding(t).branch])
    <3>1. b = Main
      BY <2>3
    <3>2. t \in DOMAIN ticket /\ Binding(t).of \in ChangeSetIds /\ Binding(t).branch \in GateBranches
      BY <2>3 DEF RunInv, Bound, OpenBugs, Undone
    <3>3. Binding(t).branch \in InUse /\ Binding(t).branch # Main
      BY <2>3, <3>2, NoneIsApart DEF InUse
    <3>4. branch'[Binding(t).branch] = branch[Binding(t).branch]
      BY <3>1, <3>3 DEF Sparing
    <3>5. branch'[changeSet[Binding(t).of].source] = branch[changeSet[Binding(t).of].source]
      BY <3>1, <3>2, InUseIs DEF Sparing
    <3>6. Content(branch[changeSet[Binding(t).of].source]) \subseteq Content(branch[Binding(t).branch])
      BY <2>3 DEF RunInv, Delivering
    <3> QED
      BY <3>2, <3>4, <3>5, <3>6
  <2> QED
    BY <2>1, <2>2, <2>3 DEF Delivering, OpenBugs, Undone, Follows, Binding, Unmerged, Active, ChangeSetIds
<1>7. InSight'
  <2>1. Together'
    BY DEF RunInv, InSight, Together, Unmerged, Active, Binding, ChangeSetIds
  <2>2. \A c \in Owed' : c \in Owed /\ c \notin cut' \cup skipped'
    BY DEF Owed, Unmerged, Active, ChangeSetIds
  <2>3. Undone' = Undone
    BY DEF Undone
  <2> QED
    BY <2>1, <2>2, <2>3 DEF RunInv, InSight
<1> QED
  BY <1>1, <1>4, <1>5, <1>6, <1>7 DEF RunInv, RunParts

\* The same, when no change set has landed.
LEMMA GitStepKeeps ==
    ASSUME RunInv, UNCHANGED <<ticket, changeSet, gate, by>>, GitTypes', RunParts',
           run' \in TheRuns, made' \in Nat,
           NEW b, b = Main \/ \E c \in Unmerged : changeSet[c].source = b, Sparing(b),
           Content(branch[b]) \subseteq Content(branch'[b]),
           MarksOf(branch'[Main]) = Marks,
           b # Main => Unrecorded = {} /\ \A t \in OpenBugs : Binding(t).kind # "gate",
           accepted \subseteq accepted', left \subseteq left',
           cut \subseteq cut', skipped \subseteq skipped',
           run'.at # "persist", run.at \in Preserving => run'.at \in Preserving,
           run'.at \in Preserving =>
               run'.base = IF run.at \in Preserving THEN run.base ELSE branch[Main],
           run'.at \in Preserving \/ Content(branch'[Main]) \subseteq accepted' \cup left',
           staged' \subseteq accepted' \cup left',
           tree'[Main] \subseteq accepted' \cup left'
                \cup (IF run'.at = "judge" /\ run'.b = Main THEN {run'.w} ELSE {}),
           run'.at = "verified" => run'.w \in accepted',
           \A c \in Unrecorded : Pending(c) => Pending(c)',
           \A c \in Owed : Awaited(c) => Awaited(c)' \/ c \in cut' \cup skipped'
    PROVE  RunInv'
<1>1. Marks' = Marks
  BY DEF Marks
<1>2. Marked'
  BY <1>1 DEF RunInv, Marked, Unrecorded, Active, ChangeSetIds
<1>3. \A c \in ChangeSetIds : gate[c].status = "passed" => Content(gate[c].src) \subseteq accepted'
  BY DEF RunInv, Clear
<1> QED
  BY <1>1, <1>2, <1>3, BranchGrows DEF RunInv, DomainTypes

\* What a candidate is taken back to.
LEMMA BaseIs ==
    ASSUME RunInv, run.at \in Preserving
    PROVE  /\ run.base \in Histories /\ MarksOf(run.base) = Marks
           /\ Content(run.base) \subseteq Content(branch[Main])
<1>1. /\ run.base \in Histories /\ branch[Main] = Append(run.base, Last(branch[Main]))
      /\ Last(branch[Main]).of = None
  BY DEF RunInv, ToRestore
<1>2. branch[Main] \in Histories
  BY DEF RunInv, GitTypes
<1>3. Last(branch[Main]) \in Commits
  <2>1. Len(branch[Main]) \in Nat \ {0} /\ branch[Main] \in Seq(Commits)
    BY <1>2 DEF Histories
  <2> QED
    BY <2>1 DEF Last
<1> DEFINE k == Last(branch[Main])
<1> HIDE DEF k
<1>4. k \in Commits /\ k.of = None /\ branch[Main] = Append(run.base, k)
  BY <1>1, <1>3 DEF k
<1>5. run.base \in Seq(Commits)
  BY <1>1 DEF Histories
<1>6. /\ MarksOf(Append(run.base, k)) = MarksOf(run.base) \cup ({k.of} \ {None})
      /\ Content(Append(run.base, k)) = Content(run.base) \cup k.adds
  BY <1>4, <1>5, Appended
<1> QED
  BY <1>1, <1>4, <1>6 DEF Marks

-----------------------------------------------------------------------------
(* A run that ends.                                                         *)

LEMMA IdleIs ==
    ASSUME RunInv, End
    PROVE  run' \in TheRuns /\ run'.at = "down" /\ run'.todo = {}
           /\ AtWork' /\ Placed' /\ ToRestore' /\ Integrating' /\ Candidates' /\ Judged'
<1>1. run' = [at |-> "down", t |-> None, c |-> None, caller |-> None, todo |-> {},
              base |-> <<>>, w |-> 0, b |-> None]
  BY DEF End, Idle
<1>2. run' \in TheRuns
  BY <1>1 DEF TheRuns, Labels
<1>3. AtWork' /\ Placed' /\ ToRestore' /\ Candidates' /\ Judged'
  BY <1>1 DEF AtWork, Placed, ToRestore, Candidates, Judged
<1>4. Integrating'
  BY <1>1 DEF Integrating
<1> QED
  BY <1>1, <1>2, <1>3, <1>4

LEMMA EndKeeps ==
    ASSUME RunInv, End, Cut, UNCHANGED <<ticket, changeSet, record>>, made' = made, GitTypes',
           Sparing(Main),
           branch'[Main] = branch[Main] \/ (run.at \in Preserving /\ branch'[Main] = run.base),
           gate' \in [DOMAIN changeSet -> TheGates],
           \A x \in ChangeSetIds : /\ gate'[x].src = gate[x].src /\ gate'[x].tgt = gate[x].tgt
                                   /\ gate'[x].status = "passed" => gate[x].status = "passed"
    PROVE  RunInv'
<1>1. DomainTypes' /\ Sources' /\ Bound'
  BY GitStepTypes, IdleIs DEF RunInv, DomainTypes
<1>2. MarksOf(branch'[Main]) = Marks
  BY BaseIs DEF Marks
<1>3. \A c \in ChangeSetIds : branch'[changeSet[c].source] = branch[changeSet[c].source]
  BY InUseIs DEF Sparing
<1>4. Marked'
  <2>1. Marks' = Marks /\ Unrecorded' = Unrecorded
    BY <1>2 DEF Marks, Unrecorded, Active
  <2>2. \A c \in ChangeSetIds : Pending(c)'
    BY IdleIs DEF Pending
  <2>3. \A x \in ChangeSetIds : gate'[x].tgt = gate[x].tgt
    OBVIOUS
  <2>4. Unrecorded \subseteq ChangeSetIds
    BY DEF RunInv, Marked, Unrecorded
  <2> QED
    BY <2>1, <2>2, <2>3, <2>4 DEF RunInv, Marked, ChangeSetIds
<1>5. Landing'
  <2>1. ASSUME NEW c \in ChangeSetIds, ~ Active(c) \/ c \in Marks
        PROVE  Content(branch[changeSet[c].source]) \subseteq Content(branch'[Main])
    <3>1. CASE branch'[Main] = branch[Main]
      BY <2>1, <3>1 DEF RunInv, Landing, Holds
    <3>2. CASE run.at \in Preserving /\ branch'[Main] = run.base
      <4>1. ~ Active(c)
        BY <2>1, <3>2 DEF RunInv, Marked, Unrecorded, Pending
      <4> QED
        BY <3>2, <4>1 DEF RunInv, Landing
    <3> QED
      BY <3>1, <3>2
  <2> QED
    BY <1>2, <1>3, <2>1, IdleIs DEF Landing, Holds, Marks, Active, ChangeSetIds
<1>6. Clear'
  <2>1. UNCHANGED accepted /\ tree'[Main] \cup staged' \cup Content(branch'[Main]) \subseteq accepted' \cup left'
    BY DEF Cut, Unaccepted, record
  <2>2. \A c \in ChangeSetIds : gate'[c].status = "passed" => Content(gate'[c].src) \subseteq accepted
    BY DEF RunInv, Clear
  <2> QED
    BY <2>1, <2>2, IdleIs DEF Clear, ChangeSetIds
<1>7. Delivering'
  <2>1. NoWorkLost'
    <3>1. CASE branch'[Main] = branch[Main]
      BY <1>3, <3>1 DEF RunInv, Delivering, NoWorkLost, Unmerged, Active, ChangeSetIds, record
    <3>2. CASE run.at \in Preserving /\ branch'[Main] = run.base
      BY <1>3, <3>2 DEF RunInv, Delivering, NoWorkLost, Unmerged, Active, ChangeSetIds, record
    <3> QED
      BY <3>1, <3>2
  <2>2. ASSUME NEW t \in OpenBugs, Binding(t).kind = "gate", Follows(t)
        PROVE  /\ Binding(t).of \in ChangeSetIds
               /\ Content(branch'[changeSet[Binding(t).of].source]) \subseteq Content(branch'[Binding(t).branch])
    <3>1. t \in DOMAIN ticket /\ Binding(t).of \in ChangeSetIds /\ Binding(t).branch \in GateBranches
      BY <2>2 DEF RunInv, Bound, OpenBugs, Undone
    <3>2. Binding(t).branch \in InUse /\ Binding(t).branch # Main
      BY <2>2, <3>1, NoneIsApart DEF InUse
    <3>3. branch'[Binding(t).branch] = branch[Binding(t).branch]
      BY <3>2 DEF Sparing
    <3>4. Content(branch[changeSet[Binding(t).of].source]) \subseteq Content(branch[Binding(t).branch])
      BY <2>2 DEF RunInv, Delivering
    <3> QED
      BY <1>3, <3>1, <3>3, <3>4
  <2> QED
    BY <2>1, <2>2, IdleIs DEF Delivering, OpenBugs, Undone, Follows, Binding, Unmerged, Active, ChangeSetIds
<1>8. InSight'
  <2>1. Together'
    BY DEF RunInv, InSight, Together, Unmerged, Active, Binding, ChangeSetIds
  <2>2. ASSUME NEW c \in Owed, Awaited(c), c \notin cut' PROVE Awaited(c)'
    <3>1. c \in ChangeSetIds /\ Active(c) /\ c \notin InHand
      BY <2>2 DEF Owed, Unmerged, Cut
    <3>2. (\E t \in OpenBugs : Binding(t).of = c) \/ changeSet[c].state = "gate-passed"
      BY <2>2, <3>1 DEF RunInv, Integrating, Awaited, InHand
    <3> QED
      BY <3>2, IdleIs DEF Awaited, OpenBugs, Undone, Binding
  <2>3. \A c \in Owed' : c \in Owed /\ c \notin cut'
    BY DEF Owed, Unmerged, Active, ChangeSetIds, Cut
  <2>4. Undone' = Undone
    BY DEF Undone
  <2> QED
    BY <2>2, <2>1, <2>3, <2>4 DEF RunInv, InSight
<1>9. OneBug'
  BY IdleIs DEF RunInv, OneBug, OpenBugs, Undone
<1> QED
  BY <1>1, <1>4, <1>5, <1>6, <1>7, <1>8, <1>9, IdleIs DEF RunInv

\* A run that is blocked leaves the branches as they are.
LEMMA BlockedKeeps ==
    ASSUME RunInv, Still, Blocked, made' = made
    PROVE  RunInv'
<1>1. /\ End /\ Cut /\ UNCHANGED <<ticket, changeSet, gate, record, branch, tree, staged>>
  BY DEF Blocked, Still, git, domain
<1>2. GitTypes'
  BY <1>1 DEF RunInv, GitTypes
<1>3. Sparing(Main)
  BY <1>1, InUseIs DEF Sparing
<1> QED
  BY <1>1, <1>2, <1>3, EndKeeps DEF RunInv, DomainTypes

LEMMA EndsKeep ==
    ASSUME RunInv, Crash \/ CannotStart \/ CleanUpFails \/ Deny \/ Refused \/ CannotReconcile
    PROVE  RunInv'
<1>1. Still /\ Blocked /\ made' = made
  BY DEF Crash, CannotStart, CleanUpFails, Deny, Refused, CannotReconcile, Still, Fault, counts, record
<1> QED
  BY <1>1, BlockedKeeps

LEMMA VerdictFailsOrBlocks ==
    ASSUME RunInv, VerdictFails, run.caller = "start"
    PROVE  RunInv'
<1>1. /\ End /\ Cut /\ UNCHANGED <<branch, tree, staged, ticket, changeSet, record>> /\ made' = made
      /\ gate' = [gate EXCEPT ![run.c].status = IF @ = "passed" THEN "stale" ELSE @]
  BY DEF VerdictFails, Blocked, git, counts
<1>2. GitTypes'
  BY <1>1 DEF RunInv, GitTypes
<1>3. Sparing(Main)
  BY <1>1, InUseIs DEF Sparing
<1>4. gate' \in [DOMAIN changeSet -> TheGates]
  <2>1. gate \in [DOMAIN changeSet -> TheGates]
    BY DEF RunInv, DomainTypes
  <2>2. /\ gate' = [gate EXCEPT ![run.c].status = gate'[run.c].status]
        /\ run.c \in DOMAIN gate => gate[run.c] \in TheGates /\ gate'[run.c].status \in {gate[run.c].status, "stale"}
    BY <1>1, <2>1 DEF TheGates
  <2>3. run.c \in DOMAIN gate => [gate[run.c] EXCEPT !.status = gate'[run.c].status] \in TheGates
    BY <2>2 DEF TheGates
  <2> HIDE DEF TheGates
  <2> QED
    BY <2>1, <2>2, <2>3
<1>5. \A x \in ChangeSetIds : /\ gate'[x].src = gate[x].src /\ gate'[x].tgt = gate[x].tgt
                              /\ gate'[x].status = "passed" => gate[x].status = "passed"
  BY <1>1 DEF RunInv, DomainTypes, TheGates, ChangeSetIds
<1> QED
  BY <1>1, <1>2, <1>3, <1>4, <1>5, EndKeeps

LEMMA CannotRunKeeps ==
    ASSUME RunInv, CannotRun
    PROVE  RunInv'
<1>1. /\ End /\ Cut /\ UNCHANGED <<staged, ticket, changeSet, record>> /\ made' = made /\ At("check")
      /\ gate' = [gate EXCEPT ![run.c].status = "infrastructure-failed"]
      /\ tree' = Without(run.b)
      /\ branch' = [n \in DOMAIN branch \ {run.b} |-> branch[n]]
  BY DEF CannotRun, Blocked, Fault
<1>2. run.b \in GateBranches /\ run.b \notin InUse /\ run.b # Main
  BY <1>1, NoneIsApart DEF RunInv, Candidates, InUse
<1>3. GitTypes'
  BY <1>1, <1>2, WithoutIs DEF RunInv
<1>4. Sparing(Main)
  BY <1>1, <1>2, InUseIs DEF Sparing
<1>5. gate' \in [DOMAIN changeSet -> TheGates]
  <2>1. run.c \in DOMAIN gate /\ gate \in [DOMAIN changeSet -> TheGates]
    BY <1>1 DEF RunInv, DomainTypes, Integrating, Unmerged, ChangeSetIds
  <2>2. gate'[run.c] \in TheGates
    BY <1>1, <2>1 DEF TheGates
  <2>3. gate' = [gate EXCEPT ![run.c] = gate'[run.c]]
    BY <1>1, <2>1
  <2> QED
    BY <2>1, <2>2, <2>3
<1>6. \A x \in ChangeSetIds : /\ gate'[x].src = gate[x].src /\ gate'[x].tgt = gate[x].tgt
                              /\ gate'[x].status = "passed" => gate[x].status = "passed"
  BY <1>1 DEF RunInv, DomainTypes, TheGates, ChangeSetIds
<1>7. branch'[Main] = branch[Main]
  BY <1>1, <1>2, NoneIsApart DEF RunInv, GitTypes
<1> QED
  BY <1>1, <1>3, <1>4, <1>5, <1>6, <1>7, EndKeeps

LEMMA CommitFailsKeeps ==
    ASSUME RunInv, CommitFails
    PROVE  RunInv'
<1>1. /\ End /\ Cut /\ UNCHANGED <<domain, record>> /\ made' = made /\ At("commit")
      /\ RevertTo(Main, TheGate.tgt)
  BY DEF CommitFails, Blocked, Fault
<1>2. TheGate.tgt = branch[Main] /\ Main \in DOMAIN branch /\ branch[Main] \in Histories
  BY <1>1 DEF RunInv, Judged, GitTypes
<1>3. GitTypes' /\ branch'[Main] = branch[Main] /\ Sparing(Main)
  BY <1>1, <1>2, RevertIs, InUseIs DEF Sparing, Beside, RunInv
<1> QED
  BY <1>1, <1>3, EndKeeps DEF domain, RunInv, DomainTypes

LEMMA CancelledKeeps ==
    ASSUME RunInv, Cancelled, Cut
    PROVE  RunInv'
<1>1. /\ End /\ UNCHANGED <<domain, record>> /\ made' = made /\ At("judge")
      /\ RevertTo(run.b, run.base)
  BY DEF Cancelled, Fault
<1>2. run.base = branch[run.b] /\ run.b \in DOMAIN branch /\ branch[run.b] \in Histories
  BY <1>1 DEF RunInv, AtWork, GitTypes
<1>3. GitTypes' /\ Beside(run.b) /\ branch'[run.b] = branch[run.b] /\ DOMAIN branch' = DOMAIN branch
  BY <1>1, <1>2, RevertIs DEF RunInv
<1>4. Sparing(Main) /\ branch'[Main] = branch[Main]
  BY <1>3, InUseIs DEF Sparing, Beside, RunInv, GitTypes
<1> QED
  BY <1>1, <1>3, <1>4, EndKeeps DEF domain, RunInv, DomainTypes

LEMMA InTheWayKeeps ==
    ASSUME RunInv, InTheWay, Cut
    PROVE  RunInv'
<1>1. /\ End /\ UNCHANGED <<domain, record>> /\ made' = made
      /\ IF At("preserve") THEN RevertTo(Main, run.base) ELSE UNCHANGED git
  BY DEF InTheWay, counts
<1>2. CASE At("preserve")
  <2>1. run.base \in Histories /\ Main \in DOMAIN branch
    BY <1>2, BaseIs DEF RunInv, GitTypes
  <2>2. GitTypes' /\ Beside(Main) /\ branch'[Main] = run.base /\ DOMAIN branch' = DOMAIN branch
    BY <1>1, <1>2, <2>1, RevertIs DEF RunInv
  <2>3. Sparing(Main)
    BY <2>2, InUseIs DEF Sparing, Beside
  <2> QED
    BY <1>1, <1>2, <2>2, <2>3, EndKeeps DEF domain, RunInv, DomainTypes
<1>3. CASE ~ At("preserve")
  <2>1. UNCHANGED <<branch, tree, staged>>
    BY <1>1, <1>3 DEF git
  <2>2. GitTypes' /\ Sparing(Main)
    BY <2>1, InUseIs DEF Sparing, RunInv, GitTypes
  <2> QED
    BY <1>1, <2>1, <2>2, EndKeeps DEF domain, RunInv, DomainTypes
<1> QED
  BY <1>2, <1>3

LEMMA LoseTreeKeeps ==
    ASSUME RunInv, LoseTree
    PROVE  RunInv'
<1>1. At("down") /\ UNCHANGED <<ticket, changeSet, gate, accepted, by, made, left, cut, skipped>> /\ UNCHANGED <<branch, staged>>
  BY DEF LoseTree, domain, record, counts, ends, Fails, Fault, git, Squash, vars
<1>2. run' = run
  BY DEF LoseTree
<1>3. PICK d \in Unmerged : tree' = Without(changeSet[d].source)
  BY DEF LoseTree
<1>4. changeSet[d].source # Main
  BY InUseIs DEF Unmerged
<1>5. GitTypes' /\ tree'[Main] = tree[Main]
  BY <1>1, <1>3, <1>4, WithoutIs DEF RunInv
<1>6. Sparing(Main) /\ MarksOf(branch'[Main]) = Marks
  BY <1>1, InUseIs DEF Sparing, Marks
<1>7. run' \in TheRuns
  BY <1>1, <1>2, <1>3, <1>4, <1>5, <1>6, RunIs DEF TheRuns, Labels
<1>8. AtWork'
  BY <1>1, <1>2, <1>3, <1>4, <1>5, <1>6, RunIs DEF RunInv, TheRuns, AtWork, Unmerged, Active, ChangeSetIds, Binding, Follows
<1>9. Placed'
  BY <1>1, <1>2, <1>3, <1>4, <1>5, <1>6, RunIs DEF RunInv, TheRuns, Placed, Unmerged, Active, Inherited, Lineage, IsCode, ChangeSetIds, Binding, Follows
<1>10. ToRestore'
  BY <1>1, <1>2, <1>3, <1>4, <1>5, <1>6, RunIs DEF RunInv, TheRuns, ToRestore, NewBranch, Generation, ChangeSetIds
<1>11. Integrating'
  BY <1>1, <1>2, <1>3, <1>4, <1>5, <1>6, RunIs DEF RunInv, TheRuns, Integrating, Unmerged, Active, ChangeSetIds
<1>12. Candidates'
  BY <1>1, <1>2, <1>3, <1>4, <1>5, <1>6, RunIs DEF RunInv, TheRuns, Candidates, Source, Binding, ChangeSetIds
<1>13. OneBug'
  BY <1>1, <1>2, <1>3, <1>4, <1>5, <1>6, RunIs DEF RunInv, TheRuns, OneBug, OpenBugs, Undone
<1>14. Judged'
  BY <1>1, <1>2, <1>3, <1>4, <1>5, <1>6, RunIs DEF RunInv, TheRuns, Judged, TheGate, Source
<1>15. \A c \in Unrecorded : Pending(c) => Pending(c)'
  BY <1>1, <1>2, <1>3, <1>4, <1>5, <1>6, RunIs DEF RunInv, TheRuns, Pending, Integrating
<1>16. \A c \in Owed : Awaited(c) => Awaited(c)'
  BY <1>1, <1>2, <1>3, <1>4, <1>5, <1>6, RunIs DEF RunInv, TheRuns, Awaited, OpenBugs, Undone, Binding, Integrating
<1>17. /\ run'.at \in Preserving \/ Content(branch'[Main]) \subseteq accepted' \cup left'
      /\ staged' \subseteq accepted' \cup left'
      /\ tree'[Main] \subseteq accepted' \cup left'
             \cup (IF run'.at = "judge" /\ run'.b = Main THEN {run'.w} ELSE {})
  BY <1>1, <1>2, <1>3, <1>4, <1>5, <1>6, RunIs DEF RunInv, TheRuns, Clear
<1> QED
  BY <1>1, <1>2, <1>3, <1>4, <1>5, <1>6, <1>7, <1>8, <1>9, <1>10, <1>11, <1>12, <1>13, <1>14, <1>15, <1>16, <1>17, RunIs, GitStepKeeps DEF RunParts, TheRuns

LEMMA ReleaseKeeps ==
    ASSUME RunInv, Release
    PROVE  RunInv'
<1>1. At("release") /\ UNCHANGED <<ticket, changeSet, gate, accepted, by, made, left, cut, skipped>> /\ UNCHANGED <<branch, staged>>
  BY DEF Release, domain, record, counts, ends, Fails, Fault, git, Squash, vars
<1>2. run' = [run EXCEPT !.at = Return(run.caller)]
  BY DEF Release
<1>3. run.c \in ChangeSetIds /\ Source # Main
  BY <1>1, InUseIs DEF RunInv, Integrating, Source
<1>4. GitTypes' /\ tree'[Main] = tree[Main]
  BY <1>1, <1>3, WithoutIs DEF RunInv, Release
<1>5. Sparing(Main) /\ MarksOf(branch'[Main]) = Marks
  BY <1>1, InUseIs DEF Sparing, Marks
<1>6. /\ run.caller = "ticket" => run'.at = "loop"
      /\ run.caller = "phase" => run'.at = "phase"
      /\ run.caller \in {"start", "reconcile"} => run'.at = "pending"
      /\ run.caller \in {"ticket", "phase", "start", "reconcile"}
  BY <1>1, <1>2, RunIs DEF Return, TheRuns, RunInv, Integrating
<1>7. run' \in TheRuns
  BY <1>1, <1>2, <1>3, <1>4, <1>5, <1>6, RunIs DEF TheRuns, Labels
<1>8. AtWork'
  BY <1>1, <1>2, <1>3, <1>4, <1>5, <1>6, RunIs DEF RunInv, TheRuns, AtWork, Unmerged, Active, ChangeSetIds, Binding, Follows
<1>9. Placed'
  BY <1>1, <1>2, <1>3, <1>4, <1>5, <1>6, RunIs DEF RunInv, TheRuns, Placed, Unmerged, Active, Inherited, Lineage, IsCode, ChangeSetIds, Binding, Follows
<1>10. ToRestore'
  BY <1>1, <1>2, <1>3, <1>4, <1>5, <1>6, RunIs DEF RunInv, TheRuns, ToRestore, NewBranch, Generation, ChangeSetIds
<1>11. Integrating'
  BY <1>1, <1>2, <1>3, <1>4, <1>5, <1>6, RunIs DEF RunInv, TheRuns, Integrating, Unmerged, Active, ChangeSetIds
<1>12. Candidates'
  BY <1>1, <1>2, <1>3, <1>4, <1>5, <1>6, RunIs DEF RunInv, TheRuns, Candidates, Source, Binding, ChangeSetIds
<1>13. OneBug'
  BY <1>1, <1>2, <1>3, <1>4, <1>5, <1>6, RunIs DEF RunInv, TheRuns, OneBug, OpenBugs, Undone
<1>14. Judged'
  BY <1>1, <1>2, <1>3, <1>4, <1>5, <1>6, RunIs DEF RunInv, TheRuns, Judged, TheGate, Source
<1>15. \A c \in Unrecorded : Pending(c) => Pending(c)'
  BY <1>1, <1>2, <1>3, <1>4, <1>5, <1>6, RunIs DEF RunInv, TheRuns, Pending, Integrating
<1>16. \A c \in Owed : Awaited(c) => Awaited(c)'
  BY <1>1, <1>2, <1>3, <1>4, <1>5, <1>6, RunIs DEF RunInv, TheRuns, Awaited, OpenBugs, Undone, Binding, Integrating, Owed, Unmerged
<1>17. /\ run'.at \in Preserving \/ Content(branch'[Main]) \subseteq accepted' \cup left'
      /\ staged' \subseteq accepted' \cup left'
      /\ tree'[Main] \subseteq accepted' \cup left'
             \cup (IF run'.at = "judge" /\ run'.b = Main THEN {run'.w} ELSE {})
  BY <1>1, <1>2, <1>3, <1>4, <1>5, <1>6, RunIs DEF RunInv, TheRuns, Clear
<1> QED
  BY <1>1, <1>2, <1>3, <1>4, <1>5, <1>6, <1>7, <1>8, <1>9, <1>10, <1>11, <1>12, <1>13, <1>14, <1>15, <1>16, <1>17, RunIs, GitStepKeeps DEF RunParts, TheRuns

LEMMA MergeSquashKeeps ==
    ASSUME RunInv, MergeSquash
    PROVE  RunInv'
<1>1. At("squash") /\ UNCHANGED <<ticket, changeSet, gate, accepted, by, made, left, cut, skipped>> /\ UNCHANGED <<branch, tree>>
  BY DEF MergeSquash, domain, record, counts, ends, Fails, Fault, git, Squash, vars
<1>2. run' = [run EXCEPT !.at = "commit"]
  BY DEF MergeSquash
<1>3. /\ branch[Main] = TheGate.tgt /\ staged' = Content(branch[Source]) \ Content(branch[Main])
      /\ Content(branch[Source]) \subseteq Nat
  <2>1. run.c \in ChangeSetIds
    BY <1>1 DEF RunInv, Integrating, Unmerged
  <2>2. branch[Source] \in Seq(Commits)
    BY <2>1, InUseIs DEF RunInv, GitTypes, Histories, Source
  <2> QED
    BY <2>2, Contents DEF MergeSquash, Refuses, Squash
<1>4. GitTypes' /\ Sparing(Main) /\ MarksOf(branch'[Main]) = Marks
  BY <1>1, <1>3, InUseIs DEF RunInv, GitTypes, Sparing, Marks
<1>5. staged' \subseteq accepted
  BY <1>1, <1>3 DEF RunInv, Clear, Judged, Integrating, Unmerged, TheGate
<1>6. run' \in TheRuns
  BY <1>1, <1>2, <1>3, <1>4, <1>5, RunIs DEF TheRuns, Labels
<1>7. AtWork'
  BY <1>1, <1>2, <1>3, <1>4, <1>5, RunIs DEF RunInv, TheRuns, AtWork, Unmerged, Active, ChangeSetIds, Binding, Follows
<1>8. Placed'
  BY <1>1, <1>2, <1>3, <1>4, <1>5, RunIs DEF RunInv, TheRuns, Placed, Unmerged, Active, Inherited, Lineage, IsCode, ChangeSetIds, Binding, Follows
<1>9. ToRestore'
  BY <1>1, <1>2, <1>3, <1>4, <1>5, RunIs DEF RunInv, TheRuns, ToRestore, NewBranch, Generation, ChangeSetIds
<1>10. Integrating'
  BY <1>1, <1>2, <1>3, <1>4, <1>5, RunIs DEF RunInv, TheRuns, Integrating, Unmerged, Active, ChangeSetIds
<1>11. Candidates'
  BY <1>1, <1>2, <1>3, <1>4, <1>5, RunIs DEF RunInv, TheRuns, Candidates, Source, Binding, ChangeSetIds
<1>12. OneBug'
  BY <1>1, <1>2, <1>3, <1>4, <1>5, RunIs DEF RunInv, TheRuns, OneBug, OpenBugs, Undone
<1>13. Judged'
  BY <1>1, <1>2, <1>3, <1>4, <1>5, RunIs DEF RunInv, TheRuns, Judged, TheGate, Source
<1>14. \A c \in Unrecorded : Pending(c) => Pending(c)'
  BY <1>1, <1>2, <1>3, <1>4, <1>5, RunIs DEF RunInv, TheRuns, Pending, Integrating
<1>15. \A c \in Owed : Awaited(c) => Awaited(c)'
  BY <1>1, <1>2, <1>3, <1>4, <1>5, RunIs DEF RunInv, TheRuns, Awaited, OpenBugs, Undone, Binding, Integrating
<1>16. /\ run'.at \in Preserving \/ Content(branch'[Main]) \subseteq accepted' \cup left'
      /\ staged' \subseteq accepted' \cup left'
      /\ tree'[Main] \subseteq accepted' \cup left'
             \cup (IF run'.at = "judge" /\ run'.b = Main THEN {run'.w} ELSE {})
  BY <1>1, <1>2, <1>3, <1>4, <1>5, RunIs DEF RunInv, TheRuns, Clear
<1> QED
  BY <1>1, <1>2, <1>3, <1>4, <1>5, <1>6, <1>7, <1>8, <1>9, <1>10, <1>11, <1>12, <1>13, <1>14, <1>15, <1>16, RunIs, GitStepKeeps DEF RunParts, TheRuns

LEMMA CleanUpKeeps ==
    ASSUME RunInv, CleanUp
    PROVE  RunInv'
<1>1. At("cleanup") /\ UNCHANGED <<ticket, changeSet, gate, accepted, by, made, left, cut, skipped>> /\ UNCHANGED <<staged>>
  BY DEF CleanUp, domain, record, counts, ends, Fails, Fault, git, Squash, vars
<1>2. run' = [run EXCEPT !.at = "passed", !.b = None]
  BY DEF CleanUp
<1>3. run.b \in GateBranches /\ run.b \notin InUse /\ run.b # Main
  BY <1>1, NoneIsApart DEF RunInv, Candidates, InUse
<1>4. branch' = [n \in DOMAIN branch \ {run.b} |-> branch[n]] /\ tree' = Without(run.b)
  BY DEF CleanUp
<1>5. GitTypes' /\ tree'[Main] = tree[Main] /\ branch'[Main] = branch[Main]
  BY <1>1, <1>3, <1>4, WithoutIs DEF RunInv
<1>6. Sparing(Main) /\ MarksOf(branch'[Main]) = Marks
  BY <1>3, <1>4, <1>5, InUseIs DEF Sparing, Marks
<1>7. run' \in TheRuns
  BY <1>1, <1>2, <1>3, <1>4, <1>5, <1>6, RunIs DEF TheRuns, Labels
<1>8. AtWork'
  BY <1>1, <1>2, <1>3, <1>4, <1>5, <1>6, RunIs DEF RunInv, TheRuns, AtWork, Unmerged, Active, ChangeSetIds, Binding, Follows
<1>9. Placed'
  BY <1>1, <1>2, <1>3, <1>4, <1>5, <1>6, RunIs DEF RunInv, TheRuns, Placed, Unmerged, Active, Inherited, Lineage, IsCode, ChangeSetIds, Binding, Follows
<1>10. ToRestore'
  BY <1>1, <1>2, <1>3, <1>4, <1>5, <1>6, RunIs DEF RunInv, TheRuns, ToRestore, NewBranch, Generation, ChangeSetIds
<1>11. Integrating'
  BY <1>1, <1>2, <1>3, <1>4, <1>5, <1>6, RunIs DEF RunInv, TheRuns, Integrating, Unmerged, Active, ChangeSetIds
<1>12. Candidates'
  BY <1>1, <1>2, <1>3, <1>4, <1>5, <1>6, RunIs DEF RunInv, TheRuns, Candidates, Source, Binding, ChangeSetIds
<1>13. OneBug'
  BY <1>1, <1>2, <1>3, <1>4, <1>5, <1>6, RunIs DEF RunInv, TheRuns, OneBug, OpenBugs, Undone
<1>14. Judged'
  BY <1>1, <1>2, <1>3, <1>4, <1>5, <1>6, RunIs DEF RunInv, TheRuns, Judged, TheGate, Source
<1>15. \A c \in Unrecorded : Pending(c) => Pending(c)'
  BY <1>1, <1>2, <1>3, <1>4, <1>5, <1>6, RunIs DEF RunInv, TheRuns, Pending, Integrating
<1>16. \A c \in Owed : Awaited(c) => Awaited(c)'
  BY <1>1, <1>2, <1>3, <1>4, <1>5, <1>6, RunIs DEF RunInv, TheRuns, Awaited, OpenBugs, Undone, Binding, Integrating
<1>17. /\ run'.at \in Preserving \/ Content(branch'[Main]) \subseteq accepted' \cup left'
      /\ staged' \subseteq accepted' \cup left'
      /\ tree'[Main] \subseteq accepted' \cup left'
             \cup (IF run'.at = "judge" /\ run'.b = Main THEN {run'.w} ELSE {})
  BY <1>1, <1>2, <1>3, <1>4, <1>5, <1>6, RunIs DEF RunInv, TheRuns, Clear
<1> QED
  BY <1>1, <1>2, <1>3, <1>4, <1>5, <1>6, <1>7, <1>8, <1>9, <1>10, <1>11, <1>12, <1>13, <1>14, <1>15, <1>16, <1>17, RunIs, GitStepKeeps DEF RunParts, TheRuns

LEMMA MakeCandidateKeeps ==
    ASSUME RunInv, MakeCandidate
    PROVE  RunInv'
<1>1. At("gate") /\ UNCHANGED <<ticket, changeSet, gate, accepted, by, made, left, cut, skipped>>
  BY DEF MakeCandidate, domain, record, counts, ends, Fails, Fault, git, Squash, vars
<1>2. run' = [run EXCEPT !.at = "gated", !.b = FreshGate(run.c), !.base = branch[Main]]
  BY DEF MakeCandidate
<1>3. run.c \in ChangeSetIds /\ Source \in DOMAIN branch /\ Source # Main
  BY <1>1, InUseIs DEF RunInv, Integrating, Unmerged, Source
<1>4. /\ FreshGate(run.c) \in GateBranches \ DOMAIN branch /\ FreshGate(run.c)[2] = run.c
      /\ FreshGate(run.c) \in Names \ {Main}
  BY <1>3, FreshGateIs, NoneIsApart, InUseIs DEF RunInv, Names
<1>5. /\ Candidate(branch[Main], branch[Source]) \in Histories
      /\ Content(Candidate(branch[Main], branch[Source])) = Content(branch[Main]) \cup Content(branch[Source])
  BY <1>3, CandidateIs DEF RunInv, GitTypes
<1>6. CheckOut(FreshGate(run.c), Candidate(branch[Main], branch[Source]))
  BY DEF MakeCandidate
<1>7. /\ GitTypes' /\ UNCHANGED staged /\ tree'[Main] = tree[Main] /\ branch'[Main] = branch[Main]
      /\ \A n \in DOMAIN branch : n \in DOMAIN branch' /\ branch'[n] = branch[n]
      /\ FreshGate(run.c) \in DOMAIN branch'
      /\ branch'[FreshGate(run.c)] = Candidate(branch[Main], branch[Source])
  BY <1>4, <1>5, <1>6, CheckOutIs DEF RunInv
<1>8. Sparing(Main) /\ MarksOf(branch'[Main]) = Marks /\ FreshGate(run.c) \notin InUse
  BY <1>4, <1>7, InUseIs DEF Sparing, Marks
<1>9. run' \in TheRuns
  BY <1>1, <1>2, <1>3, <1>4, <1>5, <1>6, <1>7, <1>8, RunIs DEF TheRuns, Labels, Names, RunInv, GitTypes, Histories
<1>10. AtWork'
  BY <1>1, <1>2, <1>3, <1>4, <1>5, <1>6, <1>7, <1>8, RunIs DEF RunInv, TheRuns, AtWork, Unmerged, Active, ChangeSetIds, Binding, Follows
<1>11. Placed'
  BY <1>1, <1>2, <1>3, <1>4, <1>5, <1>6, <1>7, <1>8, RunIs DEF RunInv, TheRuns, Placed, Unmerged, Active, Inherited, Lineage, IsCode, ChangeSetIds, Binding, Follows
<1>12. ToRestore'
  BY <1>1, <1>2, <1>3, <1>4, <1>5, <1>6, <1>7, <1>8, RunIs DEF RunInv, TheRuns, ToRestore, NewBranch, Generation, ChangeSetIds
<1>13. Integrating'
  BY <1>1, <1>2, <1>3, <1>4, <1>5, <1>6, <1>7, <1>8, RunIs DEF RunInv, TheRuns, Integrating, Unmerged, Active, ChangeSetIds
<1>14. Candidates'
  BY <1>1, <1>2, <1>3, <1>4, <1>5, <1>6, <1>7, <1>8, RunIs DEF RunInv, TheRuns, Candidates, Source, Binding, ChangeSetIds, InUse
<1>15. OneBug'
  BY <1>1, <1>2, <1>3, <1>4, <1>5, <1>6, <1>7, <1>8, RunIs DEF RunInv, TheRuns, OneBug, OpenBugs, Undone
<1>16. Judged'
  BY <1>1, <1>2, <1>3, <1>4, <1>5, <1>6, <1>7, <1>8, RunIs DEF RunInv, TheRuns, Judged, TheGate, Source
<1>17. \A c \in Unrecorded : Pending(c) => Pending(c)'
  BY <1>1, <1>2, <1>3, <1>4, <1>5, <1>6, <1>7, <1>8, RunIs DEF RunInv, TheRuns, Pending, Integrating
<1>18. \A c \in Owed : Awaited(c) => Awaited(c)'
  BY <1>1, <1>2, <1>3, <1>4, <1>5, <1>6, <1>7, <1>8, RunIs DEF RunInv, TheRuns, Awaited, OpenBugs, Undone, Binding, Integrating
<1>19. /\ run'.at \in Preserving \/ Content(branch'[Main]) \subseteq accepted' \cup left'
      /\ staged' \subseteq accepted' \cup left'
      /\ tree'[Main] \subseteq accepted' \cup left'
             \cup (IF run'.at = "judge" /\ run'.b = Main THEN {run'.w} ELSE {})
  BY <1>1, <1>2, <1>3, <1>4, <1>5, <1>6, <1>7, <1>8, RunIs DEF RunInv, TheRuns, Clear
<1> QED
  BY <1>1, <1>2, <1>3, <1>4, <1>5, <1>6, <1>7, <1>8, <1>9, <1>10, <1>11, <1>12, <1>13, <1>14, <1>15, <1>16, <1>17, <1>18, <1>19, RunIs, GitStepKeeps DEF RunParts, TheRuns

\* Whoever attempts has no change set to wait for, and has no gate's candidate before him.
LEMMA AttemptIs ==
    ASSUME RunInv, run.at \in Attempting
    PROVE  /\ Unrecorded = {} /\ \A t \in OpenBugs : Binding(t).kind # "gate"
           /\ run.b \in DOMAIN branch \cap DOMAIN tree
           /\ run.b = Main \/ \E c \in Unmerged : changeSet[c].source = run.b
<1>1. Unrecorded = {}
  BY DEF RunInv, Marked, Pending
<1>2. \A t \in OpenBugs : Binding(t).kind # "gate"
  BY DEF RunInv, OneBug, AtWork
<1> QED
  BY <1>1, <1>2 DEF RunInv, AtWork

LEMMA AddTreeKeeps ==
    ASSUME RunInv, AddTree, UNCHANGED ends
    PROVE  RunInv'
<1>1. UNCHANGED <<ticket, changeSet, gate, accepted, by, made, left, cut, skipped>>
  BY DEF AddTree, domain, record, counts, ends, Fails, Fault, git, Squash, vars
<1>2. /\ run' = [run EXCEPT !.at = IF At("preserve") THEN "preserved" ELSE "create"]
      /\ At("scope") \/ At("preserve")
      /\ At("scope") => IsCode(run.t) /\ ~ Follows(run.t) /\ Inherited(run.t) = {}
  BY DEF AddTree, Opens, OnCanonical
<1>3. RootFor(run.t) \in Tickets
  <2>1. Story(CodeStep) \in Tickets
    BY ProjectAssumption DEF Tickets
  <2>2. run.t \in Tickets
    BY <1>2 DEF RunInv, AtWork, DomainTypes
  <2> QED
    BY <2>1, <2>2 DEF RootFor
<1>4. NewBranch(RootFor(run.t)) \in Names \ {Main}
  BY <1>3, NewIdIs, NoneIsApart DEF RunInv, Names
<1>5. CheckOut(NewBranch(RootFor(run.t)), branch[Main]) /\ branch[Main] \in Histories
  BY DEF AddTree, RunInv, GitTypes
<1>6. /\ GitTypes' /\ UNCHANGED staged /\ tree'[Main] = tree[Main] /\ branch'[Main] = branch[Main]
      /\ \A n \in DOMAIN branch : n \in DOMAIN branch' /\ branch'[n] = branch[n]
      /\ NewBranch(RootFor(run.t)) \in DOMAIN branch' \cap DOMAIN tree'
  BY <1>4, <1>5, CheckOutIs DEF RunInv
<1>7. Sparing(Main) /\ MarksOf(branch'[Main]) = Marks
  BY <1>6, InUseIs DEF Sparing, Marks
<1>8. /\ run'.at = "create" => NewBranch(Story(CodeStep))' \in DOMAIN branch' \cap DOMAIN tree'
      /\ run'.at = "preserved" => NewBranch(run.t)' \in DOMAIN branch'
  <2>1. run'.t = run.t
    BY <1>2, RunIs DEF TheRuns
  <2>2. NewBranch(run.t)' = NewBranch(run.t) /\ NewBranch(Story(CodeStep))' = NewBranch(Story(CodeStep))
    BY <1>1, <2>1 DEF NewBranch, Generation, ChangeSetIds
  <2>3. RootFor(run.t) = IF At("preserve") THEN run.t ELSE Story(CodeStep)
    BY DEF RootFor
  <2>4. run'.at = IF At("preserve") THEN "preserved" ELSE "create"
    BY <1>2, RunIs DEF TheRuns
  <2> QED
    BY <1>6, <2>2, <2>3, <2>4
<1>9. run' \in TheRuns
  BY <1>1, <1>2, <1>3, <1>4, <1>5, <1>6, <1>7, <1>8, RunIs DEF TheRuns, Labels
<1>10. AtWork'
  BY <1>1, <1>2, <1>3, <1>4, <1>5, <1>6, <1>7, <1>8, RunIs DEF RunInv, TheRuns, AtWork, Unmerged, Active, ChangeSetIds, Binding, Follows
<1>11. Placed'
  BY <1>1, <1>2, <1>3, <1>4, <1>5, <1>6, <1>7, <1>8, RunIs DEF RunInv, TheRuns, Placed, Unmerged, Active, Inherited, Lineage, IsCode, ChangeSetIds, Binding, Follows
<1>12. ToRestore'
  BY <1>1, <1>2, <1>3, <1>4, <1>5, <1>6, <1>7, <1>8, RunIs DEF RunInv, TheRuns, ToRestore
<1>13. Integrating'
  BY <1>1, <1>2, <1>3, <1>4, <1>5, <1>6, <1>7, <1>8, RunIs DEF RunInv, TheRuns, Integrating, Unmerged, Active, ChangeSetIds
<1>14. Candidates'
  BY <1>1, <1>2, <1>3, <1>4, <1>5, <1>6, <1>7, <1>8, RunIs DEF RunInv, TheRuns, Candidates, Source, Binding, ChangeSetIds
<1>15. OneBug'
  BY <1>1, <1>2, <1>3, <1>4, <1>5, <1>6, <1>7, <1>8, RunIs DEF RunInv, TheRuns, OneBug, OpenBugs, Undone
<1>16. Judged'
  BY <1>1, <1>2, <1>3, <1>4, <1>5, <1>6, <1>7, <1>8, RunIs DEF RunInv, TheRuns, Judged, TheGate, Source
<1>17. \A c \in Unrecorded : Pending(c) => Pending(c)'
  BY <1>1, <1>2, <1>3, <1>4, <1>5, <1>6, <1>7, <1>8, RunIs DEF RunInv, TheRuns, Pending, Integrating
<1>18. \A c \in Owed : Awaited(c) => Awaited(c)'
  BY <1>1, <1>2, <1>3, <1>4, <1>5, <1>6, <1>7, <1>8, RunIs DEF RunInv, TheRuns, Awaited, OpenBugs, Undone, Binding, Integrating
<1>19. /\ run'.at \in Preserving \/ Content(branch'[Main]) \subseteq accepted' \cup left'
      /\ staged' \subseteq accepted' \cup left'
      /\ tree'[Main] \subseteq accepted' \cup left'
             \cup (IF run'.at = "judge" /\ run'.b = Main THEN {run'.w} ELSE {})
  BY <1>1, <1>2, <1>3, <1>4, <1>5, <1>6, <1>7, <1>8, RunIs DEF RunInv, TheRuns, Clear
<1> QED
  BY <1>1, <1>2, <1>3, <1>4, <1>5, <1>6, <1>7, <1>8, <1>9, <1>10, <1>11, <1>12, <1>13, <1>14, <1>15, <1>16, <1>17, <1>18, <1>19, RunIs, GitStepKeeps DEF RunParts, TheRuns

LEMMA DropOldTreeKeeps ==
    ASSUME RunInv, DropOldTree, UNCHANGED ends
    PROVE  RunInv'
<1>1. At("scope") /\ UNCHANGED <<ticket, changeSet, gate, accepted, by, made, left, cut, skipped>> /\ UNCHANGED <<branch, staged>>
  BY DEF DropOldTree, domain, record, counts, ends, Fails, Fault, git, Squash, vars
<1>2. run' = [run EXCEPT !.at = "promote"]
  BY DEF DropOldTree
<1>3. Follows(run.t) /\ Binding(run.t).kind = "gate"
  BY DEF DropOldTree
<1>4. /\ Binding(run.t).branch \in DOMAIN branch \ {Main}
      /\ Binding(run.t).of \in ChangeSetIds /\ changeSet[Binding(run.t).of].source # Main
  BY <1>1, <1>3, InUseIs, NoneIsApart DEF RunInv, AtWork, Bound
<1>5. /\ tree' \in [DOMAIN tree' -> SUBSET Nat] /\ Main \in DOMAIN tree' /\ tree'[Main] = tree[Main]
      /\ Binding(run.t).branch \in DOMAIN tree'
  <2> DEFINE old == changeSet[Binding(run.t).of].source
             new == Binding(run.t).branch
  <2>1. /\ Present(new) \in [DOMAIN Present(new) -> SUBSET Nat] /\ new \in DOMAIN Present(new)
        /\ DOMAIN Present(new) = DOMAIN tree \cup {new} /\ Present(new)[Main] = tree[Main]
    BY <1>4 DEF Present, With, RunInv, GitTypes
  <2>2. CASE old = new
    BY <2>1, <2>2 DEF DropOldTree, RunInv, GitTypes
  <2>3. CASE old # new
    <3>1. tree' = [n \in (DOMAIN tree \cup {new}) \ {old} |-> Present(new)[n]]
      BY <2>3 DEF DropOldTree
    <3> HIDE DEF old, new
    <3> QED
      BY <1>4, <2>1, <2>3, <3>1 DEF RunInv, GitTypes, old, new
  <2> QED
    BY <2>2, <2>3
<1>6. GitTypes'
  BY <1>1, <1>5 DEF RunInv, GitTypes
<1>7. Sparing(Main) /\ MarksOf(branch'[Main]) = Marks
  BY <1>1, InUseIs DEF Sparing, Marks
<1>8. run' \in TheRuns
  BY <1>1, <1>2, <1>3, <1>4, <1>5, <1>6, <1>7, RunIs DEF TheRuns, Labels
<1>9. AtWork'
  BY <1>1, <1>2, <1>3, <1>4, <1>5, <1>6, <1>7, RunIs DEF RunInv, TheRuns, AtWork, Unmerged, Active, ChangeSetIds, Binding, Follows
<1>10. Placed'
  BY <1>1, <1>2, <1>3, <1>4, <1>5, <1>6, <1>7, RunIs DEF RunInv, TheRuns, Placed, Unmerged, Active, Inherited, Lineage, IsCode, ChangeSetIds, Binding, Follows
<1>11. ToRestore'
  BY <1>1, <1>2, <1>3, <1>4, <1>5, <1>6, <1>7, RunIs DEF RunInv, TheRuns, ToRestore, NewBranch, Generation, ChangeSetIds
<1>12. Integrating'
  BY <1>1, <1>2, <1>3, <1>4, <1>5, <1>6, <1>7, RunIs DEF RunInv, TheRuns, Integrating, Unmerged, Active, ChangeSetIds
<1>13. Candidates'
  BY <1>1, <1>2, <1>3, <1>4, <1>5, <1>6, <1>7, RunIs DEF RunInv, TheRuns, Candidates, Source, Binding, ChangeSetIds
<1>14. OneBug'
  BY <1>1, <1>2, <1>3, <1>4, <1>5, <1>6, <1>7, RunIs DEF RunInv, TheRuns, OneBug, OpenBugs, Undone
<1>15. Judged'
  BY <1>1, <1>2, <1>3, <1>4, <1>5, <1>6, <1>7, RunIs DEF RunInv, TheRuns, Judged, TheGate, Source
<1>16. \A c \in Unrecorded : Pending(c) => Pending(c)'
  BY <1>1, <1>2, <1>3, <1>4, <1>5, <1>6, <1>7, RunIs DEF RunInv, TheRuns, Pending, Integrating
<1>17. \A c \in Owed : Awaited(c) => Awaited(c)'
  BY <1>1, <1>2, <1>3, <1>4, <1>5, <1>6, <1>7, RunIs DEF RunInv, TheRuns, Awaited, OpenBugs, Undone, Binding, Integrating
<1>18. /\ run'.at \in Preserving \/ Content(branch'[Main]) \subseteq accepted' \cup left'
      /\ staged' \subseteq accepted' \cup left'
      /\ tree'[Main] \subseteq accepted' \cup left'
             \cup (IF run'.at = "judge" /\ run'.b = Main THEN {run'.w} ELSE {})
  BY <1>1, <1>2, <1>3, <1>4, <1>5, <1>6, <1>7, RunIs DEF RunInv, TheRuns, Clear
<1> QED
  BY <1>1, <1>2, <1>3, <1>4, <1>5, <1>6, <1>7, <1>8, <1>9, <1>10, <1>11, <1>12, <1>13, <1>14, <1>15, <1>16, <1>17, <1>18, RunIs, GitStepKeeps DEF RunParts, TheRuns

LEMMA ExecuteKeeps ==
    ASSUME RunInv, Execute, UNCHANGED ends
    PROVE  RunInv'
<1>1. At("execute") /\ UNCHANGED <<ticket, changeSet, gate, accepted, by, left, cut, skipped>> /\ UNCHANGED <<branch, staged>>
  BY DEF Execute, domain, record, counts, ends, Fails, Fault, git, Squash, vars
<1>2. /\ run' = [run EXCEPT !.at = "judge", !.w = made'] /\ made' = made + 1
      /\ tree' = [tree EXCEPT ![run.b] = @ \cup {made'}]
  BY DEF Execute
<1>3. GitTypes' /\ run.b \in DOMAIN tree /\ made' \in Nat
  <2>1. made' \in Nat
    BY <1>2, RunIs
  <2> QED
    BY <1>1, <1>2, <2>1, AttemptIs DEF RunInv, GitTypes
<1>4. Sparing(Main) /\ MarksOf(branch'[Main]) = Marks
  BY <1>1, InUseIs DEF Sparing, Marks
<1>5. run'.at = "judge"
  BY <1>2, RunIs DEF TheRuns
<1>6. run' \in TheRuns
  BY <1>2, <1>3, RunIs DEF TheRuns, Labels
<1>7. AtWork'
  BY <1>1, <1>2, <1>3, <1>4, <1>5, RunIs DEF RunInv, TheRuns, AtWork, Unmerged, Active, ChangeSetIds, Binding, Follows
<1>8. Placed'
  BY <1>1, <1>2, <1>3, <1>4, <1>5, RunIs DEF RunInv, TheRuns, Placed, Unmerged, Active, Inherited, Lineage, IsCode, ChangeSetIds, Binding, Follows
<1>9. ToRestore'
  BY <1>1, <1>2, <1>3, <1>4, <1>5, RunIs DEF RunInv, TheRuns, ToRestore, NewBranch, Generation, ChangeSetIds
<1>10. Integrating'
  BY <1>1, <1>2, <1>3, <1>4, <1>5, RunIs DEF RunInv, TheRuns, Integrating, Unmerged, Active, ChangeSetIds
<1>11. Candidates'
  BY <1>1, <1>2, <1>3, <1>4, <1>5, RunIs DEF RunInv, TheRuns, Candidates, Source, Binding, ChangeSetIds
<1>12. OneBug'
  BY <1>1, <1>2, <1>3, <1>4, <1>5, RunIs DEF RunInv, TheRuns, OneBug, OpenBugs, Undone
<1>13. Judged'
  BY <1>1, <1>2, <1>3, <1>4, <1>5, RunIs DEF RunInv, TheRuns, Judged, TheGate, Source
<1>14. \A c \in Unrecorded : Pending(c) => Pending(c)'
  BY <1>1, <1>2, <1>3, <1>4, <1>5, RunIs DEF RunInv, TheRuns, Pending, Integrating
<1>15. \A c \in Owed : Awaited(c) => Awaited(c)'
  BY <1>1, <1>2, <1>3, <1>4, <1>5, RunIs DEF RunInv, TheRuns, Awaited, OpenBugs, Undone, Binding, Integrating
<1>16. /\ run'.at \in Preserving \/ Content(branch'[Main]) \subseteq accepted' \cup left'
      /\ staged' \subseteq accepted' \cup left'
      /\ tree'[Main] \subseteq accepted' \cup left'
             \cup (IF run'.at = "judge" /\ run'.b = Main THEN {run'.w} ELSE {})
  BY <1>1, <1>2, <1>3, <1>4, <1>5, RunIs DEF RunInv, TheRuns, Clear, GitTypes
<1> QED
  BY <1>1, <1>3, <1>4, <1>5, <1>6, <1>7, <1>8, <1>9, <1>10, <1>11, <1>12, <1>13, <1>14, <1>15, <1>16, RunIs, GitStepKeeps DEF RunParts, TheRuns

LEMMA RollBackKeeps ==
    ASSUME RunInv, RollBack, UNCHANGED ends
    PROVE  RunInv'
<1>1. At("judge") /\ UNCHANGED <<ticket, changeSet, gate, accepted, by, made, left, cut, skipped>>
  BY DEF RollBack, domain, record, counts, ends, Fails, Fault, git, Squash, vars
<1>2. run' = [run EXCEPT !.at = "loop"]
  BY DEF RollBack
<1>3. run.base = branch[run.b] /\ run.b \in DOMAIN branch /\ branch[run.b] \in Histories
  BY <1>1 DEF RunInv, AtWork, GitTypes
<1>4. /\ GitTypes' /\ Beside(run.b) /\ branch'[run.b] = branch[run.b] /\ DOMAIN branch' = DOMAIN branch
      /\ run.b \in DOMAIN tree => tree'[run.b] = {}
      /\ \A n \in DOMAIN tree \ {run.b} : tree'[n] = tree[n]
      /\ staged' = IF run.b = Main THEN {} ELSE staged
  BY <1>3, RevertIs DEF RunInv, RollBack
<1>5. Sparing(Main) /\ MarksOf(branch'[Main]) = Marks /\ branch'[Main] = branch[Main]
  BY <1>4, InUseIs DEF Sparing, Marks, Beside, RunInv, GitTypes
<1>6. run' \in TheRuns
  BY <1>1, <1>2, <1>3, <1>4, <1>5, RunIs DEF TheRuns, Labels
<1>7. AtWork'
  BY <1>1, <1>2, <1>3, <1>4, <1>5, RunIs DEF RunInv, TheRuns, AtWork, Unmerged, Active, ChangeSetIds, Binding, Follows
<1>8. Placed'
  BY <1>1, <1>2, <1>3, <1>4, <1>5, RunIs DEF RunInv, TheRuns, Placed, Unmerged, Active, Inherited, Lineage, IsCode, ChangeSetIds, Binding, Follows
<1>9. ToRestore'
  BY <1>1, <1>2, <1>3, <1>4, <1>5, RunIs DEF RunInv, TheRuns, ToRestore, NewBranch, Generation, ChangeSetIds
<1>10. Integrating'
  BY <1>1, <1>2, <1>3, <1>4, <1>5, RunIs DEF RunInv, TheRuns, Integrating, Unmerged, Active, ChangeSetIds
<1>11. Candidates'
  BY <1>1, <1>2, <1>3, <1>4, <1>5, RunIs DEF RunInv, TheRuns, Candidates, Source, Binding, ChangeSetIds
<1>12. OneBug'
  BY <1>1, <1>2, <1>3, <1>4, <1>5, RunIs DEF RunInv, TheRuns, OneBug, OpenBugs, Undone
<1>13. Judged'
  BY <1>1, <1>2, <1>3, <1>4, <1>5, RunIs DEF RunInv, TheRuns, Judged, TheGate, Source
<1>14. \A c \in Unrecorded : Pending(c) => Pending(c)'
  BY <1>1, <1>2, <1>3, <1>4, <1>5, RunIs DEF RunInv, TheRuns, Pending, Integrating
<1>15. \A c \in Owed : Awaited(c) => Awaited(c)'
  BY <1>1, <1>2, <1>3, <1>4, <1>5, RunIs DEF RunInv, TheRuns, Awaited, OpenBugs, Undone, Binding, Integrating
<1>16. /\ run'.at \in Preserving \/ Content(branch'[Main]) \subseteq accepted' \cup left'
      /\ staged' \subseteq accepted' \cup left'
      /\ tree'[Main] \subseteq accepted' \cup left'
             \cup (IF run'.at = "judge" /\ run'.b = Main THEN {run'.w} ELSE {})
  BY <1>1, <1>2, <1>3, <1>4, <1>5, RunIs DEF RunInv, TheRuns, Clear, GitTypes, AtWork
<1> QED
  BY <1>1, <1>2, <1>3, <1>4, <1>5, <1>6, <1>7, <1>8, <1>9, <1>10, <1>11, <1>12, <1>13, <1>14, <1>15, <1>16, RunIs, GitStepKeeps DEF RunParts, TheRuns

LEMMA UserCommitKeeps ==
    ASSUME RunInv, UserCommit
    PROVE  RunInv'
<1>1. run.at \in {"down", "check", "authorize"} /\ UNCHANGED <<tree, staged, ticket, changeSet, gate, by, left, cut, skipped>>
  BY DEF UserCommit, domain, record, counts, ends, Fails, Fault, git, Squash, vars
<1>2. /\ run' = run /\ made' = made + 1 /\ accepted' = accepted \cup {made'} /\ staged = {}
      /\ branch' = [branch EXCEPT ![Main] = Append(@, Commit({made'}, None))]
  BY DEF UserCommit
<1>3. /\ made' \in Nat /\ Commit({made'}, None) \in Commits /\ Commit({made'}, None).adds = {made'}
      /\ Commit({made'}, None).of = None
  <2>1. made' \in Nat
    BY <1>2, RunIs
  <2> QED
    BY <2>1, CommitIs
<1>4. /\ Main \in DOMAIN branch /\ branch'[Main] = Append(branch[Main], Commit({made'}, None))
      /\ branch[Main] \in Seq(Commits)
  BY <1>2 DEF RunInv, GitTypes, Histories
<1>5. /\ branch'[Main] \in Histories /\ MarksOf(branch'[Main]) = Marks
      /\ Content(branch'[Main]) = Content(branch[Main]) \cup {made'}
  <2>1. /\ MarksOf(branch'[Main]) = Marks \cup ({None} \ {None})
        /\ branch'[Main] \in Histories
        /\ Content(branch'[Main]) = Content(branch[Main]) \cup {made'}
    BY <1>3, <1>4, Appended DEF Marks
  <2> QED
    BY <2>1
<1>6. GitTypes'
  BY <1>1, <1>2, <1>5 DEF RunInv, GitTypes
<1>7. Sparing(Main) /\ \A n \in DOMAIN branch \ {Main} : branch'[n] = branch[n]
  BY <1>2, InUseIs DEF Sparing
<1>8. /\ run.at \in {"check", "authorize"} => Source \in DOMAIN branch \ {Main}
      /\ At("check") => run.b \in DOMAIN branch \ {Main}
  BY InUseIs, NoneIsApart DEF RunInv, Integrating, Unmerged, Candidates, Source
<1>9. /\ made' \in Nat /\ accepted \subseteq accepted' /\ Content(branch[Main]) \subseteq Content(branch'[Main])
      /\ run'.at \notin Preserving \cup {"persist", "verified"} /\ run.at \notin Preserving
  BY <1>1, <1>2, <1>3, <1>5
<1>10. run' \in TheRuns
  BY <1>1, <1>2, <1>3, <1>4, <1>5, <1>6, <1>7, <1>8, <1>9, RunIs DEF TheRuns, Labels
<1>11. AtWork'
  BY <1>1, <1>2, <1>3, <1>4, <1>5, <1>6, <1>7, <1>8, <1>9, RunIs DEF RunInv, TheRuns, AtWork, Unmerged, Active, ChangeSetIds, Binding, Follows
<1>12. Placed'
  BY <1>1, <1>2, <1>3, <1>4, <1>5, <1>6, <1>7, <1>8, <1>9, RunIs DEF RunInv, TheRuns, Placed, Unmerged, Active, Inherited, Lineage, IsCode, ChangeSetIds, Binding, Follows
<1>13. ToRestore'
  BY <1>1, <1>2, <1>3, <1>4, <1>5, <1>6, <1>7, <1>8, <1>9, RunIs DEF RunInv, TheRuns, ToRestore, NewBranch, Generation, ChangeSetIds
<1>14. Integrating'
  BY <1>1, <1>2, <1>3, <1>4, <1>5, <1>6, <1>7, <1>8, <1>9, RunIs DEF RunInv, TheRuns, Integrating, Unmerged, Active, ChangeSetIds
<1>15. Candidates'
  BY <1>1, <1>2, <1>3, <1>4, <1>5, <1>6, <1>7, <1>8, <1>9, RunIs DEF RunInv, TheRuns, Candidates, Source, Binding, ChangeSetIds, NoneIsApart
<1>16. OneBug'
  BY <1>1, <1>2, <1>3, <1>4, <1>5, <1>6, <1>7, <1>8, <1>9, RunIs DEF RunInv, TheRuns, OneBug, OpenBugs, Undone
<1>17. Judged'
  BY <1>1, <1>2, <1>3, <1>4, <1>5, <1>6, <1>7, <1>8, <1>9, RunIs DEF RunInv, TheRuns, Judged, TheGate, Source
<1>18. \A c \in Unrecorded : Pending(c) => Pending(c)'
  BY <1>1, <1>2, <1>3, <1>4, <1>5, <1>6, <1>7, <1>8, <1>9, RunIs DEF RunInv, TheRuns, Pending, Integrating
<1>19. \A c \in Owed : Awaited(c) => Awaited(c)'
  BY <1>1, <1>2, <1>3, <1>4, <1>5, <1>6, <1>7, <1>8, <1>9, RunIs DEF RunInv, TheRuns, Awaited, OpenBugs, Undone, Binding, Integrating
<1>20. /\ run'.at \in Preserving \/ Content(branch'[Main]) \subseteq accepted' \cup left'
      /\ staged' \subseteq accepted' \cup left'
      /\ tree'[Main] \subseteq accepted' \cup left'
             \cup (IF run'.at = "judge" /\ run'.b = Main THEN {run'.w} ELSE {})
  BY <1>1, <1>2, <1>3, <1>4, <1>5, <1>6, <1>7, <1>8, <1>9, RunIs DEF RunInv, TheRuns, Clear
<1> QED
  BY <1>1, <1>5, <1>6, <1>7, <1>9, <1>10, <1>11, <1>12, <1>13, <1>14, <1>15, <1>16, <1>17, <1>18, <1>19, <1>20, RunIs, GitStepKeeps DEF RunParts, TheRuns

LEMMA BaselineKeeps ==
    ASSUME RunInv, Baseline, UNCHANGED ends
    PROVE  RunInv'
<1>1. At("baseline") /\ UNCHANGED <<ticket, changeSet, gate, by, left, cut, skipped>> /\ UNCHANGED <<accepted, made>>
  BY DEF Baseline, domain, record, counts, ends, Fails, Fault, git, Squash, vars
<1>2. /\ run' = [run EXCEPT !.at = "execute", !.base = branch'[run.b]]
      /\ IF Clean(run.b) THEN UNCHANGED <<branch, tree, staged>> ELSE Snapshot(run.b)
  BY DEF Baseline, git
<1>3. /\ run.b \in DOMAIN branch \cap DOMAIN tree /\ (run.b = Main \/ \E c \in Unmerged : changeSet[c].source = run.b)
      /\ Unrecorded = {} /\ \A t \in OpenBugs : Binding(t).kind # "gate"
  BY <1>1, AttemptIs
<1>4. /\ GitTypes' /\ Beside(run.b) /\ DOMAIN branch' = DOMAIN branch /\ DOMAIN tree' = DOMAIN tree
      /\ Content(branch[run.b]) \subseteq Content(branch'[run.b])
      /\ Content(branch'[run.b]) \subseteq Content(branch[run.b]) \cup tree[run.b] \cup (IF run.b = Main THEN staged ELSE {})
      /\ MarksOf(branch'[run.b]) = MarksOf(branch[run.b])
      /\ tree'[run.b] = {} /\ \A n \in DOMAIN tree \ {run.b} : tree'[n] = tree[n]
      /\ staged' = IF run.b = Main THEN {} ELSE staged
  <2>1. CASE Clean(run.b)
    BY <1>2, <1>3, <2>1 DEF Clean, RunInv, GitTypes, Beside
  <2>2. CASE ~ Clean(run.b)
    BY <1>2, <1>3, <2>2, SnapshotIs DEF RunInv
  <2> QED
    BY <2>1, <2>2
<1>5. branch'[run.b] \in Seq(Commits)
  BY <1>3, <1>4 DEF GitTypes, Histories
<1>6. Sparing(run.b) /\ MarksOf(branch'[Main]) = Marks
  BY <1>3, <1>4, InUseIs DEF Sparing, Marks, Beside, RunInv, GitTypes
<1>7. run'.at = "execute" /\ made' \in Nat
  BY <1>1, <1>2, RunIs DEF TheRuns
<1>8. run' \in TheRuns
  BY <1>2, <1>5, RunIs DEF TheRuns, Labels
<1>9. AtWork'
  BY <1>1, <1>2, <1>3, <1>4, <1>5, <1>6, <1>7, RunIs DEF RunInv, TheRuns, AtWork, Unmerged, Active, ChangeSetIds, Binding, Follows
<1>10. Placed'
  BY <1>1, <1>2, <1>3, <1>4, <1>5, <1>6, <1>7, RunIs DEF RunInv, TheRuns, Placed, Unmerged, Active, Inherited, Lineage, IsCode, ChangeSetIds, Binding, Follows
<1>11. ToRestore'
  BY <1>1, <1>2, <1>3, <1>4, <1>5, <1>6, <1>7, RunIs DEF RunInv, TheRuns, ToRestore, NewBranch, Generation, ChangeSetIds
<1>12. Integrating'
  BY <1>1, <1>2, <1>3, <1>4, <1>5, <1>6, <1>7, RunIs DEF RunInv, TheRuns, Integrating, Unmerged, Active, ChangeSetIds
<1>13. Candidates'
  BY <1>1, <1>2, <1>3, <1>4, <1>5, <1>6, <1>7, RunIs DEF RunInv, TheRuns, Candidates, Source, Binding, ChangeSetIds
<1>14. OneBug'
  BY <1>1, <1>2, <1>3, <1>4, <1>5, <1>6, <1>7, RunIs DEF RunInv, TheRuns, OneBug, OpenBugs, Undone
<1>15. Judged'
  BY <1>1, <1>2, <1>3, <1>4, <1>5, <1>6, <1>7, RunIs DEF RunInv, TheRuns, Judged, TheGate, Source
<1>16. \A c \in Unrecorded : Pending(c) => Pending(c)'
  BY <1>1, <1>2, <1>3, <1>4, <1>5, <1>6, <1>7, RunIs DEF RunInv, TheRuns, Pending, Integrating
<1>17. \A c \in Owed : Awaited(c) => Awaited(c)'
  BY <1>1, <1>2, <1>3, <1>4, <1>5, <1>6, <1>7, RunIs DEF RunInv, TheRuns, Awaited, OpenBugs, Undone, Binding, Integrating
<1>18. /\ run'.at \in Preserving \/ Content(branch'[Main]) \subseteq accepted' \cup left'
      /\ staged' \subseteq accepted' \cup left'
      /\ tree'[Main] \subseteq accepted' \cup left'
             \cup (IF run'.at = "judge" /\ run'.b = Main THEN {run'.w} ELSE {})
  <2>1. /\ staged \subseteq accepted \cup left /\ Content(branch[Main]) \subseteq accepted \cup left
        /\ tree[Main] \subseteq accepted \cup left \cup (IF At("judge") /\ run.b = Main THEN {run.w} ELSE {})
    BY <1>1 DEF RunInv, Clear
  <2>2. CASE run.b = Main
    BY <1>1, <1>3, <1>4, <1>7, <2>1, <2>2
  <2>3. CASE run.b # Main
    <3>1. branch'[Main] = branch[Main] /\ tree'[Main] = tree[Main] /\ staged' = staged
      BY <1>1, <1>3, <1>4, <1>7, <2>3 DEF Beside, RunInv, GitTypes
    <3> QED
      BY <1>1, <1>3, <1>4, <1>7, <2>1, <2>3, <3>1
  <2> QED
    BY <2>2, <2>3
<1> QED
  BY <1>1, <1>3, <1>4, <1>6, <1>7, <1>8, <1>9, <1>10, <1>11, <1>12, <1>13, <1>14, <1>15, <1>16, <1>17, <1>18, RunIs, GitStepKeeps DEF RunParts, TheRuns

LEMMA VerifiedKeeps ==
    ASSUME RunInv, Verified, UNCHANGED ends
    PROVE  RunInv'
<1>1. At("judge") /\ UNCHANGED <<ticket, changeSet, gate, by, left, cut, skipped>> /\ UNCHANGED made
  BY DEF Verified, domain, record, counts, ends, Fails, Fault, git, Squash, vars
<1>2. /\ run' = [run EXCEPT !.at = "verified"]
      /\ accepted' = accepted \cup {run.w}
  BY DEF Verified
<1>3. /\ run.b \in DOMAIN branch \cap DOMAIN tree /\ (run.b = Main \/ \E c \in Unmerged : changeSet[c].source = run.b)
      /\ Unrecorded = {} /\ \A t \in OpenBugs : Binding(t).kind # "gate"
      /\ run.w \in tree[run.b]
  BY <1>1, AttemptIs DEF RunInv, AtWork
<1>4. /\ GitTypes' /\ Beside(run.b) /\ DOMAIN branch' = DOMAIN branch /\ DOMAIN tree' = DOMAIN tree
      /\ Content(branch'[run.b]) = Content(branch[run.b]) \cup tree[run.b] \cup (IF run.b = Main THEN staged ELSE {})
      /\ MarksOf(branch'[run.b]) = MarksOf(branch[run.b])
      /\ tree'[run.b] = {} /\ \A n \in DOMAIN tree \ {run.b} : tree'[n] = tree[n]
      /\ staged' = IF run.b = Main THEN {} ELSE staged
  BY <1>3, SnapshotIs DEF RunInv, Verified
<1>5. Sparing(run.b) /\ MarksOf(branch'[Main]) = Marks
  BY <1>3, <1>4, InUseIs DEF Sparing, Marks, Beside, RunInv, GitTypes
<1>6. run'.at = "verified" /\ made' \in Nat /\ run'.w = run.w
  BY <1>1, <1>2, RunIs DEF TheRuns
<1>7. run' \in TheRuns
  BY <1>2, RunIs DEF TheRuns, Labels
<1>8. AtWork'
  BY <1>1, <1>2, <1>3, <1>4, <1>5, <1>6, RunIs DEF RunInv, TheRuns, AtWork, Unmerged, Active, ChangeSetIds, Binding, Follows
<1>9. Placed'
  BY <1>1, <1>2, <1>3, <1>4, <1>5, <1>6, RunIs DEF RunInv, TheRuns, Placed, Unmerged, Active, Inherited, Lineage, IsCode, ChangeSetIds, Binding, Follows
<1>10. ToRestore'
  BY <1>1, <1>2, <1>3, <1>4, <1>5, <1>6, RunIs DEF RunInv, TheRuns, ToRestore, NewBranch, Generation, ChangeSetIds
<1>11. Integrating'
  BY <1>1, <1>2, <1>3, <1>4, <1>5, <1>6, RunIs DEF RunInv, TheRuns, Integrating, Unmerged, Active, ChangeSetIds
<1>12. Candidates'
  BY <1>1, <1>2, <1>3, <1>4, <1>5, <1>6, RunIs DEF RunInv, TheRuns, Candidates, Source, Binding, ChangeSetIds
<1>13. OneBug'
  BY <1>1, <1>2, <1>3, <1>4, <1>5, <1>6, RunIs DEF RunInv, TheRuns, OneBug, OpenBugs, Undone
<1>14. Judged'
  BY <1>1, <1>2, <1>3, <1>4, <1>5, <1>6, RunIs DEF RunInv, TheRuns, Judged, TheGate, Source
<1>15. \A c \in Unrecorded : Pending(c) => Pending(c)'
  BY <1>1, <1>2, <1>3, <1>4, <1>5, <1>6, RunIs DEF RunInv, TheRuns, Pending, Integrating
<1>16. \A c \in Owed : Awaited(c) => Awaited(c)'
  BY <1>1, <1>2, <1>3, <1>4, <1>5, <1>6, RunIs DEF RunInv, TheRuns, Awaited, OpenBugs, Undone, Binding, Integrating
<1>17. /\ run'.at \in Preserving \/ Content(branch'[Main]) \subseteq accepted' \cup left'
      /\ staged' \subseteq accepted' \cup left'
      /\ tree'[Main] \subseteq accepted' \cup left'
             \cup (IF run'.at = "judge" /\ run'.b = Main THEN {run'.w} ELSE {})
  <2>1. /\ staged \subseteq accepted \cup left /\ Content(branch[Main]) \subseteq accepted \cup left
        /\ tree[Main] \subseteq accepted \cup left \cup (IF At("judge") /\ run.b = Main THEN {run.w} ELSE {})
    BY <1>1 DEF RunInv, Clear
  <2>2. CASE run.b = Main
    BY <1>1, <1>2, <1>3, <1>4, <1>6, <2>1, <2>2
  <2>3. CASE run.b # Main
    <3>1. branch'[Main] = branch[Main] /\ tree'[Main] = tree[Main] /\ staged' = staged
      BY <1>1, <1>2, <1>3, <1>4, <1>6, <2>3 DEF Beside, RunInv, GitTypes
    <3> QED
      BY <1>1, <1>2, <1>3, <1>4, <1>6, <2>1, <2>3, <3>1
  <2> QED
    BY <2>2, <2>3
<1> QED
  BY <1>1, <1>2, <1>3, <1>4, <1>5, <1>6, <1>7, <1>8, <1>9, <1>10, <1>11, <1>12, <1>13, <1>14, <1>15, <1>16, <1>17, RunIs, GitStepKeeps DEF RunParts, TheRuns

LEMMA RejectKeeps ==
    ASSUME RunInv, Reject, UNCHANGED ends
    PROVE  RunInv'
<1>1. At("judge") /\ UNCHANGED <<ticket, changeSet, gate, by, left, cut, skipped>> /\ UNCHANGED <<accepted, made>>
  BY DEF Reject, domain, record, counts, ends, Fails, Fault, git, Squash, vars
<1>2. run' = [run EXCEPT !.at = IF run.b = Main THEN "preserve" ELSE "route"]
  BY DEF Reject
<1>3. /\ run.b \in DOMAIN branch \cap DOMAIN tree /\ (run.b = Main \/ \E c \in Unmerged : changeSet[c].source = run.b)
      /\ Unrecorded = {} /\ \A t \in OpenBugs : Binding(t).kind # "gate"
      /\ run.base = branch[run.b]
  BY <1>1, AttemptIs DEF RunInv, AtWork
<1>4. PICK all \in SUBSET Nat : branch'[run.b] = Append(branch[run.b], Commit(all, None))
  BY <1>3, SnapshotIs DEF RunInv, Reject
<1>5. /\ GitTypes' /\ Beside(run.b) /\ DOMAIN branch' = DOMAIN branch /\ DOMAIN tree' = DOMAIN tree
      /\ Content(branch'[run.b]) = Content(branch[run.b]) \cup tree[run.b] \cup (IF run.b = Main THEN staged ELSE {})
      /\ MarksOf(branch'[run.b]) = MarksOf(branch[run.b])
      /\ tree'[run.b] = {} /\ \A n \in DOMAIN tree \ {run.b} : tree'[n] = tree[n]
      /\ staged' = IF run.b = Main THEN {} ELSE staged
  BY <1>3, SnapshotIs DEF RunInv, Reject
<1>6. Sparing(run.b) /\ MarksOf(branch'[Main]) = Marks
  BY <1>3, <1>5, InUseIs DEF Sparing, Marks, Beside, RunInv, GitTypes
<1>7. run'.at = (IF run.b = Main THEN "preserve" ELSE "route") /\ run'.b = run.b /\ run'.base = run.base
  BY <1>1, <1>2, RunIs DEF TheRuns
<1>8. run.b = Main => Last(branch'[Main]).of = None /\ branch[Main] \in Histories
                      /\ branch'[Main] = Append(branch[Main], Last(branch'[Main]))
  <2>1. Commit(all, None) \in Commits /\ Commit(all, None).of = None
    BY <1>4, CommitIs
  <2>2. branch[Main] \in Histories /\ branch[Main] \in Seq(Commits)
    BY DEF RunInv, GitTypes, Histories
  <2>3. Last(Append(branch[Main], Commit(all, None))) = Commit(all, None)
    BY <2>1, <2>2, Appended
  <2> QED
    BY <1>4, <2>1, <2>2, <2>3
<1>9. run' \in TheRuns
  BY <1>2, RunIs DEF TheRuns, Labels
<1>10. AtWork'
  BY <1>1, <1>2, <1>3, <1>4, <1>5, <1>6, <1>7, <1>8, RunIs DEF RunInv, TheRuns, AtWork, Unmerged, Active, ChangeSetIds, Binding, Follows
<1>11. Placed'
  BY <1>1, <1>2, <1>3, <1>4, <1>5, <1>6, <1>7, <1>8, RunIs DEF RunInv, TheRuns, Placed, Unmerged, Active, Inherited, Lineage, IsCode, ChangeSetIds, Binding, Follows
<1>12. ToRestore'
  BY <1>1, <1>2, <1>3, <1>4, <1>5, <1>6, <1>7, <1>8, RunIs DEF RunInv, TheRuns, ToRestore, NewBranch, Generation, ChangeSetIds
<1>13. Integrating'
  BY <1>1, <1>2, <1>3, <1>4, <1>5, <1>6, <1>7, <1>8, RunIs DEF RunInv, TheRuns, Integrating, Unmerged, Active, ChangeSetIds
<1>14. Candidates'
  BY <1>1, <1>2, <1>3, <1>4, <1>5, <1>6, <1>7, <1>8, RunIs DEF RunInv, TheRuns, Candidates, Source, Binding, ChangeSetIds
<1>15. OneBug'
  BY <1>1, <1>2, <1>3, <1>4, <1>5, <1>6, <1>7, <1>8, RunIs DEF RunInv, TheRuns, OneBug, OpenBugs, Undone
<1>16. Judged'
  BY <1>1, <1>2, <1>3, <1>4, <1>5, <1>6, <1>7, <1>8, RunIs DEF RunInv, TheRuns, Judged, TheGate, Source
<1>17. \A c \in Unrecorded : Pending(c) => Pending(c)'
  BY <1>1, <1>2, <1>3, <1>4, <1>5, <1>6, <1>7, <1>8, RunIs DEF RunInv, TheRuns, Pending, Integrating
<1>18. \A c \in Owed : Awaited(c) => Awaited(c)'
  BY <1>1, <1>2, <1>3, <1>4, <1>5, <1>6, <1>7, <1>8, RunIs DEF RunInv, TheRuns, Awaited, OpenBugs, Undone, Binding, Integrating
<1>19. /\ run'.at \in Preserving \/ Content(branch'[Main]) \subseteq accepted' \cup left'
      /\ staged' \subseteq accepted' \cup left'
      /\ tree'[Main] \subseteq accepted' \cup left'
             \cup (IF run'.at = "judge" /\ run'.b = Main THEN {run'.w} ELSE {})
  <2>1. /\ staged \subseteq accepted \cup left /\ Content(branch[Main]) \subseteq accepted \cup left
        /\ tree[Main] \subseteq accepted \cup left \cup (IF At("judge") /\ run.b = Main THEN {run.w} ELSE {})
    BY <1>1 DEF RunInv, Clear
  <2>2. CASE run.b = Main
    BY <1>1, <1>3, <1>5, <1>7, <2>1, <2>2
  <2>3. CASE run.b # Main
    <3>1. branch'[Main] = branch[Main] /\ tree'[Main] = tree[Main] /\ staged' = staged
      BY <1>1, <1>3, <1>5, <1>7, <2>3 DEF Beside, RunInv, GitTypes
    <3> QED
      BY <1>1, <1>3, <1>5, <1>7, <2>1, <2>3, <3>1
  <2> QED
    BY <2>2, <2>3
<1> QED
  BY <1>1, <1>3, <1>5, <1>6, <1>7, <1>9, <1>10, <1>11, <1>12, <1>13, <1>14, <1>15, <1>16, <1>17, <1>18, <1>19, RunIs, GitStepKeeps DEF RunParts, TheRuns

LEMMA RestoreKeeps ==
    ASSUME RunInv, Restore \/ CannotPreserve, UNCHANGED ends
    PROVE  RunInv'
<1>1. /\ run.at \in {"restore", "preserve"}
      /\ UNCHANGED <<ticket, changeSet, gate, accepted, by, made, left, cut, skipped>>
  BY DEF Restore, CannotPreserve, domain, record, counts, ends
<1>2. run' = [run EXCEPT !.at = "route"]
  BY DEF Restore, CannotPreserve
<1>3. /\ run.base \in Histories /\ MarksOf(run.base) = Marks /\ Main \in DOMAIN branch
      /\ tree[Main] = {} /\ staged = {} /\ Unrecorded = {}
  BY <1>1, BaseIs DEF RunInv, GitTypes, ToRestore, Marked, Pending
<1>4. /\ GitTypes' /\ Beside(Main) /\ branch'[Main] = run.base /\ DOMAIN branch' = DOMAIN branch
      /\ tree'[Main] = {} /\ staged' = {}
  BY <1>1, <1>3, RevertIs DEF RunInv, Restore, CannotPreserve, GitTypes
<1>5. Sparing(Main)
  BY <1>4, InUseIs DEF Sparing, Beside
<1>6. run' \in TheRuns /\ run'.at = "route" /\ made' \in Nat
  BY <1>1, <1>2, RunIs DEF TheRuns, Labels
<1>7. DomainTypes' /\ Sources' /\ Bound'
  BY <1>1, <1>4, <1>5, <1>6, GitStepTypes DEF RunInv, DomainTypes
<1>8. AtWork'
  BY <1>1, <1>2, RunIs DEF RunInv, TheRuns, AtWork, Unmerged, Active, ChangeSetIds, Binding, Follows
<1>9. Placed' /\ ToRestore' /\ Candidates' /\ Judged'
  BY <1>1, <1>2, RunIs DEF RunInv, TheRuns, Placed, ToRestore, Candidates, Judged
<1>10. Integrating'
  BY <1>1, <1>2, RunIs DEF RunInv, TheRuns, Integrating, Unmerged, Active, ChangeSetIds
<1>11. OneBug'
  BY <1>1, <1>2, RunIs DEF RunInv, TheRuns, OneBug, OpenBugs, Undone
<1>12. \A c \in ChangeSetIds : branch'[changeSet[c].source] = branch[changeSet[c].source]
  BY <1>5, InUseIs DEF Sparing
<1>13. Marked'
  <2>1. Marks' = Marks /\ Unrecorded' = {}
    BY <1>1, <1>3, <1>4 DEF Marks, Unrecorded, Active
  <2> QED
    BY <1>1, <2>1 DEF RunInv, Marked, ChangeSetIds
<1>14. Landing'
  <2>1. \A c \in ChangeSetIds : ~ Active(c) \/ c \in Marks => ~ Active(c)
    BY <1>3 DEF Unrecorded
  <2>2. \A c \in ChangeSetIds : ~ Active(c) => Content(branch'[changeSet[c].source]) \subseteq Content(branch'[Main])
    BY <1>1, <1>4, <1>12 DEF RunInv, Landing
  <2>3. Marks' = Marks
    BY <1>3, <1>4 DEF Marks
  <2> QED
    BY <1>1, <1>6, <2>1, <2>2, <2>3 DEF Landing, Holds, Active, ChangeSetIds
<1>15. Clear'
  BY <1>1, <1>4, <1>6 DEF RunInv, Clear, ChangeSetIds
<1>16. Delivering'
  <2>1. NoWorkLost'
    BY <1>1, <1>4, <1>12 DEF RunInv, Delivering, NoWorkLost, Unmerged, Active, ChangeSetIds
  <2>2. \A t \in OpenBugs : Binding(t).kind # "gate"
    BY <1>1 DEF RunInv, OneBug, AtWork
  <2> QED
    BY <1>1, <1>6, <2>1, <2>2 DEF Delivering, OpenBugs, Undone, Binding
<1>17. InSight'
  <2>1. Together'
    BY <1>1 DEF RunInv, InSight, Together, Unmerged, Active, Binding, ChangeSetIds
  <2>2. \A c \in Owed : Awaited(c) => Awaited(c)'
    BY <1>1, <1>2, RunIs DEF RunInv, TheRuns, Awaited, OpenBugs, Undone, Binding
  <2>3. Owed' = Owed /\ Undone' = Undone
    BY <1>1 DEF Owed, Undone, Unmerged, Active, ChangeSetIds
  <2> QED
    BY <2>1, <2>2, <2>3 DEF RunInv, InSight
<1> QED
  BY <1>4, <1>7, <1>8, <1>9, <1>10, <1>11, <1>13, <1>14, <1>15, <1>16, <1>17 DEF RunInv

\* The squash is committed, and the next run will find it if this one does not record it.
LEMMA CommitMergeKeeps ==
    ASSUME RunInv, CommitMerge
    PROVE  RunInv'
<1>1. At("commit") /\ UNCHANGED <<ticket, changeSet, gate, accepted, by, made, left, cut, skipped>>
  BY DEF CommitMerge, domain, record, counts, ends
<1>2. run' = [run EXCEPT !.at = "persist"] /\ CommitSquash(run.c)
  BY DEF CommitMerge
<1>3. /\ run.c \in Unmerged /\ run.c \in ChangeSetNames /\ changeSet[run.c].state = "gate-passed"
      /\ Unrecorded = {} /\ staged = Content(branch[Source]) \ Content(branch[Main])
      /\ Main \in DOMAIN branch /\ branch[Main] \in Histories /\ staged \in SUBSET Nat
  BY <1>1, InUseIs DEF RunInv, Integrating, Marked, Pending, Judged, GitTypes, Unmerged
<1>4. run.c \notin Marks
  BY <1>3 DEF Unrecorded, Unmerged
<1>5. /\ branch'[Main] \in Histories /\ Content(branch'[Main]) = Content(branch[Main]) \cup staged
      /\ DOMAIN branch' = DOMAIN branch /\ \A n \in DOMAIN branch \ {Main} : branch'[n] = branch[n]
      /\ Marks \subseteq MarksOf(branch'[Main]) /\ MarksOf(branch'[Main]) \subseteq Marks \cup {run.c}
  <2>1. CASE staged = {}
    BY <1>2, <1>3, <2>1 DEF CommitSquash, Marks
  <2>2. CASE staged # {}
    <3>1. branch' = [branch EXCEPT ![Main] = Append(@, Commit(staged, run.c))]
      BY <1>2, <2>2 DEF CommitSquash
    <3>2. /\ Commit(staged, run.c) \in Commits /\ Commit(staged, run.c).adds = staged
          /\ Commit(staged, run.c).of = run.c
      BY <1>3, CommitIs
    <3>3. branch[Main] \in Seq(Commits)
      BY <1>3 DEF Histories
    <3>4. branch'[Main] = Append(branch[Main], Commit(staged, run.c))
      BY <1>3, <3>1
    <3>5. /\ branch'[Main] \in Histories /\ Content(branch'[Main]) = Content(branch[Main]) \cup staged
          /\ MarksOf(branch'[Main]) = Marks \cup ({run.c} \ {None})
      BY <3>2, <3>3, <3>4, Appended DEF Marks
    <3> QED
      BY <3>1, <3>5
  <2> QED
    BY <2>1, <2>2
<1>6. GitTypes' /\ staged' = {} /\ tree' = tree
  <2>1. staged' = {} /\ tree' = tree
    BY <1>2 DEF CommitSquash
  <2>2. branch' \in [DOMAIN branch' -> Histories]
    <3>1. CASE staged = {}
      BY <1>2, <3>1 DEF CommitSquash, RunInv, GitTypes
    <3>2. CASE staged # {}
      <4>1. branch' = [branch EXCEPT ![Main] = Append(@, Commit(staged, run.c))]
        BY <1>2, <3>2 DEF CommitSquash
      <4> QED
        BY <1>3, <1>5, <4>1 DEF RunInv, GitTypes
    <3> QED
      BY <3>1, <3>2
  <2> QED
    BY <1>5, <2>1, <2>2 DEF RunInv, GitTypes
<1>7. Sparing(Main)
  BY <1>5, InUseIs DEF Sparing
<1>8. /\ run' \in TheRuns /\ run'.at = "persist" /\ run'.c = run.c /\ run'.t = run.t
      /\ run'.caller = run.caller /\ run'.todo = run.todo
  BY <1>1, <1>2, RunIs DEF TheRuns, Labels
<1>9. Holds(run.c)'
  <2>1. Source # Main /\ Source \in DOMAIN branch
    BY <1>3, InUseIs DEF Unmerged, Source
  <2>2. branch'[changeSet'[run'.c].source] = branch[Source]
    BY <1>1, <1>5, <1>8, <2>1 DEF Source
  <2>3. Content(branch[Source]) \subseteq Content(branch'[Main])
    BY <1>3, <1>5
  <2> QED
    BY <1>8, <2>2, <2>3 DEF Holds
<1>10. Marked'
  <2>1. Marks' \subseteq Marks \cup {run.c} /\ Marks \subseteq Marks'
    BY <1>5 DEF Marks
  <2>2. Unrecorded' \subseteq {run.c}
    BY <1>1, <1>3, <2>1 DEF Unrecorded, Active
  <2>3. \A c : c = run.c => Pending(c)'
    BY <1>8 DEF Pending
  <2>4. \A x \in ChangeSetIds : MarksOf(gate[x].tgt) \subseteq Marks
    BY DEF RunInv, Marked
  <2>5. Marks \subseteq ChangeSetIds /\ run.c \in ChangeSetIds
    BY <1>3 DEF RunInv, Marked, Unmerged
  <2>6. ASSUME NEW c \in Unrecorded'
        PROVE  /\ \A x \in ChangeSetIds : c \notin MarksOf(gate'[x].tgt)
               /\ changeSet'[c].state = "gate-passed" /\ Pending(c)'
    <3>1. c = run.c
      BY <2>2
    <3> QED
      BY <1>1, <1>3, <1>4, <2>3, <2>4, <3>1
  <2>7. Marks' \subseteq ChangeSetIds /\ \A x \in ChangeSetIds : MarksOf(gate'[x].tgt) \subseteq Marks'
    BY <1>1, <2>1, <2>4, <2>5
  <2> QED
    BY <1>1, <2>6, <2>7 DEF Marked, ChangeSetIds
<1>11. AtWork' /\ Placed' /\ ToRestore' /\ Candidates' /\ Judged'
  BY <1>8 DEF AtWork, Placed, ToRestore, Candidates, Judged
<1>12. Integrating'
  BY <1>1, <1>8 DEF RunInv, Integrating, Unmerged, Active, ChangeSetIds
<1>13. OneBug'
  BY <1>1, <1>8 DEF RunInv, OneBug, OpenBugs, Undone
<1>14. \A c \in Owed : Awaited(c) => Awaited(c)'
  BY <1>1, <1>8 DEF RunInv, Awaited, OpenBugs, Undone, Binding
<1>15. /\ Content(branch'[Main]) \subseteq accepted' \cup left' /\ staged' \subseteq accepted' \cup left'
       /\ tree'[Main] \subseteq accepted' \cup left'
  BY <1>1, <1>5, <1>6 DEF RunInv, Clear
<1>16. \A c \in Marks' \ Marks : Holds(c)'
  <2>1. \A c \in Marks' \ Marks : c = run'.c
    BY <1>5, <1>8 DEF Marks
  <2>2. Content(branch'[changeSet'[run'.c].source]) \subseteq Content(branch'[Main])
    BY <1>9 DEF Holds
  <2> QED
    BY <2>1, <2>2 DEF Holds
<1>17. \A c \in ChangeSetIds : gate'[c].status = "passed" => Content(gate'[c].src) \subseteq accepted'
  BY <1>1 DEF RunInv, Clear
<1>18. gate' \in [DOMAIN changeSet -> TheGates] /\ made' \in Nat
  BY <1>1, RunIs DEF RunInv, DomainTypes
<1> QED
  BY <1>1, <1>5, <1>6, <1>7, <1>8, <1>9, <1>10, <1>11, <1>12, <1>13, <1>14, <1>15, <1>16, <1>17, <1>18,
     BranchGrows DEF RunParts

LEMMA ReleaseFailsKeeps ==
    ASSUME RunInv, ReleaseFails
    PROVE  RunInv'
<1>1. At("release") /\ Still /\ made' = made /\ UNCHANGED <<left, cut>>
  BY DEF ReleaseFails, Still, Fault, counts
<1>2. /\ run' = [run EXCEPT !.at = Return(run.caller),
                            !.todo = IF run.caller # "reconcile" THEN {} ELSE run.todo]
      /\ skipped' = IF run.caller # "reconcile" THEN skipped \cup run.todo ELSE skipped
  BY DEF ReleaseFails
<1>3. /\ run.caller = "ticket" => Return(run.caller) = "loop"
      /\ run.caller = "phase" => Return(run.caller) = "phase"
      /\ run.caller \in {"start", "reconcile"} => Return(run.caller) = "pending"
      /\ run.caller \in {"ticket", "phase", "start", "reconcile"}
  BY <1>1, RunIs DEF Return, TheRuns, RunInv, Integrating
<1>4. Return(run.caller) \in {"loop", "phase", "pending"}
  BY <1>3
<1>5. run' \in TheRuns
  <2>1. (IF run.caller # "reconcile" THEN {} ELSE run.todo) \in SUBSET ChangeSetNames
    BY RunIs DEF TheRuns
  <2>2. Return(run.caller) \in Labels
    BY <1>4 DEF Labels
  <2> QED
    BY <1>2, <2>1, <2>2, RunIs DEF TheRuns
<1>6. /\ run'.at = Return(run.caller) /\ run'.caller = run.caller
      /\ run'.todo = (IF run.caller # "reconcile" THEN {} ELSE run.todo)
  BY <1>2, RunIs DEF TheRuns
<1>7. AtWork' /\ Placed' /\ ToRestore' /\ Candidates' /\ Judged'
  BY <1>4, <1>6 DEF AtWork, Placed, ToRestore, Candidates, Judged
<1>8. Integrating'
  BY <1>1, <1>3, <1>6 DEF RunInv, Integrating, Still, domain, Unmerged, Active, ChangeSetIds
<1>9. OneBug'
  BY <1>1, <1>3, <1>6 DEF RunInv, Still, domain, OneBug, OpenBugs, Undone
<1>10. \A c \in Unrecorded : Pending(c) => Pending(c)'
  BY <1>1, <1>3, <1>6 DEF Pending
<1>11. \A c \in Owed : Awaited(c) => Awaited(c)' \/ c \in cut' \cup skipped'
  <2> SUFFICES ASSUME NEW c \in Owed, Awaited(c) PROVE Awaited(c)' \/ c \in skipped'
    OBVIOUS
  <2>1. c # run.c
    BY <1>1 DEF RunInv, Integrating, Owed, Unmerged
  <2> QED
    BY <1>1, <1>2, <1>3, <1>6, <2>1 DEF Still, domain, Awaited, OpenBugs, Undone, Binding
<1>12. run'.at \notin Preserving \cup {"judge", "verified", "persist"}
  BY <1>4, <1>6
<1>13. skipped \subseteq skipped'
  BY <1>2
<1> QED
  BY <1>1, <1>5, <1>7, <1>8, <1>9, <1>10, <1>11, <1>12, <1>13, StillKeeps DEF RunParts

-----------------------------------------------------------------------------
(* Merge requests and gates.                                                *)

LEMMA GateStepKeeps ==
    ASSUME RunInv, UNCHANGED <<git, ticket, changeSet, by, ends, made>>, RunParts', run' \in TheRuns,
           gate' \in [DOMAIN changeSet -> TheGates], accepted \subseteq accepted',
           \A c \in ChangeSetIds : gate'[c].status = "passed" => Content(gate'[c].src) \subseteq accepted',
           \A c \in ChangeSetIds :
                gate'[c].tgt = gate[c].tgt \/ (Unrecorded = {} /\ gate'[c].tgt = branch[Main]),
           run.at \notin Preserving \cup {"judge", "verified", "persist"},
           run'.at \notin Preserving \cup {"judge", "verified", "persist"},
           \A c \in Unrecorded : Pending(c) => Pending(c)',
           \A c \in Owed : Awaited(c) => Awaited(c)'
    PROVE  RunInv'
<1>1. UNCHANGED <<branch, tree, staged, left, cut, skipped>>
  BY DEF git, ends
<1>2. GitTypes' /\ Sparing(Main)
  BY <1>1, InUseIs DEF RunInv, GitTypes, Sparing
<1>3. Marked'
  <2>1. Marks' = Marks /\ Unrecorded' = Unrecorded
    BY <1>1 DEF Marks, Unrecorded, Active
  <2>2. \A x \in ChangeSetIds : /\ MarksOf(gate'[x].tgt) \subseteq Marks
                                /\ \A c \in Unrecorded : c \notin MarksOf(gate'[x].tgt)
    <3> SUFFICES ASSUME NEW x \in ChangeSetIds
                 PROVE  /\ MarksOf(gate'[x].tgt) \subseteq Marks
                        /\ \A c \in Unrecorded : c \notin MarksOf(gate'[x].tgt)
      OBVIOUS
    <3>1. CASE gate'[x].tgt = gate[x].tgt
      BY <3>1 DEF RunInv, Marked
    <3>2. CASE Unrecorded = {} /\ gate'[x].tgt = branch[Main]
      BY <3>2 DEF Marks
    <3> QED
      BY <3>1, <3>2
  <2> QED
    BY <2>1, <2>2 DEF RunInv, Marked, ChangeSetIds
<1>4. made' \in Nat
  BY RunIs
<1>5. /\ Content(branch'[Main]) \subseteq accepted' \cup left' /\ staged' \subseteq accepted' \cup left'
      /\ tree'[Main] \subseteq accepted' \cup left'
  BY <1>1 DEF RunInv, Clear
<1>6. Marks' \ Marks = {} /\ Content(branch[Main]) \subseteq Content(branch'[Main])
  BY <1>1 DEF Marks
<1> QED
  BY <1>1, <1>2, <1>3, <1>4, <1>5, <1>6, BranchGrows

LEMMA OpenKeeps ==
    ASSUME RunInv, Open
    PROVE  RunInv'
<1>1. /\ At("open") /\ UNCHANGED <<git, ticket, changeSet, by, ends, made>> /\ UNCHANGED accepted
      /\ run.c \in ChangeSetIds /\ gate \in [ChangeSetIds -> TheGates]
  BY DEF Open, counts, record, Fails, RunInv, Integrating, Unmerged, DomainTypes, ChangeSetIds
<1>2. /\ run' = [run EXCEPT !.at = "review"]
      /\ gate' = [gate EXCEPT ![run.c].request = IF @ = "none" THEN "draft" ELSE @]
  BY DEF Open
<1>3. /\ run' \in TheRuns /\ run'.at = "review" /\ run'.t = run.t /\ run'.c = run.c
      /\ run'.caller = run.caller /\ run'.todo = run.todo /\ run'.b = run.b
  BY <1>2, RunIs DEF TheRuns, Labels
<1>4. gate' \in [DOMAIN changeSet -> TheGates]
  <2>1. gate'[run.c] \in TheGates
    BY <1>1, <1>2 DEF TheGates
  <2>2. gate' = [gate EXCEPT ![run.c] = gate'[run.c]]
    BY <1>1, <1>2
  <2> QED
    BY <1>1, <2>1, <2>2 DEF ChangeSetIds
<1>5. AtWork'
  BY <1>1, <1>3 DEF RunInv, git, AtWork, Unmerged, Active, ChangeSetIds, Binding, Follows
<1>6. Placed'
  BY <1>1, <1>3 DEF RunInv, git, Placed
<1>7. ToRestore'
  BY <1>1, <1>3 DEF RunInv, git, ToRestore
<1>8. Integrating'
  BY <1>1, <1>3 DEF RunInv, git, Integrating, Unmerged, Active, ChangeSetIds
<1>9. Candidates'
  BY <1>1, <1>3 DEF RunInv, git, Candidates, Source, Binding, ChangeSetIds
<1>10. OneBug'
  BY <1>1, <1>3 DEF RunInv, git, OneBug, OpenBugs, Undone
<1>11. Judged'
  BY <1>3 DEF Judged
<1>12. \A c \in Unrecorded : Pending(c) => Pending(c)'
  BY <1>1, <1>3 DEF Pending
<1>13. \A c \in Owed : Awaited(c) => Awaited(c)'
  BY <1>1, <1>3 DEF RunInv, Integrating, Awaited, OpenBugs, Undone, Binding
<1>14. \A c \in ChangeSetIds : gate'[c].status = "passed" => Content(gate'[c].src) \subseteq accepted'
  BY <1>1, <1>2 DEF RunInv, Clear, TheGates
<1>15. \A c \in ChangeSetIds : gate'[c].tgt = gate[c].tgt \/ (Unrecorded = {} /\ gate'[c].tgt = branch[Main])
  BY <1>1, <1>2 DEF TheGates
<1> QED
  BY <1>1, <1>3, <1>4, <1>5, <1>6, <1>7, <1>8, <1>9, <1>10, <1>11, <1>12, <1>13, <1>14, <1>15, RunIs, GateStepKeeps DEF RunParts

LEMMA ValidateKeeps ==
    ASSUME RunInv, Validate
    PROVE  RunInv'
<1>1. /\ At("gated") /\ UNCHANGED <<git, ticket, changeSet, by, ends, made>> /\ UNCHANGED accepted
      /\ run.c \in ChangeSetIds /\ gate \in [ChangeSetIds -> TheGates]
  BY DEF Validate, counts, record, Fails, RunInv, Integrating, Unmerged, DomainTypes, ChangeSetIds
<1>2. /\ run' = [run EXCEPT !.at = "check"]
      /\ gate' = [gate EXCEPT ![run.c] = [request |-> "validating", status |-> "running",
                                         src |-> branch[Source], tgt |-> run.base]]
  BY DEF Validate
<1>3. /\ run' \in TheRuns /\ run'.at = "check" /\ run'.t = run.t /\ run'.c = run.c
      /\ run'.caller = run.caller /\ run'.todo = run.todo /\ run'.b = run.b
  BY <1>2, RunIs DEF TheRuns, Labels
<1>4. gate' \in [DOMAIN changeSet -> TheGates]
  <2>1. branch[Source] \in Seq(Commits) /\ run.base \in Seq(Commits)
    BY <1>1, InUseIs, RunIs DEF RunInv, GitTypes, Histories, Source, TheRuns
  <2> QED
    BY <1>1, <1>2, <2>1 DEF TheGates, ChangeSetIds
<1>5. AtWork'
  BY <1>1, <1>3 DEF RunInv, git, AtWork, Unmerged, Active, ChangeSetIds, Binding, Follows
<1>6. Placed'
  BY <1>1, <1>3 DEF RunInv, git, Placed
<1>7. ToRestore'
  BY <1>1, <1>3 DEF RunInv, git, ToRestore
<1>8. Integrating'
  BY <1>1, <1>3 DEF RunInv, git, Integrating, Unmerged, Active, ChangeSetIds
<1>9. Candidates'
  BY <1>1, <1>3 DEF RunInv, git, Candidates, Source, Binding, ChangeSetIds
<1>10. OneBug'
  BY <1>1, <1>3 DEF RunInv, git, OneBug, OpenBugs, Undone
<1>11. Judged'
  BY <1>1, <1>2, <1>3 DEF RunInv, Judged, TheGate, Source, git
<1>12. \A c \in Unrecorded : Pending(c) => Pending(c)'
  BY <1>1, <1>3 DEF Pending
<1>13. \A c \in Owed : Awaited(c) => Awaited(c)'
  BY <1>1, <1>3 DEF RunInv, Integrating, Awaited, OpenBugs, Undone, Binding
<1>14. \A c \in ChangeSetIds : gate'[c].status = "passed" => Content(gate'[c].src) \subseteq accepted'
  BY <1>1, <1>2 DEF RunInv, Clear, TheGates
<1>15. \A c \in ChangeSetIds : gate'[c].tgt = gate[c].tgt \/ (Unrecorded = {} /\ gate'[c].tgt = branch[Main])
  BY <1>1, <1>2 DEF RunInv, Judged, Marked, Pending
<1> QED
  BY <1>1, <1>3, <1>4, <1>5, <1>6, <1>7, <1>8, <1>9, <1>10, <1>11, <1>12, <1>13, <1>14, <1>15, RunIs, GateStepKeeps DEF RunParts

LEMMA PassKeeps ==
    ASSUME RunInv, Pass
    PROVE  RunInv'
<1>1. /\ At("check") /\ UNCHANGED <<git, ticket, changeSet, by, ends, made>>
      /\ run.c \in ChangeSetIds /\ gate \in [ChangeSetIds -> TheGates]
  BY DEF Pass, counts, record, Fails, RunInv, Integrating, Unmerged, DomainTypes, ChangeSetIds
<1>2. /\ run' = [run EXCEPT !.at = "cleanup"]
      /\ gate' = [gate EXCEPT ![run.c].status = "passed", ![run.c].request = "approved"]
      /\ accepted' = accepted \cup Content(branch[run.b])
  BY DEF Pass
<1>3. /\ run' \in TheRuns /\ run'.at = "cleanup" /\ run'.t = run.t /\ run'.c = run.c
      /\ run'.caller = run.caller /\ run'.todo = run.todo /\ run'.b = run.b
  BY <1>2, RunIs DEF TheRuns, Labels
<1>4. gate' \in [DOMAIN changeSet -> TheGates]
  <2>1. gate'[run.c] \in TheGates
    <3>1. gate[run.c] \in TheGates
      BY <1>1
    <3>2. gate'[run.c] = [gate[run.c] EXCEPT !.status = "passed", !.request = "approved"]
      BY <1>1, <1>2
    <3> QED
      BY <3>1, <3>2 DEF TheGates
  <2>2. gate' = [gate EXCEPT ![run.c] = gate'[run.c]]
    BY <1>1, <1>2
  <2> QED
    BY <1>1, <2>1, <2>2 DEF ChangeSetIds
<1>5. AtWork'
  BY <1>1, <1>3 DEF RunInv, git, AtWork, Unmerged, Active, ChangeSetIds, Binding, Follows
<1>6. Placed'
  BY <1>1, <1>3 DEF RunInv, git, Placed
<1>7. ToRestore'
  BY <1>1, <1>3 DEF RunInv, git, ToRestore
<1>8. Integrating'
  BY <1>1, <1>3 DEF RunInv, git, Integrating, Unmerged, Active, ChangeSetIds
<1>9. Candidates'
  BY <1>1, <1>3 DEF RunInv, git, Candidates, Source, Binding, ChangeSetIds
<1>10. OneBug'
  BY <1>1, <1>3 DEF RunInv, git, OneBug, OpenBugs, Undone
<1>11. Judged'
  BY <1>3 DEF Judged
<1>12. \A c \in Unrecorded : Pending(c) => Pending(c)'
  BY <1>1, <1>3 DEF Pending
<1>13. \A c \in Owed : Awaited(c) => Awaited(c)'
  BY <1>1, <1>3 DEF RunInv, Integrating, Awaited, OpenBugs, Undone, Binding
<1>14. \A c \in ChangeSetIds : gate'[c].status = "passed" => Content(gate'[c].src) \subseteq accepted'
  BY <1>1, <1>2 DEF RunInv, Clear, TheGates, Judged, TheGate
<1>15. \A c \in ChangeSetIds : gate'[c].tgt = gate[c].tgt \/ (Unrecorded = {} /\ gate'[c].tgt = branch[Main])
  BY <1>1, <1>2 DEF TheGates
<1> QED
  BY <1>1, <1>3, <1>4, <1>5, <1>6, <1>7, <1>8, <1>9, <1>10, <1>11, <1>12, <1>13, <1>14, <1>15, <1>2, RunIs, GateStepKeeps DEF RunParts

LEMMA FailKeeps ==
    ASSUME RunInv, Fail
    PROVE  RunInv'
<1>1. /\ At("check") /\ UNCHANGED <<git, ticket, changeSet, by, ends, made>> /\ UNCHANGED accepted
      /\ run.c \in ChangeSetIds /\ gate \in [ChangeSetIds -> TheGates]
  BY DEF Fail, counts, record, Fails, RunInv, Integrating, Unmerged, DomainTypes, ChangeSetIds
<1>2. /\ run' = [run EXCEPT !.at = "bug"]
      /\ gate' = [gate EXCEPT ![run.c].status = "failed", ![run.c].request = "changes-requested"]
  BY DEF Fail
<1>3. /\ run' \in TheRuns /\ run'.at = "bug" /\ run'.t = run.t /\ run'.c = run.c
      /\ run'.caller = run.caller /\ run'.todo = run.todo /\ run'.b = run.b
  BY <1>2, RunIs DEF TheRuns, Labels
<1>4. gate' \in [DOMAIN changeSet -> TheGates]
  <2>1. gate'[run.c] \in TheGates
    <3>1. gate[run.c] \in TheGates
      BY <1>1
    <3>2. gate'[run.c] = [gate[run.c] EXCEPT !.status = "failed", !.request = "changes-requested"]
      BY <1>1, <1>2
    <3> QED
      BY <3>1, <3>2 DEF TheGates
  <2>2. gate' = [gate EXCEPT ![run.c] = gate'[run.c]]
    BY <1>1, <1>2
  <2> QED
    BY <1>1, <2>1, <2>2 DEF ChangeSetIds
<1>5. AtWork'
  BY <1>1, <1>3 DEF RunInv, git, AtWork, Unmerged, Active, ChangeSetIds, Binding, Follows, Judged
<1>6. Placed'
  BY <1>1, <1>3 DEF RunInv, git, Placed, Judged
<1>7. ToRestore'
  BY <1>1, <1>3 DEF RunInv, git, ToRestore, Judged
<1>8. Integrating'
  BY <1>1, <1>3 DEF RunInv, git, Integrating, Unmerged, Active, ChangeSetIds, Judged
<1>9. Candidates'
  BY <1>1, <1>3 DEF RunInv, git, Candidates, Source, Binding, ChangeSetIds, Judged
<1>10. OneBug'
  BY <1>1, <1>3 DEF RunInv, git, OneBug, OpenBugs, Undone, Judged
<1>11. Judged'
  BY <1>3 DEF Judged
<1>12. \A c \in Unrecorded : Pending(c) => Pending(c)'
  BY <1>1, <1>3 DEF Pending
<1>13. \A c \in Owed : Awaited(c) => Awaited(c)'
  BY <1>1, <1>3 DEF RunInv, Integrating, Awaited, OpenBugs, Undone, Binding
<1>14. \A c \in ChangeSetIds : gate'[c].status = "passed" => Content(gate'[c].src) \subseteq accepted'
  BY <1>1, <1>2 DEF RunInv, Clear, TheGates
<1>15. \A c \in ChangeSetIds : gate'[c].tgt = gate[c].tgt \/ (Unrecorded = {} /\ gate'[c].tgt = branch[Main])
  BY <1>1, <1>2 DEF TheGates
<1> QED
  BY <1>1, <1>3, <1>4, <1>5, <1>6, <1>7, <1>8, <1>9, <1>10, <1>11, <1>12, <1>13, <1>14, <1>15, RunIs, GateStepKeeps DEF RunParts

LEMMA VerdictFailsKeeps ==
    ASSUME RunInv, VerdictFails, run.caller # "start"
    PROVE  RunInv'
<1>1. /\ At("verdict") /\ UNCHANGED <<git, ticket, changeSet, by, ends, made>> /\ UNCHANGED accepted
      /\ run.c \in ChangeSetIds /\ gate \in [ChangeSetIds -> TheGates]
  BY DEF VerdictFails, counts, record, Fails, RunInv, Integrating, Unmerged, DomainTypes, ChangeSetIds
<1>2. /\ run' = [run EXCEPT !.at = "bug", !.b = None]
      /\ gate' = [gate EXCEPT ![run.c].status = IF @ = "passed" THEN "stale" ELSE @]
  BY DEF VerdictFails
<1>3. /\ run' \in TheRuns /\ run'.at = "bug" /\ run'.t = run.t /\ run'.c = run.c
      /\ run'.caller = run.caller /\ run'.todo = run.todo /\ run'.b = None
  BY <1>2, RunIs DEF TheRuns, Labels
<1>4. gate' \in [DOMAIN changeSet -> TheGates]
  <2>1. gate'[run.c] \in TheGates
    BY <1>1, <1>2 DEF TheGates
  <2>2. gate' = [gate EXCEPT ![run.c] = gate'[run.c]]
    BY <1>1, <1>2
  <2> QED
    BY <1>1, <2>1, <2>2 DEF ChangeSetIds
<1>5. AtWork'
  BY <1>1, <1>3 DEF RunInv, git, AtWork, Unmerged, Active, ChangeSetIds, Binding, Follows, Integrating
<1>6. Placed'
  BY <1>1, <1>3 DEF RunInv, git, Placed, Integrating
<1>7. ToRestore'
  BY <1>1, <1>3 DEF RunInv, git, ToRestore, Integrating
<1>8. Integrating'
  BY <1>1, <1>3 DEF RunInv, git, Integrating, Unmerged, Active, ChangeSetIds, Integrating
<1>9. Candidates'
  BY <1>1, <1>3 DEF RunInv, git, Candidates, Source, Binding, ChangeSetIds, Integrating
<1>10. OneBug'
  BY <1>1, <1>3 DEF RunInv, git, OneBug, OpenBugs, Undone, Integrating
<1>11. Judged'
  BY <1>3 DEF Judged
<1>12. \A c \in Unrecorded : Pending(c) => Pending(c)'
  BY <1>1, <1>3 DEF Pending, RunInv, Integrating
<1>13. \A c \in Owed : Awaited(c) => Awaited(c)'
  BY <1>1, <1>3 DEF RunInv, Integrating, Awaited, OpenBugs, Undone, Binding
<1>14. \A c \in ChangeSetIds : gate'[c].status = "passed" => Content(gate'[c].src) \subseteq accepted'
  BY <1>1, <1>2 DEF RunInv, Clear, TheGates
<1>15. \A c \in ChangeSetIds : gate'[c].tgt = gate[c].tgt \/ (Unrecorded = {} /\ gate'[c].tgt = branch[Main])
  BY <1>1, <1>2 DEF TheGates
<1> QED
  BY <1>1, <1>3, <1>4, <1>5, <1>6, <1>7, <1>8, <1>9, <1>10, <1>11, <1>12, <1>13, <1>14, <1>15, RunIs, GateStepKeeps DEF RunParts

LEMMA IntendKeeps ==
    ASSUME RunInv, Intend
    PROVE  RunInv'
<1>1. /\ At("intend") /\ UNCHANGED <<git, ticket, changeSet, by, ends, made>> /\ UNCHANGED accepted
      /\ run.c \in ChangeSetIds /\ gate \in [ChangeSetIds -> TheGates]
  BY DEF Intend, counts, record, Fails, RunInv, Integrating, Unmerged, DomainTypes, ChangeSetIds
<1>2. /\ run' = [run EXCEPT !.at = "squash"]
      /\ gate' = [gate EXCEPT ![run.c].request = "mergeable"]
  BY DEF Intend
<1>3. /\ run' \in TheRuns /\ run'.at = "squash" /\ run'.t = run.t /\ run'.c = run.c
      /\ run'.caller = run.caller /\ run'.todo = run.todo /\ run'.b = run.b
  BY <1>2, RunIs DEF TheRuns, Labels
<1>4. gate' \in [DOMAIN changeSet -> TheGates]
  <2>1. gate'[run.c] \in TheGates
    BY <1>1, <1>2 DEF TheGates
  <2>2. gate' = [gate EXCEPT ![run.c] = gate'[run.c]]
    BY <1>1, <1>2
  <2> QED
    BY <1>1, <2>1, <2>2 DEF ChangeSetIds
<1>5. AtWork'
  BY <1>1, <1>3 DEF RunInv, git, AtWork, Unmerged, Active, ChangeSetIds, Binding, Follows
<1>6. Placed'
  BY <1>1, <1>3 DEF RunInv, git, Placed
<1>7. ToRestore'
  BY <1>1, <1>3 DEF RunInv, git, ToRestore
<1>8. Integrating'
  BY <1>1, <1>3 DEF RunInv, git, Integrating, Unmerged, Active, ChangeSetIds
<1>9. Candidates'
  BY <1>1, <1>3 DEF RunInv, git, Candidates, Source, Binding, ChangeSetIds
<1>10. OneBug'
  BY <1>1, <1>3 DEF RunInv, git, OneBug, OpenBugs, Undone
<1>11. Judged'
  BY <1>1, <1>2, <1>3 DEF RunInv, Judged, TheGate, TheGates, Source, git
<1>12. \A c \in Unrecorded : Pending(c) => Pending(c)'
  BY <1>1, <1>3 DEF Pending
<1>13. \A c \in Owed : Awaited(c) => Awaited(c)'
  BY <1>1, <1>3 DEF RunInv, Integrating, Awaited, OpenBugs, Undone, Binding
<1>14. \A c \in ChangeSetIds : gate'[c].status = "passed" => Content(gate'[c].src) \subseteq accepted'
  BY <1>1, <1>2 DEF RunInv, Clear, TheGates
<1>15. \A c \in ChangeSetIds : gate'[c].tgt = gate[c].tgt \/ (Unrecorded = {} /\ gate'[c].tgt = branch[Main])
  BY <1>1, <1>2 DEF TheGates
<1> QED
  BY <1>1, <1>3, <1>4, <1>5, <1>6, <1>7, <1>8, <1>9, <1>10, <1>11, <1>12, <1>13, <1>14, <1>15, RunIs, GateStepKeeps DEF RunParts

-----------------------------------------------------------------------------
(* The states of a change set.                                              *)

\* Change set x is in state s from now on.
LEMMA StateStepKeeps ==
    ASSUME RunInv, UNCHANGED <<git, ticket, record, ends, made>>, RunParts', run' \in TheRuns,
           NEW x \in Unmerged, NEW s \in {"developing", "reviewing", "gate-passed", "merged"},
           changeSet' = [changeSet EXCEPT ![x].state = s], gate' \in [DOMAIN changeSet -> TheGates],
           \A c \in ChangeSetIds : /\ gate'[c].src = gate[c].src /\ gate'[c].tgt = gate[c].tgt
                                   /\ gate'[c].status = gate[c].status,
           s = "merged" => Holds(x), s \notin {"gate-passed", "merged"} => x \notin Unrecorded,
           run.at \notin Preserving \cup {"judge", "verified"},
           run'.at \notin Preserving \cup {"judge", "verified", "persist"},
           \A c \in Unrecorded : (s = "merged" => c # x) /\ Pending(c) => Pending(c)',
           \A c \in Owed : (s = "merged" => c # x) /\ Awaited(c) => Awaited(c)'
    PROVE  RunInv'
<1>1. UNCHANGED <<branch, tree, staged, accepted, by, left, cut, skipped>> /\ x \in ChangeSetIds /\ Active(x)
  BY DEF git, record, ends, Unmerged
<1>2. /\ ChangeSetIds' = ChangeSetIds /\ changeSet' \in [ChangeSetIds -> TheChangeSets]
      /\ \A c \in ChangeSetIds : /\ changeSet'[c].root = changeSet[c].root
                                 /\ changeSet'[c].tickets = changeSet[c].tickets
                                 /\ changeSet'[c].source = changeSet[c].source
                                 /\ c # x => changeSet'[c].state = changeSet[c].state
      /\ changeSet'[x].state = s
  BY <1>1 DEF RunInv, DomainTypes, TheChangeSets, ChangeSetIds
<1>3. /\ \A c \in ChangeSetIds : Active(c)' => Active(c)
      /\ \A c \in ChangeSetIds : Active(c) /\ (s = "merged" => c # x) => Active(c)'
      /\ s = "merged" => ~ Active(x)'
  BY <1>1, <1>2 DEF Active
<1>4. GitTypes' /\ DomainTypes'
  BY <1>1, <1>2, RunIs DEF RunInv, GitTypes, DomainTypes, ChangeSetIds
<1>5. Sources'
  <2>1. \A r : {d \in ChangeSetIds : changeSet'[d].root = r} = {d \in ChangeSetIds : changeSet[d].root = r}
    BY <1>2
  <2>2. \A r : Cardinality({d \in ChangeSetIds : changeSet'[d].root = r})
                = Cardinality({d \in ChangeSetIds : changeSet[d].root = r})
    BY <2>1
  <2>3. ASSUME NEW c \in ChangeSetIds
        PROVE  /\ changeSet'[c].root = c[1] /\ c[1] \in DOMAIN ticket /\ c[1] \in changeSet'[c].tickets
               /\ c[2] <= Cardinality({d \in ChangeSetIds : changeSet'[d].root = c[1]})
               /\ changeSet'[c].source \in DOMAIN branch \cap OwnBranches(c)
    <3>1. /\ changeSet[c].root = c[1] /\ c[1] \in DOMAIN ticket /\ c[1] \in changeSet[c].tickets
          /\ c[2] <= Cardinality({d \in ChangeSetIds : changeSet[d].root = c[1]})
          /\ changeSet[c].source \in DOMAIN branch \cap OwnBranches(c)
      BY DEF RunInv, Sources
    <3>2. Cardinality({d \in ChangeSetIds : changeSet'[d].root = c[1]})
                = Cardinality({d \in ChangeSetIds : changeSet[d].root = c[1]})
      BY <2>2
    <3> QED
      BY <1>2, <3>1, <3>2
  <2> QED
    BY <1>1, <1>2, <2>3 DEF Sources
<1>6. Bound'
  BY <1>1, <1>2 DEF RunInv, Bound, Binding
<1>7. Marked'
  <2>1. Marks' = Marks /\ Unrecorded' \subseteq Unrecorded /\ \A c \in Unrecorded' : s = "merged" => c # x
    BY <1>1, <1>3 DEF RunInv, Marked, Marks, Unrecorded
  <2>2. \A c \in Unrecorded' : changeSet'[c].state = "gate-passed" /\ Pending(c)'
    BY <1>2, <2>1 DEF RunInv, Marked, Unrecorded
  <2> QED
    BY <1>2, <2>1, <2>2 DEF RunInv, Marked
<1>8. Landing'
  <2>1. \A c \in ChangeSetIds : Holds(c) => Holds(c)'
    BY <1>1, <1>2 DEF Holds
  <2>2. \A c \in ChangeSetIds : ~ Active(c)' \/ c \in Marks' => Holds(c)
    BY <1>1, <1>3 DEF RunInv, Landing, Marks
  <2> QED
    BY <1>2, <2>1, <2>2 DEF Landing
<1>9. Clear'
  BY <1>1, <1>2 DEF RunInv, Clear
<1>10. Delivering'
  <2>1. NoWorkLost'
    <3> SUFFICES ASSUME NEW t \in DOMAIN by, by[t] \notin Content(branch[Main])
                 PROVE  \E c \in Unmerged' : by[t] \in Content(branch'[changeSet'[c].source])
      BY <1>1 DEF NoWorkLost
    <3>1. PICK c \in Unmerged : by[t] \in Content(branch[changeSet[c].source])
      BY DEF RunInv, Delivering, NoWorkLost
    <3>2. s = "merged" => c # x
      BY <3>1 DEF Holds
    <3>3. c \in Unmerged'
      BY <1>2, <1>3, <3>2 DEF Unmerged
    <3> QED
      BY <1>1, <1>2, <3>1, <3>3 DEF Unmerged
  <2>2. ASSUME NEW t \in OpenBugs, Binding(t).kind = "gate", Binding(t).of # None,
               changeSet'[Binding(t).of].state # "merged"
        PROVE  /\ Binding(t).of \in ChangeSetIds
               /\ Content(branch[changeSet[Binding(t).of].source]) \subseteq Content(branch[Binding(t).branch])
    <3>1. t \in DOMAIN ticket /\ Binding(t).of \in ChangeSetIds
      BY <2>2 DEF RunInv, Bound, OpenBugs, Undone
    <3>2. Follows(t)
      BY <1>2, <2>2, <3>1, <1>1 DEF Follows, Active
    <3> QED
      BY <2>2, <3>1, <3>2 DEF RunInv, Delivering
  <2>3. OpenBugs' = OpenBugs /\ \A t : Binding(t)' = Binding(t)
    BY DEF OpenBugs, Undone, Binding
  <2>4. \A t \in OpenBugs' : Binding(t)'.kind = "gate" /\ Follows(t)' =>
            Content(branch'[changeSet'[Binding(t)'.of].source]) \subseteq Content(branch'[Binding(t)'.branch])
    BY <1>1, <1>2, <2>2, <2>3 DEF Follows, Active
  <2> QED
    BY <2>1, <2>4 DEF Delivering
<1>11. InSight'
  <2>1. Unmerged' \subseteq Unmerged /\ \A c \in Unmerged' : s = "merged" => c # x
    BY <1>2, <1>3 DEF Unmerged
  <2>2. Together'
    BY <1>2, <2>1 DEF RunInv, InSight, Together, Unmerged, Binding
  <2>3. \A c \in Owed' : c \in Owed /\ (s = "merged" => c # x)
    BY <1>1, <1>2, <2>1 DEF Owed, Unmerged
  <2>4. Undone' = Undone
    BY DEF Undone
  <2> QED
    BY <2>2, <2>3, <2>4 DEF RunInv, InSight
<1> QED
  BY <1>4, <1>5, <1>6, <1>7, <1>8, <1>9, <1>10, <1>11 DEF RunInv, RunParts

LEMMA ReviewKeeps ==
    ASSUME RunInv, Review
    PROVE  RunInv'
<1> DEFINE s == IF changeSet[run.c].state = "developing" THEN "reviewing" ELSE changeSet[run.c].state
<1>1. /\ At("review") /\ UNCHANGED <<git, ticket, record, ends, made>>
      /\ run.c \in Unmerged /\ run.c \in ChangeSetIds
      /\ gate \in [DOMAIN changeSet -> TheGates] /\ changeSet \in [DOMAIN changeSet -> TheChangeSets]
  BY DEF Review, counts, RunInv, Integrating, Unmerged, DomainTypes
<1>2. /\ run' = [run EXCEPT !.at = "gate"]
      /\ changeSet' = [changeSet EXCEPT ![run.c].state = s]
      /\ gate' = gate
  BY DEF Review, Merged
<1>3. s \in {"developing", "reviewing", "gate-passed", "merged"}
  BY <1>1 DEF TheChangeSets, ChangeSetIds
<1>4. /\ run' \in TheRuns /\ run'.at = "gate" /\ run'.t = run.t /\ run'.c = run.c
      /\ run'.caller = run.caller /\ run'.todo = run.todo /\ run'.b = run.b
  BY <1>2, RunIs DEF TheRuns, Labels
<1>5. /\ ChangeSetIds' = ChangeSetIds /\ Unmerged' = Unmerged
      /\ \A c \in ChangeSetIds : changeSet[c].state = "gate-passed" => changeSet'[c].state = "gate-passed"
  BY <1>1, <1>2 DEF TheChangeSets, ChangeSetIds, Unmerged, Active
<1> HIDE DEF s
<1>6. AtWork' /\ Placed' /\ ToRestore' /\ Candidates' /\ Judged'
  BY <1>4 DEF AtWork, Placed, ToRestore, Candidates, Judged
<1>7. Integrating'
  BY <1>1, <1>4, <1>5 DEF RunInv, Integrating
<1>8. OneBug'
  BY <1>1, <1>4 DEF RunInv, OneBug, OpenBugs, Undone
<1>9. Unrecorded = {}
  BY <1>1 DEF RunInv, Marked, Pending
<1>10. \A c \in Owed : Awaited(c) => Awaited(c)'
  BY <1>1, <1>4, <1>5 DEF RunInv, Integrating, Awaited, OpenBugs, Undone, Binding, Owed, Unmerged
<1>11. s # "merged"
  BY <1>1 DEF s, Unmerged, Active
<1> QED
  BY <1>1, <1>2, <1>3, <1>4, <1>6, <1>7, <1>8, <1>9, <1>10, <1>11, StateStepKeeps DEF RunParts

LEMMA GatePassedKeeps ==
    ASSUME RunInv, GatePassed
    PROVE  RunInv'
<1> DEFINE s == "gate-passed"
<1>1. /\ At("passed") /\ UNCHANGED <<git, ticket, record, ends, made>>
      /\ run.c \in Unmerged /\ run.c \in ChangeSetIds
      /\ gate \in [DOMAIN changeSet -> TheGates] /\ changeSet \in [DOMAIN changeSet -> TheChangeSets]
  BY DEF GatePassed, counts, RunInv, Integrating, Unmerged, DomainTypes
<1>2. /\ run' = [run EXCEPT !.at = "verdict"]
      /\ changeSet' = [changeSet EXCEPT ![run.c].state = s]
      /\ gate' = gate
  BY DEF GatePassed, Merged
<1>3. s \in {"developing", "reviewing", "gate-passed", "merged"}
  BY <1>1 DEF TheChangeSets, ChangeSetIds
<1>4. /\ run' \in TheRuns /\ run'.at = "verdict" /\ run'.t = run.t /\ run'.c = run.c
      /\ run'.caller = run.caller /\ run'.todo = run.todo /\ run'.b = run.b
  BY <1>2, RunIs DEF TheRuns, Labels
<1>5. /\ ChangeSetIds' = ChangeSetIds /\ Unmerged' = Unmerged /\ changeSet'[run.c].state = "gate-passed"
      /\ \A c \in ChangeSetIds : changeSet[c].state = "gate-passed" => changeSet'[c].state = "gate-passed"
  BY <1>1, <1>2 DEF TheChangeSets, ChangeSetIds, Unmerged, Active
<1>6. AtWork' /\ Placed' /\ ToRestore' /\ Candidates' /\ Judged'
  BY <1>4 DEF AtWork, Placed, ToRestore, Candidates, Judged
<1>7. Integrating'
  BY <1>1, <1>4, <1>5 DEF RunInv, Integrating
<1>8. OneBug'
  BY <1>1, <1>4 DEF RunInv, OneBug, OpenBugs, Undone
<1>9. Unrecorded = {}
  BY <1>1 DEF RunInv, Marked, Pending
<1>10. \A c \in Owed : Awaited(c) => Awaited(c)'
  BY <1>1, <1>4, <1>5 DEF RunInv, Integrating, Awaited, OpenBugs, Undone, Binding, Owed, Unmerged
<1> QED
  BY <1>1, <1>2, <1>4, <1>6, <1>7, <1>8, <1>9, <1>10, StateStepKeeps DEF RunParts

LEMMA PersistKeeps ==
    ASSUME RunInv, Persist
    PROVE  RunInv'
<1> DEFINE s == "merged"
<1>1. /\ At("persist") /\ UNCHANGED <<git, ticket, record, ends, made>>
      /\ run.c \in Unmerged /\ run.c \in ChangeSetIds
      /\ gate \in [DOMAIN changeSet -> TheGates] /\ changeSet \in [DOMAIN changeSet -> TheChangeSets]
  BY DEF Persist, counts, RunInv, Integrating, Unmerged, DomainTypes
<1>2. /\ run' = [run EXCEPT !.at = "release"]
      /\ changeSet' = [changeSet EXCEPT ![run.c].state = s]
      /\ gate' = [gate EXCEPT ![run.c].request = "merged"]
  BY DEF Persist, Merged
<1>3. s \in {"developing", "reviewing", "gate-passed", "merged"}
  BY <1>1 DEF TheChangeSets, ChangeSetIds
<1>4. /\ run' \in TheRuns /\ run'.at = "release" /\ run'.t = run.t /\ run'.c = run.c
      /\ run'.caller = run.caller /\ run'.todo = run.todo /\ run'.b = run.b
  BY <1>2, RunIs DEF TheRuns, Labels
<1>5. /\ ChangeSetIds' = ChangeSetIds /\ Unmerged' = Unmerged \ {run.c} /\ changeSet'[run.c].state = "merged"
      /\ \A c \in ChangeSetIds \ {run.c} : changeSet'[c].state = changeSet[c].state
  BY <1>1, <1>2 DEF TheChangeSets, ChangeSetIds, Unmerged, Active
<1>6. AtWork' /\ Placed' /\ ToRestore' /\ Candidates' /\ Judged'
  BY <1>4 DEF AtWork, Placed, ToRestore, Candidates, Judged
<1>7. Integrating'
  <2>1. \A c \in run.todo : c \in Unmerged \ {run.c} /\ c \in ChangeSetIds
    BY <1>1 DEF RunInv, Integrating, Unmerged
  <2>2. run.caller = "start" => \A c \in run.todo : changeSet'[c].state = "gate-passed"
    BY <1>1, <1>5, <2>1 DEF RunInv, Integrating
  <2>3. run.caller \in {"ticket", "phase", "start"}
    BY <1>1 DEF RunInv, Integrating
  <2>4. run'.todo \subseteq Unmerged' /\ ~ Active(run.c)'
    BY <1>4, <1>5, <2>1 DEF Active
  <2> QED
    BY <1>1, <1>4, <1>5, <2>2, <2>3, <2>4 DEF Integrating, Active
<1>8. OneBug'
  BY <1>1, <1>4 DEF RunInv, OneBug, OpenBugs, Undone
<1>9. Holds(run.c) /\ \A c \in Unrecorded : c = run.c
  BY <1>1 DEF RunInv, Marked, Pending, Landing
<1>10. \A c \in Owed : c # run.c /\ Awaited(c) => Awaited(c)'
  BY <1>1, <1>4, <1>5 DEF RunInv, Integrating, Awaited, OpenBugs, Undone, Binding, Owed, Unmerged
<1>11. gate' \in [DOMAIN changeSet -> TheGates]
  BY <1>1, <1>2 DEF TheGates
<1>12. \A c \in ChangeSetIds : /\ gate'[c].src = gate[c].src /\ gate'[c].tgt = gate[c].tgt
                               /\ gate'[c].status = gate[c].status
  BY <1>1, <1>2 DEF TheGates, ChangeSetIds
<1> QED
  BY <1>1, <1>2, <1>4, <1>6, <1>7, <1>8, <1>9, <1>10, <1>11, <1>12, StateStepKeeps DEF RunParts

\* The commit an interrupted run made is found, and recorded.
LEMMA ResumeMergedKeeps ==
    ASSUME RunInv, ResumeMerged
    PROVE  RunInv'
<1>1. /\ At("pending") /\ UNCHANGED <<git, ticket, record, ends, made>>
      /\ gate \in [DOMAIN changeSet -> TheGates] /\ changeSet \in [DOMAIN changeSet -> TheChangeSets]
  BY DEF ResumeMerged, counts, RunInv, DomainTypes
<1>2. PICK x \in run.todo : Landed(x) /\ Merged(x) /\ Resume(x, "release", "reconcile")
  BY DEF ResumeMerged
<1>3. x \in Unmerged /\ x \in ChangeSetIds /\ x \in ChangeSetNames
  BY <1>2, InUseIs DEF RunInv, Integrating, Unmerged
<1>4. /\ changeSet' = [changeSet EXCEPT ![x].state = "merged"]
      /\ gate' = [gate EXCEPT ![x].request = "merged"]
  BY <1>2 DEF Merged
<1>5. /\ run' \in TheRuns /\ run'.at = "release" /\ run'.c = x /\ run'.caller = "reconcile"
      /\ run'.todo = run.todo \ {x}
  BY <1>2, <1>3, RunIs DEF Resume, TheRuns, Labels
<1>6. /\ ChangeSetIds' = ChangeSetIds /\ Unmerged' = Unmerged \ {x} /\ changeSet'[x].state = "merged"
      /\ \A c \in ChangeSetIds \ {x} : changeSet'[c].state = changeSet[c].state
  BY <1>1, <1>3, <1>4 DEF TheChangeSets, ChangeSetIds, Unmerged, Active
<1>7. AtWork' /\ Placed' /\ ToRestore' /\ Candidates' /\ Judged'
  BY <1>5 DEF AtWork, Placed, ToRestore, Candidates, Judged
<1>8. Integrating'
  <2>1. \A c \in run.todo : c \in Unmerged /\ changeSet[c].state = "gate-passed" /\ c \in ChangeSetIds
    BY <1>1 DEF RunInv, Integrating, Unmerged
  <2>2. run'.todo \subseteq Unmerged' /\ \A c \in run'.todo : changeSet'[c].state = "gate-passed"
    BY <1>5, <1>6, <2>1
  <2> QED
    BY <1>3, <1>5, <1>6, <2>2 DEF Integrating, Active
<1>9. OneBug'
  BY <1>1, <1>5 DEF RunInv, OneBug, OpenBugs, Undone
<1>10. Holds(x)
  <2>1. branch[Main] \in Histories
    BY DEF RunInv, GitTypes
  <2>2. Len(branch[Main]) \in 1..Len(branch[Main])
    <3>1. Len(branch[Main]) \in Nat \ {0}
      BY <2>1 DEF Histories
    <3> QED
      BY <3>1
  <2>3. branch[Main][Len(branch[Main])].of = x
    BY <1>2 DEF Landed, Last
  <2>4. x \in Marks
    BY <1>3, <2>2, <2>3, NoneIsApart DEF Marks, MarksOf
  <2> QED
    BY <1>3, <2>4 DEF RunInv, Landing
<1>11. \A c \in Unrecorded : c # x /\ Pending(c) => Pending(c)'
  BY <1>1, <1>5 DEF Pending
<1>12. \A c \in Owed : c # x /\ Awaited(c) => Awaited(c)'
  BY <1>1, <1>5, <1>6 DEF RunInv, Awaited, OpenBugs, Undone, Binding, Owed, Unmerged
<1>13. gate' \in [DOMAIN changeSet -> TheGates]
  BY <1>1, <1>4 DEF TheGates
<1>14. \A c \in ChangeSetIds : /\ gate'[c].src = gate[c].src /\ gate'[c].tgt = gate[c].tgt
                               /\ gate'[c].status = gate[c].status
  BY <1>1, <1>4 DEF TheGates, ChangeSetIds
<1> QED
  BY <1>1, <1>3, <1>4, <1>5, <1>7, <1>8, <1>9, <1>10, <1>11, <1>12, <1>13, <1>14, StateStepKeeps DEF RunParts

-----------------------------------------------------------------------------
(* The tickets.                                                             *)

LEMMA TicketIs ==
    ASSUME NEW t \in Tickets
    PROVE  /\ t[1] \in {"story", "bug"} /\ t[2] \in Nat
           /\ t[1] = "story" <=> \E s \in 1..Steps : t = Story(s)
<1>1. CASE \E s \in 1..Steps : t = Story(s)
  <2>1. PICK s \in 1..Steps : t = Story(s)
    BY <1>1
  <2> QED
    BY <2>1, ProjectAssumption DEF Story
<1>2. CASE \E i \in 1..MaxBugs : t = Bug(i)
  <2>1. PICK i \in 1..MaxBugs : t = Bug(i)
    BY <1>2
  <2>2. t[1] = "bug" /\ t[2] = i /\ i \in Nat
    BY <2>1, ProjectAssumption DEF Bug
  <2>3. \A s : Story(s)[1] = "story"
    BY DEF Story
  <2> QED
    BY <2>2, <2>3
<1> QED
  BY <1>1, <1>2 DEF Tickets

LEMMA TicketsAreFinite == IsFiniteSet(Tickets)
<1> DEFINE S == {Story(s) : s \in 1..Steps}
           B == {Bug(i) : i \in 1..MaxBugs}
<1>1. IsFiniteSet(1..Steps) /\ IsFiniteSet(1..MaxBugs)
  BY FS_Interval, ProjectAssumption
<1>2. IsFiniteSet(S)
  <2>1. [s \in 1..Steps |-> Story(s)] \in Surjection(1..Steps, S)
    BY DEF Surjection
  <2> QED
    BY <1>1, <2>1, FS_Surjection
<1>3. IsFiniteSet(B)
  <2>1. [i \in 1..MaxBugs |-> Bug(i)] \in Surjection(1..MaxBugs, B)
    BY DEF Surjection
  <2> QED
    BY <1>1, <2>1, FS_Surjection
<1>4. Tickets = S \cup B
  BY DEF Tickets
<1> HIDE DEF S, B
<1> QED
  BY <1>2, <1>3, <1>4, FS_Union

\* A ticket without code to write is a Story, and then nothing is owed.
LEMMA StoryIs ==
    ASSUME RunInv, run.at \in Developing, ~ IsCode(run.t)
    PROVE  run.t[1] = "story" /\ OpenBugs = {} /\ Owed = {}
<1>1. /\ run.t \in DOMAIN ticket /\ run.t \in Tickets /\ run.caller = None /\ run.todo = {}
      /\ run.t \in Undone /\ OpenBugs \subseteq {run.t}
  BY DEF RunInv, AtWork, DomainTypes, Undone, OneBug
<1>2. run.t[1] = "story"
  BY <1>1, TicketIs DEF RunInv, Bound, IsCode
<1>3. OpenBugs = {}
  BY <1>1, <1>2 DEF OpenBugs
<1>4. \A c \in Owed : ~ Awaited(c)
  BY <1>3 DEF Awaited
<1> QED
  BY <1>1, <1>2, <1>3, <1>4 DEF RunInv, InSight

LEMMA TicketStepKeeps ==
    ASSUME RunInv, UNCHANGED <<git, changeSet, gate, accepted, ends, made>>, RunParts', run' \in TheRuns,
           ticket' \in [DOMAIN ticket' -> TheTickets], DOMAIN ticket' \subseteq Tickets,
           DOMAIN ticket \subseteq DOMAIN ticket',
           Bound', Delivering', InSight', Unrecorded = {},
           run.at \notin Preserving \cup {"judge", "persist"},
           run'.at \notin Preserving \cup {"judge", "verified", "persist"}
    PROVE  RunInv'
<1>1. UNCHANGED <<branch, tree, staged, left, cut, skipped>> /\ ChangeSetIds' = ChangeSetIds
  BY DEF git, ends, ChangeSetIds
<1>2. GitTypes' /\ DomainTypes'
  BY <1>1, RunIs DEF RunInv, GitTypes, DomainTypes
<1>3. Sources'
  BY <1>1 DEF RunInv, Sources
<1>4. Marked' /\ Landing'
  <2>1. Marks' = Marks /\ Unrecorded' = Unrecorded
    BY <1>1 DEF Marks, Unrecorded, Active
  <2> QED
    BY <1>1, <2>1 DEF RunInv, Marked, Landing, Holds, Active
<1>5. Clear'
  BY <1>1 DEF RunInv, Clear
<1> QED
  BY <1>2, <1>3, <1>4, <1>5 DEF RunInv, RunParts

\* A ticket keeps its binding, or gets one that is not to a gate.
LEMMA BoundStays ==
    ASSUME RunInv, DOMAIN ticket' = DOMAIN ticket, branch' = branch, ChangeSetIds \subseteq ChangeSetIds',
           \A t \in DOMAIN ticket :
                /\ ticket'[t].step = ticket[t].step /\ ticket'[t].parent = ticket[t].parent
                /\ \/ ticket'[t].binding = ticket[t].binding
                   \/ /\ ticket'[t].binding.kind = "canonical" /\ ticket'[t].binding.of = None
                   \/ /\ ticket'[t].binding.kind = "ticket" /\ ticket'[t].binding.of # None
                      /\ ticket'[t].binding.of \in ChangeSetIds'
    PROVE  Bound'
<1> SUFFICES ASSUME NEW t \in DOMAIN ticket
             PROVE  /\ t[1] = "story" => ticket'[t].step = t[2]
                    /\ t[1] = "bug" => /\ ticket'[t].step = CodeStep /\ ticket'[t].parent = Story(CodeStep)
                                       /\ t[2] <= Cardinality({u \in DOMAIN ticket : u[1] = "bug"})
                    /\ ticket'[t].binding.kind = "gate" => t[1] = "bug"
                    /\ ticket'[t].binding.of # None <=> ticket'[t].binding.kind \in {"ticket", "gate"}
                    /\ ticket'[t].binding.of # None => ticket'[t].binding.of \in ChangeSetIds'
                    /\ ticket'[t].binding.kind = "gate" =>
                          /\ ticket'[t].binding.branch \in DOMAIN branch \cap GateBranches
                          /\ ticket'[t].binding.branch[2] = ticket'[t].binding.of
  BY DEF RunInv, Bound, Binding
<1>1. CASE ticket'[t].binding = ticket[t].binding
  BY <1>1 DEF RunInv, Bound, Binding
<1>2. CASE ticket'[t].binding # ticket[t].binding
  BY <1>2 DEF RunInv, Bound
<1> QED
  BY <1>1, <1>2

\* A Story that writes no code is developed on the canonical branch.
LEMMA UseCanonicalKeeps ==
    ASSUME RunInv, UseCanonical, UNCHANGED ends
    PROVE  RunInv'
<1>1. /\ At("scope") /\ ~ Follows(run.t) /\ ~ IsCode(run.t)
      /\ UNCHANGED <<git, changeSet, gate, accepted, by, ends, made>>
      /\ ticket' = [ticket EXCEPT ![run.t].binding = Canonical]
      /\ run' = [run EXCEPT !.at = "baseline", !.b = Main]
  BY DEF UseCanonical, OnCanonical, BoundTo, record, counts
<1>2. /\ run.t \in DOMAIN ticket /\ ticket[run.t].state = "open" /\ run.todo = {} /\ run.caller = None
      /\ ticket \in [DOMAIN ticket -> TheTickets] /\ DOMAIN ticket \subseteq Tickets
  BY <1>1 DEF RunInv, AtWork, DomainTypes
<1>3. Canonical \in TheBindings /\ Canonical.kind = "canonical" /\ Canonical.of = None
  BY DEF Canonical, TheBindings, Names
<1>4. /\ DOMAIN ticket' = DOMAIN ticket /\ ticket' \in [DOMAIN ticket -> TheTickets]
      /\ \A t \in DOMAIN ticket : /\ ticket'[t].step = ticket[t].step /\ ticket'[t].state = ticket[t].state
                                  /\ ticket'[t].parent = ticket[t].parent
                                  /\ t # run.t => ticket'[t].binding = ticket[t].binding
      /\ ticket'[run.t].binding = Canonical
  BY <1>1, <1>2, <1>3 DEF TheTickets
<1>5. run' \in TheRuns
  BY <1>1, RunIs DEF TheRuns, Labels, Names
<1>6. /\ run'.at = "baseline" /\ run'.b = Main /\ run'.t = run.t /\ run'.todo = run.todo
      /\ run'.caller = run.caller
  BY <1>1, RunIs DEF TheRuns
<1>7. OpenBugs = {} /\ Owed = {}
  BY <1>1, StoryIs
<1>8. Undone' = Undone /\ OpenBugs' = {}
  <2>1. Undone' = Undone
    BY <1>4 DEF Undone
  <2> QED
    BY <1>7, <2>1 DEF OpenBugs
<1>9. Binding(run.t)' = Canonical /\ ~ IsCode(run.t)'
  BY <1>1, <1>2, <1>4, <1>6 DEF Binding, IsCode
<1>10. AtWork'
  BY <1>1, <1>2, <1>3, <1>4, <1>6, <1>9 DEF AtWork, RunInv, GitTypes, git
<1>11. Placed'
  <2>1. \A c \in ChangeSetIds : c # None
    BY NoneIsApart DEF RunInv, DomainTypes
  <2> QED
    BY <1>1, <1>3, <1>6, <1>9, <2>1 DEF Placed, Unmerged, ChangeSetIds
<1>12. ToRestore' /\ Integrating' /\ Candidates' /\ Judged'
  BY <1>2, <1>6 DEF ToRestore, Integrating, Candidates, Judged
<1>13. OneBug'
  BY <1>6, <1>8 DEF OneBug, RunInv
<1>14. Bound'
  BY <1>1, <1>3, <1>4, BoundStays DEF ChangeSetIds, git
<1>15. Delivering'
  <2>1. NoWorkLost'
    BY <1>1 DEF RunInv, Delivering, NoWorkLost, git, Unmerged, Active, ChangeSetIds
  <2> QED
    BY <1>6, <1>8, <2>1 DEF Delivering
<1>16. InSight'
  <2>1. ASSUME NEW c \in Unmerged, NEW t \in changeSet[c].tickets
        PROVE  t \in DOMAIN ticket' /\ ticket'[t].binding.of = c
    <3>1. t \in DOMAIN ticket /\ Binding(t).of = c /\ c # None /\ Active(c)
      BY NoneIsApart DEF RunInv, InSight, Together, DomainTypes, Unmerged
    <3>2. t # run.t
      BY <1>1, <3>1 DEF Follows
    <3> QED
      BY <1>4, <3>1, <3>2 DEF Binding
  <2>2. Together'
    BY <1>1, <2>1 DEF Together, Unmerged, Active, ChangeSetIds, Binding
  <2>3. Owed' = {}
    <3>1. \A c \in Unmerged : \A t \in changeSet[c].tickets : t \in DOMAIN ticket
      BY DEF RunInv, InSight, Together
    <3>2. Owed' \subseteq Owed
      BY <1>1, <1>4, <3>1 DEF Owed, Unmerged, Active, ChangeSetIds, ends
    <3> QED
      BY <1>7, <3>2
  <2> QED
    BY <2>2, <2>3 DEF InSight
<1>17. Unrecorded = {}
  BY <1>1 DEF RunInv, Marked, Pending
<1> QED
  BY <1>1, <1>2, <1>4, <1>5, <1>6, <1>10, <1>11, <1>12, <1>13, <1>14, <1>15, <1>16, <1>17, TicketStepKeeps
  DEF RunParts

\* A ticket is delivered, and its change set is to be integrated next.
LEMMA DeliverKeeps ==
    ASSUME RunInv, Deliver, UNCHANGED ends
    PROVE  RunInv'
<1>1. /\ At("verified") /\ UNCHANGED <<git, changeSet, gate, accepted, ends, made>>
      /\ ticket' = [ticket EXCEPT ![run.t].state = "done"] /\ by' = With(by, run.t, run.w)
      /\ run' = [run EXCEPT !.at = "integrate"]
  BY DEF Deliver, counts
<1>2. /\ run.t \in DOMAIN ticket /\ run.todo = {} /\ run.caller = None
      /\ ticket \in [DOMAIN ticket -> TheTickets] /\ DOMAIN ticket \subseteq Tickets
  BY <1>1 DEF RunInv, AtWork, DomainTypes
<1>3. /\ DOMAIN ticket' = DOMAIN ticket /\ ticket' \in [DOMAIN ticket -> TheTickets]
      /\ \A t \in DOMAIN ticket : /\ ticket'[t].step = ticket[t].step /\ ticket'[t].binding = ticket[t].binding
                                  /\ ticket'[t].parent = ticket[t].parent
                                  /\ t # run.t => ticket'[t].state = ticket[t].state
      /\ ticket'[run.t].state = "done"
  BY <1>1, <1>2 DEF TheTickets
<1>4. /\ run' \in TheRuns /\ run'.at = "integrate" /\ run'.t = run.t /\ run'.todo = run.todo
      /\ run'.caller = run.caller
  BY <1>1, RunIs DEF TheRuns, Labels
<1>5. OpenBugs' \subseteq OpenBugs /\ Undone' \subseteq Undone
  BY <1>3 DEF OpenBugs, Undone
<1>6. AtWork' /\ Placed' /\ ToRestore' /\ Integrating' /\ Candidates' /\ Judged'
  BY <1>2, <1>3, <1>4 DEF AtWork, Placed, ToRestore, Integrating, Candidates, Judged
<1>7. OneBug'
  BY <1>1, <1>4, <1>5 DEF RunInv, OneBug
<1>8. Bound'
  BY <1>1, <1>3, BoundStays DEF ChangeSetIds, git
<1>9. Delivering'
  <2>1. \/ run.w \in Content(branch[Main])
        \/ \E c \in Unmerged : run.w \in Content(branch[changeSet[c].source])
    BY <1>1 DEF RunInv, AtWork
  <2>2. DOMAIN by' = DOMAIN by \cup {run.t} /\ by'[run.t] = run.w /\ \A t \in DOMAIN by : t # run.t => by'[t] = by[t]
    BY <1>1 DEF With
  <2>3. NoWorkLost'
    <3> SUFFICES ASSUME NEW t \in DOMAIN by'
                 PROVE  \/ by'[t] \in Content(branch[Main])
                        \/ \E c \in Unmerged : by'[t] \in Content(branch[changeSet[c].source])
      BY <1>1 DEF NoWorkLost, git, Unmerged, Active, ChangeSetIds
    <3> QED
      BY <2>1, <2>2 DEF RunInv, Delivering, NoWorkLost
  <2>4. \A t \in OpenBugs : t \in DOMAIN ticket
    BY DEF OpenBugs, Undone
  <2>5. \A t \in OpenBugs' : t \in OpenBugs /\ ticket'[t].binding = ticket[t].binding
    BY <1>3, <1>5, <2>4
  <2>6. run'.at \notin Preserving /\ changeSet' = changeSet /\ branch' = branch
    BY <1>1 DEF git
  <2>7. ASSUME NEW t \in OpenBugs', ticket'[t].binding.kind = "gate", Follows(t)
        PROVE  Content(branch'[changeSet'[ticket'[t].binding.of].source]) \subseteq Content(branch'[ticket'[t].binding.branch])
    BY <2>5, <2>6, <2>7 DEF RunInv, Delivering, Binding
  <2>8. ASSUME NEW t \in OpenBugs', Follows(t)' PROVE Follows(t)
    BY <2>5, <2>6, <2>8 DEF Follows, Active, Binding
  <2> QED
    BY <2>3, <2>6, <2>7, <2>8 DEF Delivering, Binding
<1>10. InSight'
  <2>1. Together'
    BY <1>1, <1>3 DEF RunInv, InSight, Together, Unmerged, Active, ChangeSetIds, Binding
  <2>2. ASSUME NEW c \in Owed', \E t \in Undone' : t[1] = "story" PROVE Awaited(c)'
    <3>1. c \in Unmerged /\ c \notin cut \cup skipped /\ changeSet' = changeSet
      BY <1>1 DEF Owed, Unmerged, Active, ChangeSetIds, ends
    <3>2. CASE run.t \in changeSet[c].tickets
      BY <1>4, <3>1, <3>2 DEF Awaited
    <3>3. CASE run.t \notin changeSet[c].tickets
      <4>1. c \in Owed
        BY <1>3, <3>1, <3>3 DEF Owed, RunInv, InSight, Together
      <4>2. Awaited(c)
        BY <1>5, <2>2, <4>1 DEF RunInv, InSight
      <4>3. PICK t \in OpenBugs : Binding(t).of = c
        BY <1>1, <4>2 DEF Awaited
      <4>4. t = run.t
        BY <1>1 DEF RunInv, OneBug
      <4> QED
        BY <1>1, <3>1, <3>3, <4>3, <4>4 DEF RunInv, Placed
    <3> QED
      BY <3>2, <3>3
  <2> QED
    BY <2>1, <2>2 DEF InSight
<1>11. Unrecorded = {}
  BY <1>1 DEF RunInv, Marked, Pending
<1> QED
  BY <1>1, <1>2, <1>3, <1>4, <1>6, <1>7, <1>8, <1>9, <1>10, <1>11, TicketStepKeeps DEF RunParts

\* A Bug is opened, and goes on where binding says.
LEMMA NewBugKeeps ==
    ASSUME RunInv, NEW binding \in TheBindings, OpenBug(binding), Go("loop"),
           UNCHANGED <<git, changeSet, gate, record, ends, made>>, OpenBugs = {}, Unrecorded = {},
           run.at \notin Preserving \cup {"judge", "persist"}, run.todo = {} \/ run.todo \subseteq Unmerged,
           binding.of # None <=> binding.kind \in {"ticket", "gate"},
           binding.of # None => binding.of \in ChangeSetIds,
           binding.kind = "gate" =>
                /\ binding.branch \in DOMAIN branch \cap GateBranches /\ binding.branch[2] = binding.of
                /\ Content(branch[changeSet[binding.of].source]) \subseteq Content(branch[binding.branch]),
           (\E t \in Undone : t[1] = "story") => \A c \in Owed : binding.of = c
    PROVE  RunInv'
<1> DEFINE Bugs == {t \in DOMAIN ticket : t[1] = "bug"}
           new == OpenTicket(CodeStep, Story(CodeStep), binding)
<1>1. /\ NextBug \in Tickets /\ NextBug[1] = "bug" /\ NextBug[2] = 1 + Cardinality(Bugs)
      /\ Cardinality(Bugs) \in Nat /\ IsFiniteSet(Bugs)
      /\ ticket \in [DOMAIN ticket -> TheTickets] /\ DOMAIN ticket \subseteq Tickets
  <2>1. DOMAIN ticket \subseteq Tickets /\ ticket \in [DOMAIN ticket -> TheTickets]
    BY DEF RunInv, DomainTypes
  <2>2. IsFiniteSet(Bugs)
    BY <2>1, TicketsAreFinite, FS_Subset
  <2>3. Cardinality(Bugs) \in Nat
    BY <2>2, FS_CardinalityType
  <2>4. NextBug[1] = "bug" /\ NextBug[2] = 1 + Cardinality(Bugs)
    BY DEF NextBug, Bug
  <2> QED
    BY <2>1, <2>2, <2>3, <2>4 DEF OpenBug
<1>2. NextBug \notin DOMAIN ticket
  <2> SUFFICES ASSUME NextBug \in DOMAIN ticket PROVE FALSE
    OBVIOUS
  <2>1. NextBug[2] <= Cardinality(Bugs)
    BY <1>1 DEF RunInv, Bound
  <2> HIDE DEF Bugs
  <2> QED
    BY <1>1, <2>1
<1>3. /\ new \in TheTickets /\ new.step = CodeStep /\ new.parent = Story(CodeStep) /\ new.state = "open"
      /\ new.binding = binding
  BY ProjectAssumption DEF OpenTicket, TheTickets, Tickets
<1>4. /\ DOMAIN ticket' = DOMAIN ticket \cup {NextBug} /\ ticket'[NextBug] = new
      /\ \A t \in DOMAIN ticket : ticket'[t] = ticket[t]
      /\ ticket' \in [DOMAIN ticket' -> TheTickets]
  <2>1. ticket' = [t \in DOMAIN ticket \cup {NextBug} |-> IF t = NextBug THEN new ELSE ticket[t]]
    BY DEF OpenBug, With
  <2> HIDE DEF new
  <2> QED
    BY <1>1, <1>2, <1>3, <2>1
<1> HIDE DEF new
<1>5. /\ run' \in TheRuns /\ run'.at = "loop" /\ run'.c = run.c /\ run'.todo = run.todo
  BY RunIs DEF TheRuns, Labels
<1>6. /\ OpenBugs' = {NextBug} /\ Undone' = Undone \cup {NextBug}
      /\ branch' = branch /\ ChangeSetIds' = ChangeSetIds /\ Unmerged' = Unmerged
      /\ UNCHANGED <<left, cut, skipped>>
  <2>1. Undone' = Undone \cup {NextBug}
    BY <1>2, <1>3, <1>4 DEF Undone
  <2> QED
    BY <1>1, <2>1 DEF OpenBugs, ChangeSetIds, git, Unmerged, Active, ends
<1>7. AtWork' /\ Placed' /\ ToRestore' /\ Integrating' /\ Candidates' /\ Judged'
  BY <1>5, <1>6 DEF AtWork, Placed, ToRestore, Integrating, Candidates, Judged, RunInv
<1>8. OneBug'
  BY <1>5, <1>6 DEF OneBug
<1>9. Bound'
  <2> DEFINE More == {t \in DOMAIN ticket \cup {NextBug} : t[1] = "bug"}
  <2>1. More = Bugs \cup {NextBug} /\ NextBug \notin Bugs
    BY <1>1, <1>2
  <2>2. Cardinality(More) = Cardinality(Bugs) + 1
    <3> HIDE DEF More, Bugs
    <3>1. Cardinality(Bugs \cup {NextBug}) = Cardinality(Bugs) + 1
      BY <1>1, <2>1, FS_AddElement
    <3> QED
      BY <2>1, <3>1
  <2> SUFFICES ASSUME NEW t \in DOMAIN ticket \cup {NextBug}
               PROVE  /\ t[1] = "story" => ticket'[t].step = t[2]
                      /\ t[1] = "bug" => /\ ticket'[t].step = CodeStep /\ ticket'[t].parent = Story(CodeStep)
                                         /\ t[2] <= Cardinality(More)
                      /\ ticket'[t].binding.kind = "gate" => t[1] = "bug"
                      /\ ticket'[t].binding.of # None <=> ticket'[t].binding.kind \in {"ticket", "gate"}
                      /\ ticket'[t].binding.of # None => ticket'[t].binding.of \in ChangeSetIds
                      /\ ticket'[t].binding.kind = "gate" =>
                            /\ ticket'[t].binding.branch \in DOMAIN branch \cap GateBranches
                            /\ ticket'[t].binding.branch[2] = ticket'[t].binding.of
    BY <1>4, <1>6 DEF RunInv, Bound, Binding
  <2>3. CASE t \in DOMAIN ticket
    <3>1. t[1] = "bug" => t[2] <= Cardinality(More)
      <4> SUFFICES ASSUME t[1] = "bug" PROVE t[2] <= Cardinality(More)
        OBVIOUS
      <4>1. t[2] <= Cardinality(Bugs) /\ t[2] \in Nat
        BY <1>1, <2>3, TicketIs DEF RunInv, Bound
      <4> HIDE DEF Bugs, More
      <4> QED
        BY <1>1, <2>2, <4>1
    <3> QED
      BY <1>4, <2>3, <3>1 DEF RunInv, Bound, Binding
  <2>4. CASE t = NextBug
    <3>1. t[2] <= Cardinality(More)
      BY <1>1, <2>2, <2>4
    <3> HIDE DEF More
    <3> QED
      BY <1>1, <1>3, <1>4, <2>4, <3>1
  <2> QED
    BY <2>3, <2>4
<1>10. Delivering'
  <2>1. NoWorkLost'
    BY <1>6 DEF RunInv, Delivering, NoWorkLost, record
  <2>2. PICK n : n = NextBug
    OBVIOUS
  <2>3. Binding(n)' = binding /\ OpenBugs' = {n}
    BY <1>3, <1>4, <1>6, <2>2 DEF Binding
  <2>4. \A t \in OpenBugs' : t = n
    BY <2>3
  <2>5. binding.kind = "gate" => Content(branch'[changeSet'[binding.of].source]) \subseteq Content(branch'[binding.branch])
    BY <1>6
  <2> QED
    BY <1>5, <2>1, <2>3, <2>4, <2>5 DEF Delivering
<1>11. InSight'
  <2>1. \A c \in Unmerged : \A t \in changeSet[c].tickets : t \in DOMAIN ticket /\ ticket[t].binding.of = c
    BY DEF RunInv, InSight, Together, Binding
  <2>2. Together'
    BY <1>4, <1>6, <2>1 DEF Together, Binding
  <2>3. Owed' = Owed
    BY <1>4, <1>6, <2>1 DEF Owed
  <2>4. PICK n : n = NextBug
    OBVIOUS
  <2>5. Binding(n)' = binding /\ n \in OpenBugs'
    BY <1>3, <1>4, <1>6, <2>4 DEF Binding
  <2>6. (\E t \in Undone' : t[1] = "story") => \E t \in Undone : t[1] = "story"
    BY <1>1, <1>6
  <2>7. \A c \in Owed : binding.of = c => Awaited(c)'
    BY <2>5 DEF Awaited
  <2> QED
    BY <2>2, <2>3, <2>6, <2>7 DEF InSight
<1>12. accepted' = accepted /\ gate' = gate /\ changeSet' = changeSet
  BY DEF record
<1> QED
  BY <1>1, <1>4, <1>5, <1>7, <1>8, <1>9, <1>10, <1>11, <1>12, TicketStepKeeps DEF RunParts

\* A failure goes back to the ticket, or to a Bug of the Step that has the code.
LEMMA RouteKeeps ==
    ASSUME RunInv, Route, UNCHANGED ends
    PROVE  RunInv'
<1>1. At("route") /\ Go("loop") /\ UNCHANGED <<git, changeSet, gate, record, made>>
  BY DEF Route, counts
<1>2. /\ run.t \in DOMAIN ticket /\ run.t \in Undone /\ run.todo = {} /\ Unrecorded = {}
      /\ ticket \in [DOMAIN ticket -> TheTickets]
  BY <1>1 DEF RunInv, AtWork, Marked, Pending, Undone, DomainTypes
<1>3. CASE UNCHANGED ticket
  <2>1. Still /\ UNCHANGED <<left, cut, skipped>>
    BY <1>1, <1>3 DEF Still, domain, ends
  <2>2. run' \in TheRuns /\ run'.at = "loop" /\ run'.todo = run.todo
    BY <1>1, RunIs DEF TheRuns, Labels
  <2>3. AtWork' /\ Placed' /\ ToRestore' /\ Integrating' /\ Candidates' /\ Judged'
    BY <1>2, <2>2 DEF AtWork, Placed, ToRestore, Integrating, Candidates, Judged
  <2>4. OneBug'
    BY <1>3, <2>2 DEF RunInv, OneBug, OpenBugs, Undone
  <2>5. \A c \in Owed : Awaited(c) => Awaited(c)'
    BY <1>1, <1>3 DEF Awaited, OpenBugs, Undone, Binding
  <2> QED
    BY <1>1, <1>2, <2>1, <2>2, <2>3, <2>4, <2>5, StillKeeps DEF RunParts
<1>4. CASE ticket[run.t].step > CodeStep /\ OpenBug(Binding(run.t))
  <2>1. ~ IsCode(run.t)
    BY <1>4, ProjectAssumption DEF IsCode
  <2>2. OpenBugs = {} /\ Owed = {} /\ run.t[1] = "story"
    BY <1>1, <2>1, StoryIs
  <2>3. Binding(run.t) \in TheBindings
    BY <1>2 DEF Binding, TheTickets
  <2>4. Binding(run.t).kind # "gate"
    BY <1>2, <2>2 DEF RunInv, Bound
  <2>5. /\ Binding(run.t).of # None <=> Binding(run.t).kind \in {"ticket", "gate"}
        /\ Binding(run.t).of # None => Binding(run.t).of \in ChangeSetIds
    BY <1>2 DEF RunInv, Bound
  <2> QED
    BY <1>1, <1>2, <1>4, <2>2, <2>3, <2>4, <2>5, NewBugKeeps
<1> QED
  BY <1>3, <1>4 DEF Route

\* A gate that rejects is answered by a Bug, which inherits what was rejected.
LEMMA OpenIntegrationBugKeeps ==
    ASSUME RunInv, OpenIntegrationBug
    PROVE  RunInv'
<1>1. At("bug") /\ OpenBug(RejectedIn) /\ Go("loop") /\ UNCHANGED <<git, changeSet, gate, record, ends, made>>
  BY DEF OpenIntegrationBug, counts
<1>2. /\ run.caller \in {"ticket", "phase"} /\ Unrecorded = {} /\ run.todo \subseteq Unmerged
      /\ ticket \in [DOMAIN ticket -> TheTickets] /\ run \in TheRuns
  BY <1>1 DEF RunInv, Integrating, Marked, Pending, DomainTypes
<1>3. CASE run.caller = "phase"
  <2>1. Undone = {} /\ OpenBugs = {}
    BY <1>1, <1>3 DEF RunInv, OneBug, OpenBugs
  <2>2. Story(CodeStep) \in DOMAIN ticket /\ Story(CodeStep)[1] = "story"
    BY ProjectAssumption DEF RunInv, Bound, Story
  <2>3. RejectedIn = Binding(Story(CodeStep))
    BY <1>3 DEF RejectedIn
  <2>4. RejectedIn \in TheBindings
    BY <1>2, <2>2, <2>3 DEF Binding, TheTickets
  <2>5. RejectedIn.kind # "gate"
    <3>1. Binding(Story(CodeStep)).kind = "gate" => Story(CodeStep)[1] = "bug"
      BY <2>2 DEF RunInv, Bound
    <3> QED
      BY <2>2, <2>3, <3>1
  <2>6. /\ RejectedIn.of # None <=> RejectedIn.kind \in {"ticket", "gate"}
        /\ RejectedIn.of # None => RejectedIn.of \in ChangeSetIds
    BY <2>2, <2>3 DEF RunInv, Bound
  <2> QED
    BY <1>1, <1>2, <2>1, <2>4, <2>5, <2>6, NewBugKeeps
<1>4. CASE run.caller = "ticket" /\ run.caller # "phase"
  <2>1. OpenBugs = {} /\ run.c \in ChangeSetIds /\ run.c \in ChangeSetNames /\ run.c # None
    BY <1>1, <1>4, InUseIs, NoneIsApart DEF RunInv, OneBug, Candidates
  <2>2. \A c \in Owed : Awaited(c) => c = run.c
    BY <1>1, <1>4, <2>1 DEF Awaited
  <2>3. CASE run.b = None
    <3>1. RejectedIn = InChangeSet(run.c)
      BY <1>4, <2>3 DEF RejectedIn
    <3>2. /\ RejectedIn \in TheBindings /\ RejectedIn.kind = "ticket" /\ RejectedIn.of = run.c
      BY <2>1, <3>1 DEF InChangeSet, TheBindings
    <3> QED
      BY <1>1, <1>2, <2>1, <2>2, <3>2, NewBugKeeps DEF RunInv, InSight
  <2>4. CASE run.b # None
    <3>1. RejectedIn = InGate(run.c, run.b)
      BY <1>4, <2>4 DEF RejectedIn
    <3>2. run.b \in Names
      BY <1>2, <2>4 DEF TheRuns
    <3>3. /\ RejectedIn \in TheBindings /\ RejectedIn.kind = "gate" /\ RejectedIn.of = run.c
          /\ RejectedIn.branch = run.b
      BY <2>1, <3>1, <3>2 DEF InGate, TheBindings
    <3>4. /\ run.b \in DOMAIN branch \cap GateBranches /\ run.b[2] = run.c
          /\ Content(branch[changeSet[run.c].source]) \subseteq Content(branch[run.b])
      BY <1>1, <1>4, <2>4 DEF RunInv, Candidates, Source
    <3> QED
      BY <1>1, <1>2, <2>1, <2>2, <3>3, <3>4, NewBugKeeps DEF RunInv, InSight
  <2> QED
    BY <2>3, <2>4
<1> QED
  BY <1>2, <1>3, <1>4

-----------------------------------------------------------------------------
(* Where a ticket works.                                                    *)

\* Tickets are bound to change sets, and change sets are added or given the candidate of
\* a gate for their source.
LEMMA BindStepKeeps ==
    ASSUME RunInv, UNCHANGED <<branch, staged, record, ends, made>>, GitTypes', tree'[Main] = tree[Main],
           DomainTypes', Sources', Bound', RunParts', InSight', Unrecorded = {},
           ChangeSetIds \subseteq ChangeSetIds',
           \A d \in ChangeSetIds :
                /\ changeSet'[d].state = changeSet[d].state /\ gate'[d] = gate[d]
                /\ \/ changeSet'[d].source = changeSet[d].source
                   \/ /\ Active(d)
                      /\ Content(branch[changeSet[d].source]) \subseteq Content(branch[changeSet'[d].source]),
           \A d \in ChangeSetIds' \ ChangeSetIds :
                changeSet'[d].state = "developing" /\ gate'[d].tgt = <<>> /\ gate'[d].status = "none",
           DOMAIN ticket' = DOMAIN ticket,
           \A t \in DOMAIN ticket : ticket'[t].state = ticket[t].state,
           \A t \in OpenBugs : ticket'[t].binding.kind # "gate",
           run.at \notin {"judge", "persist"}, run'.at \notin {"judge", "verified", "persist"},
           run.at \in Preserving <=> run'.at \in Preserving, run.at \in Preserving => run'.base = run.base
    PROVE  RunInv'
<1>1. UNCHANGED <<accepted, by, left, cut, skipped>> /\ Marks' = Marks
  BY DEF record, ends, Marks
<1>2. OpenBugs' = OpenBugs
  BY DEF OpenBugs, Undone
<1>3. Unmerged \subseteq Unmerged'
  BY DEF Unmerged, Active
<1>4. Marked'
  <2>1. \A x \in ChangeSetIds' : MarksOf(gate'[x].tgt) \subseteq Marks
    <3> SUFFICES ASSUME NEW x \in ChangeSetIds' PROVE MarksOf(gate'[x].tgt) \subseteq Marks
      OBVIOUS
    <3>1. CASE x \in ChangeSetIds
      BY <3>1 DEF RunInv, Marked
    <3>2. CASE x \notin ChangeSetIds
      <4>1. MarksOf(<<>>) = {}
        BY DEF MarksOf
      <4> QED
        BY <3>2, <4>1
    <3> QED
      BY <3>1, <3>2
  <2>2. Unrecorded' = {}
    BY <1>1 DEF RunInv, Marked, Unrecorded, Active
  <2> QED
    BY <1>1, <2>1, <2>2 DEF RunInv, Marked
<1>5. Landing'
  <2>1. ASSUME NEW c \in ChangeSetIds', ~ Active(c)' \/ c \in Marks
        PROVE  /\ c \in ChangeSetIds /\ ~ Active(c)
               /\ changeSet'[c].source = changeSet[c].source
    <3>1. c \in ChangeSetIds
      BY <2>1 DEF RunInv, Marked, Active
    <3>2. ~ Active(c)
      BY <2>1, <3>1 DEF Unrecorded, Active
    <3> QED
      BY <3>1, <3>2
  <2>2. \A c \in ChangeSetIds' : ~ Active(c)' \/ c \in Marks =>
            Content(branch[changeSet'[c].source]) \subseteq Content(branch[Main])
    BY <2>1 DEF RunInv, Landing, Holds
  <2>3. run'.at \in Preserving => \A c \in ChangeSetIds' : ~ Active(c)' =>
            Content(branch[changeSet'[c].source]) \subseteq Content(run'.base)
    BY <2>1 DEF RunInv, Landing
  <2> QED
    BY <1>1, <2>2, <2>3 DEF Landing, Holds
<1>6. Clear'
  <2>1. \A c \in ChangeSetIds' : gate'[c].status = "passed" => Content(gate'[c].src) \subseteq accepted
    BY DEF RunInv, Clear
  <2> QED
    BY <1>1, <2>1 DEF RunInv, Clear
<1>7. Delivering'
  <2>1. \A c \in Unmerged : Content(branch[changeSet[c].source]) \subseteq Content(branch[changeSet'[c].source])
    BY DEF Unmerged
  <2>2. NoWorkLost'
    BY <1>1, <1>3, <2>1 DEF RunInv, Delivering, NoWorkLost
  <2>3. run'.at \in Preserving => \A t \in DOMAIN by :
            \/ by[t] \in Content(run'.base)
            \/ \E c \in Unmerged' : by[t] \in Content(branch[changeSet'[c].source])
    BY <1>3, <2>1 DEF RunInv, Delivering
  <2>4. \A t \in OpenBugs' : Binding(t)'.kind # "gate"
    BY <1>2 DEF Binding
  <2> QED
    BY <1>1, <2>2, <2>3, <2>4 DEF Delivering
<1> QED
  BY <1>4, <1>5, <1>6, <1>7 DEF RunInv, RunParts

\* The change sets keep their names and their branches.
LEMMA SourcesStay ==
    ASSUME RunInv, ChangeSetIds' = ChangeSetIds, branch' = branch, DOMAIN ticket' = DOMAIN ticket,
           \A d \in ChangeSetIds :
                /\ changeSet'[d].root = changeSet[d].root
                /\ changeSet[d].tickets \subseteq changeSet'[d].tickets
                /\ changeSet'[d].source \in DOMAIN branch \cap OwnBranches(d)
    PROVE  Sources'
<1>1. \A r : {d \in ChangeSetIds' : changeSet'[d].root = r} = {d \in ChangeSetIds : changeSet[d].root = r}
  OBVIOUS
<1>2. \A c \in ChangeSetIds : {d \in ChangeSetIds' : changeSet'[d].root = c[1]}
                                = {d \in ChangeSetIds : changeSet[d].root = c[1]}
  BY <1>1
<1> SUFFICES ASSUME NEW c \in ChangeSetIds
             PROVE  /\ changeSet'[c].root = c[1] /\ c[1] \in DOMAIN ticket /\ c[1] \in changeSet'[c].tickets
                    /\ c[2] <= Cardinality({d \in ChangeSetIds' : changeSet'[d].root = c[1]})
                    /\ changeSet'[c].source \in DOMAIN branch \cap OwnBranches(c)
  BY DEF Sources
<1>3. /\ changeSet[c].root = c[1] /\ c[1] \in DOMAIN ticket /\ c[1] \in changeSet[c].tickets
      /\ c[2] <= Cardinality({d \in ChangeSetIds : changeSet[d].root = c[1]})
  BY DEF RunInv, Sources
<1> QED
  BY <1>2, <1>3

\* No ticket but the one at work goes on in its change set, and what is owed waits for it.
LEMMA OnlyMine ==
    ASSUME RunInv, run.at \in Developing \ {"verified"}
    PROVE  /\ run.t \in DOMAIN ticket /\ run.t \in Tickets /\ ticket[run.t].state = "open"
           /\ run.todo = {} /\ run.caller = None /\ OpenBugs \subseteq {run.t} /\ Unrecorded = {}
           /\ (\E t \in Undone : t[1] = "story") =>
                \A c \in Owed : Binding(run.t).of = c /\ run.t \in OpenBugs
<1>1. /\ run.t \in DOMAIN ticket /\ run.t \in Tickets /\ ticket[run.t].state = "open"
      /\ run.todo = {} /\ run.caller = None /\ OpenBugs \subseteq {run.t}
  BY DEF RunInv, AtWork, DomainTypes, OneBug
<1>2. Unrecorded = {}
  BY DEF RunInv, Marked, Pending
<1>3. \A c \in Owed : Awaited(c) => \E t \in OpenBugs : Binding(t).of = c
  BY DEF Awaited
<1> QED
  BY <1>1, <1>2, <1>3 DEF RunInv, InSight

\* A ticket goes on in the change set it is bound to, or in the one of its lineage.
LEMMA UseChangeSetKeeps ==
    ASSUME RunInv, UseChangeSet, UNCHANGED ends
    PROVE  RunInv'
<1> DEFINE c == TheChangeSet(run.t)
<1>1. /\ At("scope") /\ InItsChangeSet(run.t)
      /\ UNCHANGED <<branch, staged, record, ends, made>> /\ gate' = gate
      /\ tree' = Present(changeSet[c].source)
      /\ changeSet' = [changeSet EXCEPT ![c].tickets = @ \cup {run.t}]
      /\ ticket' = [ticket EXCEPT ![run.t].binding = InChangeSet(c)]
      /\ run' = [run EXCEPT !.at = "baseline", !.b = changeSet[c].source]
  BY DEF UseChangeSet, BoundTo, counts
<1>2. /\ run.t \in DOMAIN ticket /\ run.t \in Tickets /\ ticket[run.t].state = "open"
      /\ run.todo = {} /\ run.caller = None /\ OpenBugs \subseteq {run.t} /\ Unrecorded = {}
      /\ (\E t \in Undone : t[1] = "story") =>
            \A d \in Owed : Binding(run.t).of = d /\ run.t \in OpenBugs
  BY <1>1, OnlyMine
<1>3. Follows(run.t) => Binding(run.t).of \in ChangeSetIds
  BY <1>2 DEF RunInv, Bound, Follows
<1>4. c \in Unmerged
  BY <1>1, <1>3, InheritedIs DEF RunInv, InItsChangeSet
<1>5. \A d \in Unmerged : Binding(run.t).of = d => c = d
  <2>1. \A d \in Unmerged : d # None /\ Active(d)
    BY NoneIsApart DEF Unmerged, RunInv, DomainTypes
  <2> QED
    BY <2>1 DEF TheChangeSet, Follows
<1> HIDE DEF c
<1>6. /\ c \in ChangeSetIds /\ c \in ChangeSetNames /\ c # None /\ changeSet[c].source \in Names \ {Main}
      /\ changeSet[c].source \in DOMAIN branch
  BY <1>4, InUseIs, NoneIsApart DEF Unmerged
<1>7. GitTypes' /\ tree'[Main] = tree[Main] /\ changeSet[c].source \in DOMAIN tree'
  <2>1. CASE changeSet[c].source \in DOMAIN tree
    BY <1>1, <2>1 DEF Present, RunInv, GitTypes
  <2>2. CASE changeSet[c].source \notin DOMAIN tree
    <3>1. tree' = [y \in DOMAIN tree \cup {changeSet[c].source} |->
                    IF y = changeSet[c].source THEN {} ELSE tree[y]]
      BY <1>1, <2>2 DEF Present, With
    <3> QED
      BY <1>1, <1>6, <3>1 DEF RunInv, GitTypes
  <2> QED
    BY <2>1, <2>2
<1>8. InChangeSet(c) \in TheBindings /\ InChangeSet(c).kind = "ticket" /\ InChangeSet(c).of = c
  BY <1>6 DEF InChangeSet, TheBindings
<1>9. /\ DOMAIN ticket' = DOMAIN ticket /\ ticket' \in [DOMAIN ticket -> TheTickets]
      /\ \A t \in DOMAIN ticket : /\ ticket'[t].step = ticket[t].step /\ ticket'[t].state = ticket[t].state
                                  /\ ticket'[t].parent = ticket[t].parent
                                  /\ t # run.t => ticket'[t].binding = ticket[t].binding
      /\ ticket'[run.t].binding = InChangeSet(c)
  <2>1. ticket \in [DOMAIN ticket -> TheTickets]
    BY DEF RunInv, DomainTypes
  <2> QED
    BY <1>1, <1>2, <1>8, <2>1 DEF TheTickets
<1>10. /\ ChangeSetIds' = ChangeSetIds /\ changeSet' \in [DOMAIN changeSet' -> TheChangeSets]
       /\ \A d \in ChangeSetIds : /\ changeSet'[d].root = changeSet[d].root
                                  /\ changeSet'[d].source = changeSet[d].source
                                  /\ changeSet'[d].state = changeSet[d].state
                                  /\ d # c => changeSet'[d].tickets = changeSet[d].tickets
       /\ changeSet'[c].tickets = changeSet[c].tickets \cup {run.t}
  <2>1. changeSet \in [DOMAIN changeSet -> TheChangeSets]
    BY DEF RunInv, DomainTypes
  <2> QED
    BY <1>1, <1>2, <1>6, <2>1 DEF TheChangeSets, ChangeSetIds
<1>11. /\ run' \in TheRuns /\ run'.at = "baseline" /\ run'.b = changeSet[c].source /\ run'.t = run.t
       /\ run'.todo = run.todo /\ run'.caller = run.caller
  BY <1>1, <1>6, RunIs DEF TheRuns, Labels
<1>12. DomainTypes'
  BY <1>1, <1>9, <1>10, <1>11 DEF RunInv, DomainTypes, ChangeSetIds
<1>13. Sources'
  <2>1. \A d \in ChangeSetIds : changeSet[d].tickets \subseteq changeSet'[d].tickets
    BY <1>10
  <2>2. \A d \in ChangeSetIds : changeSet'[d].source \in DOMAIN branch \cap OwnBranches(d)
    BY <1>10 DEF RunInv, Sources
  <2> QED
    BY <1>1, <1>9, <1>10, <2>1, <2>2, SourcesStay
<1>14. Bound'
  BY <1>1, <1>6, <1>8, <1>9, <1>10, BoundStays
<1>15. Unmerged' = Unmerged /\ Undone' = Undone /\ OpenBugs' = OpenBugs
  BY <1>9, <1>10 DEF Unmerged, Active, Undone, OpenBugs
<1>16. Binding(run.t)' = InChangeSet(c)
  BY <1>9, <1>11 DEF Binding
<1>17. AtWork'
  <2>1. run'.b \in DOMAIN tree' \cap DOMAIN branch' /\ c \in Unmerged' /\ changeSet'[c].source = run'.b
    BY <1>1, <1>4, <1>6, <1>7, <1>10, <1>11, <1>15
  <2>2. \E d \in Unmerged' : changeSet'[d].source = run'.b
    BY <2>1
  <2>3. run'.t \in DOMAIN ticket' /\ ticket'[run'.t].state = "open" /\ Binding(run.t)'.kind # "gate"
    BY <1>2, <1>8, <1>9, <1>11, <1>16
  <2> QED
    BY <1>2, <1>11, <2>1, <2>2, <2>3 DEF AtWork
<1>18. Placed'
  BY <1>6, <1>8, <1>10, <1>11, <1>15, <1>16 DEF Placed
<1>19. ToRestore' /\ Integrating' /\ Candidates' /\ Judged'
  BY <1>2, <1>11 DEF ToRestore, Integrating, Candidates, Judged
<1>20. OneBug'
  BY <1>2, <1>11, <1>15 DEF OneBug
<1>21. InSight'
  <2>1. ASSUME NEW d \in Unmerged, NEW t \in changeSet'[d].tickets
        PROVE  t \in DOMAIN ticket /\ ticket'[t].binding.of = d
    <3>1. CASE t \in changeSet[d].tickets
      <4>1. t \in DOMAIN ticket /\ Binding(t).of = d
        BY <3>1 DEF RunInv, InSight, Together
      <4>2. CASE t = run.t
        BY <1>5, <1>8, <1>9, <4>1, <4>2
      <4>3. CASE t # run.t
        BY <1>9, <4>1, <4>3 DEF Binding
      <4> QED
        BY <4>2, <4>3
    <3>2. CASE t \notin changeSet[d].tickets
      <4>1. d = c /\ t = run.t
        BY <1>10, <3>2 DEF Unmerged
      <4> QED
        BY <1>2, <1>8, <1>9, <4>1
    <3> QED
      BY <3>1, <3>2
  <2>2. Together'
    BY <1>9, <1>15, <2>1 DEF Together, Binding
  <2>3. ASSUME NEW d \in Owed' PROVE d \in Owed
    <3>1. d \in Unmerged /\ d \notin cut \cup skipped
      BY <1>1, <1>15 DEF Owed, ends
    <3>2. PICK t \in changeSet'[d].tickets : ticket'[t].state = "done"
      BY DEF Owed
    <3>3. t \in DOMAIN ticket /\ ticket[t].state = "done"
      BY <1>9, <2>1, <3>1, <3>2
    <3>4. t # run.t
      BY <1>2, <3>3
    <3>5. t \in changeSet[d].tickets
      BY <1>10, <3>1, <3>4 DEF Unmerged
    <3> QED
      BY <3>1, <3>3, <3>5 DEF Owed
  <2>4. ASSUME NEW d \in Owed', \E t \in Undone' : t[1] = "story" PROVE Awaited(d)'
    <3>1. Binding(run.t).of = d /\ run.t \in OpenBugs /\ d \in Unmerged
      BY <1>2, <1>15, <2>3, <2>4 DEF Owed
    <3>2. d = c
      BY <1>5, <3>1
    <3>3. PICK u : u = run.t
      OBVIOUS
    <3>4. u \in OpenBugs' /\ Binding(u)'.of = d
      BY <1>8, <1>9, <1>15, <3>1, <3>2, <3>3 DEF Binding
    <3> QED
      BY <3>4 DEF Awaited
  <2> QED
    BY <2>2, <2>4 DEF InSight
<1>22. \A d \in ChangeSetIds : gate'[d] = gate[d]
  BY <1>1
<1>23. \A t \in OpenBugs : ticket'[t].binding.kind # "gate"
  BY <1>2, <1>8, <1>9
<1> QED
  BY <1>1, <1>2, <1>7, <1>9, <1>10, <1>11, <1>12, <1>13, <1>14, <1>17, <1>18, <1>19, <1>20, <1>21, <1>22,
     <1>23, BindStepKeeps DEF RunParts

\* The candidate of a gate becomes the source of its change set.
LEMMA PromoteKeeps ==
    ASSUME RunInv, Promote, UNCHANGED ends
    PROVE  RunInv'
<1> DEFINE c == Binding(run.t).of
           b == Binding(run.t).branch
           root == changeSet[c].root
<1>1. /\ At("promote") /\ UNCHANGED <<branch, tree, staged, record, ends, made>> /\ gate' = gate
      /\ changeSet' = [changeSet EXCEPT ![c].source = b, ![c].tickets = @ \cup {run.t}]
      /\ ticket' = [x \in DOMAIN ticket |-> IF x \in {run.t, root}
                        THEN [ticket[x] EXCEPT !.binding = InChangeSet(c)] ELSE ticket[x]]
      /\ run' = [run EXCEPT !.at = "baseline", !.b = b]
  BY DEF Promote, counts, git
<1>2. /\ run.t \in DOMAIN ticket /\ run.t \in Tickets /\ ticket[run.t].state = "open"
      /\ run.todo = {} /\ run.caller = None /\ OpenBugs \subseteq {run.t} /\ Unrecorded = {}
      /\ (\E t \in Undone : t[1] = "story") => \A d \in Owed : c = d /\ run.t \in OpenBugs
  BY <1>1, OnlyMine
<1>3. /\ Binding(run.t).kind = "gate" /\ Follows(run.t) /\ b \in DOMAIN tree
      /\ b \in DOMAIN branch \cap GateBranches /\ b[2] = c /\ c \in ChangeSetIds /\ c # None /\ run.t[1] = "bug"
  BY <1>1, <1>2 DEF RunInv, AtWork, Bound, Follows
<1>4. /\ c \in Unmerged /\ c \in ChangeSetNames /\ b \in OwnBranches(c) /\ b \in Names \ {Main}
      /\ Content(branch[changeSet[c].source]) \subseteq Content(branch[b])
  <2>1. run.t \in OpenBugs
    BY <1>2, <1>3 DEF OpenBugs, Undone
  <2>2. Content(branch[changeSet[c].source]) \subseteq Content(branch[b])
    BY <1>3, <2>1 DEF RunInv, Delivering
  <2> QED
    BY <1>3, <2>2, InUseIs, NoneIsApart DEF Unmerged, Follows, OwnBranches, Names
<1>5. root = c[1] /\ root \in DOMAIN ticket /\ root \in changeSet[c].tickets /\ Binding(root).of = c
  BY <1>3, <1>4 DEF RunInv, Sources, InSight, Together
<1> HIDE DEF c, b, root
<1>6. InChangeSet(c) \in TheBindings /\ InChangeSet(c).kind = "ticket" /\ InChangeSet(c).of = c
  BY <1>4 DEF InChangeSet, TheBindings
<1>7. /\ DOMAIN ticket' = DOMAIN ticket /\ ticket' \in [DOMAIN ticket -> TheTickets]
      /\ \A t \in DOMAIN ticket : /\ ticket'[t].step = ticket[t].step /\ ticket'[t].state = ticket[t].state
                                  /\ ticket'[t].parent = ticket[t].parent
                                  /\ t \notin {run.t, root} => ticket'[t].binding = ticket[t].binding
      /\ ticket'[run.t].binding = InChangeSet(c) /\ ticket'[root].binding = InChangeSet(c)
  <2>1. ticket \in [DOMAIN ticket -> TheTickets]
    BY DEF RunInv, DomainTypes
  <2> QED
    BY <1>1, <1>2, <1>5, <1>6, <2>1 DEF TheTickets
<1>8. /\ ChangeSetIds' = ChangeSetIds /\ changeSet' \in [DOMAIN changeSet' -> TheChangeSets]
      /\ \A d \in ChangeSetIds : /\ changeSet'[d].root = changeSet[d].root
                                 /\ changeSet'[d].state = changeSet[d].state
                                 /\ d # c => /\ changeSet'[d].tickets = changeSet[d].tickets
                                             /\ changeSet'[d].source = changeSet[d].source
      /\ changeSet'[c].tickets = changeSet[c].tickets \cup {run.t} /\ changeSet'[c].source = b
  <2>1. changeSet \in [DOMAIN changeSet -> TheChangeSets] /\ changeSet[c] \in TheChangeSets
    BY <1>3 DEF RunInv, DomainTypes, ChangeSetIds
  <2>2. /\ DOMAIN changeSet' = DOMAIN changeSet
        /\ \A d \in ChangeSetIds : d # c => changeSet'[d] = changeSet[d]
    BY <1>1 DEF ChangeSetIds
  <2>3. changeSet'[c] = [changeSet[c] EXCEPT !.source = b, !.tickets = @ \cup {run.t}]
    BY <1>1, <1>3, <2>1 DEF ChangeSetIds, TheChangeSets
  <2>4. /\ changeSet'[c] \in TheChangeSets /\ changeSet'[c].root = changeSet[c].root
        /\ changeSet'[c].state = changeSet[c].state /\ changeSet'[c].source = b
        /\ changeSet'[c].tickets = changeSet[c].tickets \cup {run.t}
    <3> DEFINE more == changeSet[c].tickets \cup {run.t}
    <3>1. more \in SUBSET Tickets /\ b \in Names
      BY <1>2, <1>4, <2>1 DEF TheChangeSets
    <3>2. changeSet'[c] = [changeSet[c] EXCEPT !.source = b, !.tickets = more]
      BY <2>1, <2>3 DEF TheChangeSets
    <3> HIDE DEF more
    <3>3. /\ changeSet'[c] \in TheChangeSets /\ changeSet'[c].root = changeSet[c].root
          /\ changeSet'[c].state = changeSet[c].state /\ changeSet'[c].source = b
          /\ changeSet'[c].tickets = more
      BY <2>1, <3>1, <3>2 DEF TheChangeSets
    <3> QED
      BY <3>3 DEF more
  <2>5. changeSet' \in [DOMAIN changeSet' -> TheChangeSets]
    BY <1>1, <2>1, <2>2, <2>4 DEF ChangeSetIds
  <2> QED
    BY <1>1, <1>3, <2>1, <2>2, <2>4, <2>5 DEF ChangeSetIds
<1>9. /\ run' \in TheRuns /\ run'.at = "baseline" /\ run'.b = b /\ run'.t = run.t
      /\ run'.todo = run.todo /\ run'.caller = run.caller
  BY <1>1, <1>4, RunIs DEF TheRuns, Labels
<1>10. GitTypes' /\ DomainTypes'
  BY <1>1, <1>7, <1>8, <1>9 DEF RunInv, GitTypes, DomainTypes, ChangeSetIds
<1>11. Sources'
  <2>1. \A d \in ChangeSetIds : changeSet[d].tickets \subseteq changeSet'[d].tickets
    BY <1>8
  <2>2. ASSUME NEW d \in ChangeSetIds PROVE changeSet'[d].source \in DOMAIN branch \cap OwnBranches(d)
    <3>1. CASE d = c
      BY <1>3, <1>4, <1>8, <3>1
    <3>2. CASE d # c
      <4>1. changeSet'[d].source = changeSet[d].source
        BY <1>8, <3>2
      <4> QED
        BY <4>1 DEF RunInv, Sources
    <3> QED
      BY <3>1, <3>2
  <2> QED
    BY <1>1, <1>7, <1>8, <2>1, <2>2, SourcesStay
<1>12. Bound'
  BY <1>1, <1>3, <1>6, <1>7, <1>8, BoundStays
<1>13. Unmerged' = Unmerged /\ Undone' = Undone /\ OpenBugs' = OpenBugs
  BY <1>7, <1>8 DEF Unmerged, Active, Undone, OpenBugs
<1>14. Binding(run.t)' = InChangeSet(c)
  BY <1>7, <1>9 DEF Binding
<1>15. AtWork'
  <2>1. run'.b \in DOMAIN tree' \cap DOMAIN branch' /\ c \in Unmerged' /\ changeSet'[c].source = run'.b
    BY <1>1, <1>3, <1>4, <1>8, <1>9, <1>13
  <2>2. \E d \in Unmerged' : changeSet'[d].source = run'.b
    BY <2>1
  <2>3. run'.t \in DOMAIN ticket' /\ ticket'[run'.t].state = "open" /\ Binding(run.t)'.kind # "gate"
    BY <1>2, <1>6, <1>7, <1>9, <1>14
  <2> QED
    BY <1>2, <1>9, <2>1, <2>2, <2>3 DEF AtWork
<1>16. Placed'
  BY <1>4, <1>6, <1>8, <1>9, <1>13, <1>14 DEF Placed
<1>17. ToRestore' /\ Integrating' /\ Candidates' /\ Judged'
  BY <1>2, <1>9 DEF ToRestore, Integrating, Candidates, Judged
<1>18. OneBug'
  BY <1>2, <1>9, <1>13 DEF OneBug
<1>19. InSight'
  <2>1. ASSUME NEW d \in Unmerged, NEW t \in changeSet'[d].tickets
        PROVE  t \in DOMAIN ticket /\ ticket'[t].binding.of = d
    <3>1. CASE t \in changeSet[d].tickets
      <4>1. t \in DOMAIN ticket /\ Binding(t).of = d
        BY <3>1 DEF RunInv, InSight, Together
      <4>2. CASE t \in {run.t, root}
        BY <1>5, <1>6, <1>7, <4>1, <4>2 DEF c
      <4>3. CASE t \notin {run.t, root}
        BY <1>7, <4>1, <4>3 DEF Binding
      <4> QED
        BY <4>2, <4>3
    <3>2. CASE t \notin changeSet[d].tickets
      <4>1. d = c /\ t = run.t
        BY <1>8, <3>2 DEF Unmerged
      <4> QED
        BY <1>2, <1>6, <1>7, <4>1
    <3> QED
      BY <3>1, <3>2
  <2>2. Together'
    BY <1>7, <1>13, <2>1 DEF Together, Binding
  <2>3. ASSUME NEW d \in Owed' PROVE d \in Owed
    <3>1. d \in Unmerged /\ d \notin cut \cup skipped
      BY <1>1, <1>13 DEF Owed, ends
    <3>2. PICK t \in changeSet'[d].tickets : ticket'[t].state = "done"
      BY DEF Owed
    <3>3. t \in DOMAIN ticket /\ ticket[t].state = "done"
      BY <1>7, <2>1, <3>1, <3>2
    <3>4. t # run.t
      BY <1>2, <3>3
    <3>5. t \in changeSet[d].tickets
      BY <1>8, <3>1, <3>4 DEF Unmerged
    <3> QED
      BY <3>1, <3>3, <3>5 DEF Owed
  <2>4. ASSUME NEW d \in Owed', \E t \in Undone' : t[1] = "story" PROVE Awaited(d)'
    <3>1. d = c /\ run.t \in OpenBugs
      BY <1>2, <1>13, <2>3, <2>4
    <3>2. PICK u : u = run.t
      OBVIOUS
    <3>3. u \in OpenBugs' /\ Binding(u)'.of = d
      BY <1>6, <1>7, <1>13, <3>1, <3>2 DEF Binding
    <3> QED
      BY <3>3 DEF Awaited
  <2> QED
    BY <2>2, <2>4 DEF InSight
<1>20. \A d \in ChangeSetIds :
            /\ changeSet'[d].state = changeSet[d].state /\ gate'[d] = gate[d]
            /\ \/ changeSet'[d].source = changeSet[d].source
               \/ /\ Active(d)
                  /\ Content(branch[changeSet[d].source]) \subseteq Content(branch[changeSet'[d].source])
  BY <1>1, <1>4, <1>8 DEF Unmerged
<1>21. \A t \in OpenBugs : ticket'[t].binding.kind # "gate"
  BY <1>2, <1>6, <1>7
<1> QED
  BY <1>1, <1>2, <1>7, <1>8, <1>9, <1>10, <1>11, <1>12, <1>15, <1>16, <1>17, <1>18, <1>19, <1>20, <1>21,
     BindStepKeeps DEF RunParts

\* The record of a new change set for the ticket at work and the root of its lineage.
LEMMA RecordIs ==
    ASSUME RunInv, NEW root \in DOMAIN ticket, run.t \in DOMAIN ticket, RecordChangeSet(root),
           UNCHANGED <<git, made>>, run' \in TheRuns, NewBranch(root) \in DOMAIN branch
    PROVE  /\ NewId(root) \notin ChangeSetIds /\ NewId(root) \in ChangeSetNames /\ NewId(root) # None
           /\ ChangeSetIds' = ChangeSetIds \cup {NewId(root)}
           /\ \A d \in ChangeSetIds : changeSet'[d] = changeSet[d] /\ gate'[d] = gate[d]
           /\ changeSet'[NewId(root)].tickets = {root, run.t}
           /\ changeSet'[NewId(root)].state = "developing"
           /\ changeSet'[NewId(root)].source = NewBranch(root)
           /\ gate'[NewId(root)].tgt = <<>> /\ gate'[NewId(root)].status = "none"
           /\ Unmerged' = Unmerged \cup {NewId(root)}
           /\ DOMAIN ticket' = DOMAIN ticket
           /\ \A t \in DOMAIN ticket : /\ ticket'[t].step = ticket[t].step /\ ticket'[t].state = ticket[t].state
                                       /\ t \notin {run.t, root} => ticket'[t].binding = ticket[t].binding
           /\ \A t \in {run.t, root} : /\ ticket'[t].binding.kind = "ticket"
                                       /\ ticket'[t].binding.of = NewId(root)
           /\ Undone' = Undone /\ OpenBugs' = OpenBugs
           /\ DomainTypes' /\ Sources' /\ Bound'
<1> DEFINE c == NewId(root)
           new == [root |-> root, tickets |-> {root, run.t}, state |-> "developing", source |-> NewBranch(root)]
           fresh == [request |-> "none", status |-> "none", src |-> <<>>, tgt |-> <<>>]
<1>1. /\ ticket \in [DOMAIN ticket -> TheTickets] /\ DOMAIN ticket \subseteq Tickets /\ root \in Tickets
      /\ changeSet \in [DOMAIN changeSet -> TheChangeSets] /\ gate \in [DOMAIN changeSet -> TheGates]
      /\ ChangeSetIds \subseteq ChangeSetNames /\ IsFiniteSet(ChangeSetIds) /\ run.t \in Tickets
  BY DEF RunInv, DomainTypes
<1>2. /\ c \in ChangeSetNames \ ChangeSetIds /\ c # None /\ c[1] = root /\ NewBranch(root) \in OwnBranches(c)
      /\ NewBranch(root) \in Names
      /\ c[2] = Cardinality({d \in ChangeSetIds : changeSet[d].root = root}) + 1
  BY <1>1, NewIdIs, NoneIsApart DEF RunInv, Names
<1>3. /\ changeSet' = [d \in DOMAIN changeSet \cup {c} |-> IF d = c THEN new ELSE changeSet[d]]
      /\ gate' = [d \in DOMAIN gate \cup {c} |-> IF d = c THEN fresh ELSE gate[d]]
      /\ ticket' = [x \in DOMAIN ticket |-> IF x \in {run.t, root}
                        THEN [ticket[x] EXCEPT !.binding = InChangeSet(c)] ELSE ticket[x]]
  BY DEF RecordChangeSet, With
<1>4. new \in TheChangeSets /\ fresh \in TheGates
  BY <1>1, <1>2 DEF TheChangeSets, TheGates
<1>5. /\ new.tickets = {root, run.t} /\ new.state = "developing" /\ new.source = NewBranch(root) /\ new.root = root
      /\ fresh.tgt = <<>> /\ fresh.status = "none"
  OBVIOUS
<1> HIDE DEF c, new, fresh
<1>6. InChangeSet(c) \in TheBindings /\ InChangeSet(c).kind = "ticket" /\ InChangeSet(c).of = c
  BY <1>2 DEF InChangeSet, TheBindings
<1>7. /\ ChangeSetIds' = ChangeSetIds \cup {c} /\ changeSet'[c] = new /\ gate'[c] = fresh
      /\ \A d \in ChangeSetIds : changeSet'[d] = changeSet[d] /\ gate'[d] = gate[d]
      /\ changeSet' \in [DOMAIN changeSet' -> TheChangeSets] /\ gate' \in [DOMAIN changeSet' -> TheGates]
  BY <1>1, <1>2, <1>3, <1>4 DEF ChangeSetIds
<1>8. /\ DOMAIN ticket' = DOMAIN ticket /\ ticket' \in [DOMAIN ticket -> TheTickets]
      /\ \A t \in DOMAIN ticket : /\ ticket'[t].step = ticket[t].step /\ ticket'[t].state = ticket[t].state
                                  /\ ticket'[t].parent = ticket[t].parent
                                  /\ t \notin {run.t, root} => ticket'[t].binding = ticket[t].binding
      /\ ticket'[run.t].binding = InChangeSet(c) /\ ticket'[root].binding = InChangeSet(c)
  <2>1. ASSUME NEW x \in DOMAIN ticket
        PROVE  /\ ticket'[x] \in TheTickets
               /\ ticket'[x].step = ticket[x].step /\ ticket'[x].state = ticket[x].state
               /\ ticket'[x].parent = ticket[x].parent
               /\ x \notin {run.t, root} => ticket'[x].binding = ticket[x].binding
               /\ x \in {run.t, root} => ticket'[x].binding = InChangeSet(c)
    <3>1. ticket[x] \in TheTickets
      BY <1>1
    <3>2. ticket'[x] = IF x \in {run.t, root} THEN [ticket[x] EXCEPT !.binding = InChangeSet(c)] ELSE ticket[x]
      BY <1>3
    <3> QED
      BY <1>6, <3>1, <3>2 DEF TheTickets
  <2>2. ticket' = [x \in DOMAIN ticket |-> ticket'[x]] /\ DOMAIN ticket' = DOMAIN ticket
    BY <1>3
  <2> QED
    BY <2>1, <2>2
<1>9. Unmerged' = Unmerged \cup {c}
  BY <1>2, <1>5, <1>7 DEF Unmerged, Active
<1>10. Undone' = Undone /\ OpenBugs' = OpenBugs
  BY <1>8 DEF Undone, OpenBugs
<1>11. DomainTypes'
  <2>1. IsFiniteSet(ChangeSetIds')
    BY <1>1, <1>7, FS_AddElement
  <2> QED
    BY <1>1, <1>2, <1>7, <1>8, <2>1, RunIs DEF DomainTypes
<1>12. Bound'
  BY <1>2, <1>6, <1>7, <1>8, BoundStays DEF git
<1>13. Sources'
  <2> DEFINE Of(r) == {d \in ChangeSetIds : changeSet[d].root = r}
             More(r) == {d \in ChangeSetIds' : changeSet'[d].root = r}
  <2>1. \A r : IsFiniteSet(Of(r)) /\ Cardinality(Of(r)) \in Nat
    BY <1>1, FS_Subset, FS_CardinalityType
  <2>2. More(root) = Of(root) \cup {c} /\ c \notin Of(root)
    BY <1>2, <1>5, <1>7
  <2>3. \A r : r # root => More(r) = Of(r)
    BY <1>5, <1>7
  <2>4. Cardinality(More(root)) = Cardinality(Of(root)) + 1
    <3> HIDE DEF More
    <3>1. IsFiniteSet(Of(root))
      BY <2>1
    <3> HIDE DEF Of
    <3> QED
      BY <2>2, <3>1, FS_AddElement
  <2> SUFFICES ASSUME NEW d \in ChangeSetIds \cup {c}
               PROVE  /\ changeSet'[d].root = d[1] /\ d[1] \in DOMAIN ticket /\ d[1] \in changeSet'[d].tickets
                      /\ d[2] <= Cardinality(More(d[1]))
                      /\ changeSet'[d].source \in DOMAIN branch \cap OwnBranches(d)
    BY <1>7, <1>8 DEF Sources, git
  <2>5. CASE d = c
    <3>1. d[2] <= Cardinality(More(d[1]))
      <4>1. d[1] = root /\ d[2] = Cardinality(Of(root)) + 1
        BY <1>2, <2>5
      <4> HIDE DEF Of, More
      <4> QED
        BY <2>1, <2>4, <4>1
    <3> HIDE DEF Of, More
    <3> QED
      BY <1>2, <1>5, <1>7, <2>5, <3>1
  <2>6. CASE d \in ChangeSetIds
    <3>1. /\ changeSet[d].root = d[1] /\ d[1] \in DOMAIN ticket /\ d[1] \in changeSet[d].tickets
          /\ d[2] <= Cardinality(Of(d[1]))
          /\ changeSet[d].source \in DOMAIN branch \cap OwnBranches(d)
      BY <2>6 DEF RunInv, Sources
    <3>2. d[2] \in Nat
      BY <1>1, <2>6 DEF ChangeSetNames
    <3>3. d[2] <= Cardinality(More(d[1]))
      <4> HIDE DEF Of, More
      <4>1. CASE d[1] = root
        BY <2>1, <2>4, <3>1, <3>2, <4>1
      <4>2. CASE d[1] # root
        BY <2>3, <3>1, <4>2
      <4> QED
        BY <4>1, <4>2
    <3> HIDE DEF Of, More
    <3> QED
      BY <1>7, <2>6, <3>1, <3>3
  <2> QED
    BY <2>5, <2>6
<1> QED
  BY <1>2, <1>5, <1>6, <1>7, <1>8, <1>9, <1>10, <1>11, <1>12, <1>13 DEF c

\* The same, when neither ticket is in a change set that has not landed.
LEMMA RecordKeeps ==
    ASSUME RunInv, NEW root \in DOMAIN ticket, run.at \in {"create", "preserved"}, RecordChangeSet(root),
           UNCHANGED <<git, record, ends, made>>, run' \in TheRuns, NewBranch(root) \in DOMAIN branch,
           RunParts',
           \A d \in Unmerged : /\ root \notin changeSet[d].tickets /\ run.t \notin changeSet[d].tickets
                               /\ Binding(run.t).of # d,
           root = run.t \/ run.t[1] = "bug",
           run'.at \notin {"judge", "verified", "persist"},
           run.at \in Preserving <=> run'.at \in Preserving, run.at \in Preserving => run'.base = run.base
    PROVE  RunInv'
<1>1. /\ run.t \in DOMAIN ticket /\ run.t \in Tickets /\ ticket[run.t].state = "open"
      /\ run.todo = {} /\ run.caller = None /\ OpenBugs \subseteq {run.t} /\ Unrecorded = {}
      /\ (\E t \in Undone : t[1] = "story") =>
            \A d \in Owed : Binding(run.t).of = d /\ run.t \in OpenBugs
  BY OnlyMine
<1> DEFINE c == NewId(root)
<1>2. /\ c \notin ChangeSetIds
      /\ ChangeSetIds' = ChangeSetIds \cup {c}
      /\ \A d \in ChangeSetIds : changeSet'[d] = changeSet[d] /\ gate'[d] = gate[d]
      /\ changeSet'[c].tickets = {root, run.t} /\ changeSet'[c].state = "developing"
      /\ gate'[c].tgt = <<>> /\ gate'[c].status = "none"
      /\ Unmerged' = Unmerged \cup {c}
      /\ DOMAIN ticket' = DOMAIN ticket
      /\ \A t \in DOMAIN ticket : /\ ticket'[t].step = ticket[t].step /\ ticket'[t].state = ticket[t].state
                                  /\ t \notin {run.t, root} => ticket'[t].binding = ticket[t].binding
      /\ \A t \in {run.t, root} : ticket'[t].binding.kind = "ticket" /\ ticket'[t].binding.of = c
      /\ Undone' = Undone /\ OpenBugs' = OpenBugs
      /\ DomainTypes' /\ Sources' /\ Bound'
  BY <1>1, RecordIs
<1> HIDE DEF c
<1>3. GitTypes' /\ UNCHANGED <<branch, tree, staged>>
  BY DEF RunInv, GitTypes, git
<1>4. InSight'
  <2>1. \A d \in Unmerged : d \in ChangeSetIds /\ d # c
    BY <1>2 DEF Unmerged
  <2>2. ASSUME NEW d \in Unmerged', NEW t \in changeSet'[d].tickets
        PROVE  t \in DOMAIN ticket /\ ticket'[t].binding.of = d
    <3>1. CASE d = c
      BY <1>1, <1>2, <3>1
    <3>2. CASE d # c
      <4>1. d \in Unmerged /\ t \in changeSet[d].tickets
        BY <1>2, <2>1, <3>2
      <4>2. t \in DOMAIN ticket /\ Binding(t).of = d /\ t \notin {run.t, root}
        BY <4>1 DEF RunInv, InSight, Together
      <4> QED
        BY <1>2, <4>2 DEF Binding
    <3> QED
      BY <3>1, <3>2
  <2>3. Together'
    BY <1>2, <2>2 DEF Together, Binding
  <2>4. ASSUME NEW d \in Owed', \E t \in Undone' : t[1] = "story" PROVE Awaited(d)'
    <3>1. d \in Unmerged' /\ d \notin cut \cup skipped
      BY DEF Owed, ends
    <3>2. PICK t \in changeSet'[d].tickets : ticket'[t].state = "done"
      BY DEF Owed
    <3>3. t \in DOMAIN ticket /\ ticket[t].state = "done" /\ t # run.t
      BY <1>1, <1>2, <2>2, <3>1, <3>2
    <3>4. CASE d = c
      <4>1. t = root /\ run.t[1] = "bug"
        BY <1>2, <3>2, <3>3, <3>4
      <4>2. run.t \in OpenBugs'
        BY <1>1, <1>2, <4>1 DEF OpenBugs, Undone
      <4>3. PICK u : u = run.t
        OBVIOUS
      <4>4. u \in OpenBugs' /\ Binding(u)'.of = d
        BY <1>2, <3>4, <4>2, <4>3 DEF Binding
      <4> QED
        BY <4>4 DEF Awaited
    <3>5. CASE d # c
      <4>1. d \in Unmerged /\ t \in changeSet[d].tickets
        BY <1>2, <2>1, <3>1, <3>2, <3>5
      <4>2. d \in Owed
        BY <3>1, <3>3, <4>1 DEF Owed
      <4> QED
        BY <1>1, <1>2, <2>4, <4>1, <4>2
    <3> QED
      BY <3>4, <3>5
  <2> QED
    BY <2>3, <2>4 DEF InSight
<1>5. \A t \in OpenBugs : ticket'[t].binding.kind # "gate"
  BY <1>1, <1>2
<1> QED
  BY <1>1, <1>2, <1>3, <1>4, <1>5, BindStepKeeps

LEMMA CreateKeeps ==
    ASSUME RunInv, Create, UNCHANGED ends
    PROVE  RunInv'
<1> DEFINE root == Story(CodeStep)
           c == NewId(root)
<1>1. /\ At("create") /\ RecordChangeSet(root) /\ UNCHANGED <<git, record, ends, made>>
      /\ run' = [run EXCEPT !.at = "baseline", !.b = NewBranch(root)]
  BY DEF Create, counts
<1>2. /\ run.t \in DOMAIN ticket /\ run.t \in Tickets /\ ticket[run.t].state = "open"
      /\ run.todo = {} /\ run.caller = None /\ OpenBugs \subseteq {run.t}
      /\ IsCode(run.t) /\ ~ Follows(run.t) /\ Inherited(run.t) = {}
      /\ NewBranch(root) \in DOMAIN branch \cap DOMAIN tree
  BY <1>1, OnlyMine DEF RunInv, Placed, ToRestore
<1>3. root \in DOMAIN ticket /\ root \in Tickets /\ root # None
  BY ProjectAssumption, NoneIsApart DEF RunInv, Bound, Tickets
<1>4. root = run.t \/ (run.t[1] = "bug" /\ ticket[run.t].parent = root)
  <2>1. CASE run.t[1] = "bug"
    BY <1>2, <2>1 DEF RunInv, Bound
  <2>2. CASE run.t[1] # "bug"
    <3>1. run.t[1] = "story" /\ run.t[2] = CodeStep
      BY <1>2, <2>2, TicketIs DEF RunInv, Bound, IsCode
    <3>2. PICK s \in 1..Steps : run.t = Story(s)
      BY <1>2, <3>1, TicketIs
    <3>3. run.t[2] = s
      BY <3>2 DEF Story
    <3> QED
      BY <3>1, <3>2, <3>3
  <2> QED
    BY <2>1, <2>2
<1>5. /\ run' \in TheRuns /\ run'.at = "baseline" /\ run'.b = NewBranch(root) /\ run'.t = run.t
      /\ run'.todo = run.todo /\ run'.caller = run.caller
  <2>1. NewBranch(root) \in Names /\ run \in TheRuns
    BY <1>2, RunIs DEF RunInv, GitTypes
  <2> HIDE DEF root
  <2> QED
    BY <1>1, <2>1 DEF TheRuns, Labels
<1>6. \A d \in Unmerged : /\ root \notin changeSet[d].tickets /\ run.t \notin changeSet[d].tickets
                          /\ Binding(run.t).of # d
  <2> SUFFICES ASSUME NEW d \in Unmerged
               PROVE  /\ root \notin changeSet[d].tickets /\ run.t \notin changeSet[d].tickets
                      /\ Binding(run.t).of # d
    OBVIOUS
  <2>1. d \in ChangeSetIds /\ Active(d) /\ d # None
    BY NoneIsApart DEF Unmerged, RunInv, DomainTypes
  <2>2. root \in Lineage(run.t) /\ run.t \in Lineage(run.t)
    BY <1>2, <1>3, <1>4, NoneIsApart DEF Lineage
  <2>3. changeSet[d].tickets \cap Lineage(run.t) = {}
    BY <1>2, <2>1 DEF Inherited
  <2> QED
    BY <1>2, <2>1, <2>2, <2>3 DEF Follows
<1>7. /\ c \in Unmerged' /\ changeSet'[c].tickets = {root, run.t} /\ changeSet'[c].source = NewBranch(root)
      /\ \A t \in {run.t, root} : ticket'[t].binding.kind = "ticket" /\ ticket'[t].binding.of = c
      /\ DOMAIN ticket' = DOMAIN ticket /\ ticket'[run.t].state = "open" /\ OpenBugs' = OpenBugs
  BY <1>1, <1>2, <1>3, <1>5, RecordIs
<1> HIDE DEF c
<1>8. Binding(run.t)' = ticket'[run.t].binding
  BY <1>5 DEF Binding
<1>9. AtWork'
  <2>1. run'.b \in DOMAIN tree' \cap DOMAIN branch' /\ \E d \in Unmerged' : changeSet'[d].source = run'.b
    BY <1>1, <1>2, <1>5, <1>7 DEF git
  <2> QED
    BY <1>2, <1>5, <1>7, <1>8, <2>1 DEF AtWork
<1>10. Placed'
  <2>1. NewBranch(root) # Main /\ c # None
    BY <1>1, <1>2, <1>3, <1>5, RecordIs, NewIdIs, NoneIsApart DEF c, RunInv
  <2> QED
    BY <1>5, <1>7, <1>8, <2>1 DEF Placed
<1>11. ToRestore' /\ Integrating' /\ Candidates' /\ Judged'
  BY <1>2, <1>5 DEF ToRestore, Integrating, Candidates, Judged
<1>12. OneBug'
  BY <1>2, <1>5, <1>7 DEF OneBug
<1> QED
  BY <1>1, <1>2, <1>3, <1>4, <1>5, <1>6, <1>9, <1>10, <1>11, <1>12, RecordKeeps DEF RunParts

\* A candidate on the canonical branch is pinned to a change set of its own.
LEMMA PinKeeps ==
    ASSUME RunInv, Pin, UNCHANGED ends
    PROVE  RunInv'
<1>1. /\ At("preserved") /\ RecordChangeSet(run.t) /\ UNCHANGED <<git, record, ends, made>>
      /\ run' = [run EXCEPT !.at = "restore"]
  BY DEF Pin, counts
<1>2. /\ run.t \in DOMAIN ticket /\ run.t \in Tickets /\ ticket[run.t].state = "open"
      /\ run.todo = {} /\ run.caller = None /\ OpenBugs \subseteq {run.t}
      /\ Binding(run.t).of = None /\ NewBranch(run.t) \in DOMAIN branch
  BY <1>1, OnlyMine DEF RunInv, Placed, ToRestore
<1>3. /\ run' \in TheRuns /\ run'.at = "restore" /\ run'.b = run.b /\ run'.t = run.t
      /\ run'.todo = run.todo /\ run'.caller = run.caller /\ run'.base = run.base
  BY <1>1, RunIs DEF TheRuns, Labels
<1>4. \A d \in Unmerged : run.t \notin changeSet[d].tickets /\ Binding(run.t).of # d
  <2>1. \A d \in Unmerged : d # None
    BY NoneIsApart DEF Unmerged, RunInv, DomainTypes
  <2> QED
    BY <1>2, <2>1 DEF RunInv, InSight, Together
<1>5. /\ ticket'[run.t].binding.kind = "ticket"
      /\ DOMAIN ticket' = DOMAIN ticket /\ ticket'[run.t].state = "open" /\ OpenBugs' = OpenBugs
  BY <1>1, <1>2, <1>3, RecordIs
<1>6. Binding(run.t)' = ticket'[run.t].binding
  BY <1>3 DEF Binding
<1>7. AtWork' /\ Placed'
  BY <1>2, <1>3, <1>5, <1>6 DEF AtWork, Placed
<1>8. ToRestore'
  BY <1>1, <1>3 DEF RunInv, ToRestore, git
<1>9. Integrating' /\ Candidates' /\ Judged'
  BY <1>2, <1>3 DEF Integrating, Candidates, Judged
<1>10. OneBug'
  BY <1>2, <1>3, <1>5 DEF OneBug
<1> QED
  BY <1>1, <1>2, <1>3, <1>4, <1>7, <1>8, <1>9, <1>10, RecordKeeps DEF RunParts

-----------------------------------------------------------------------------
(* The whole run.                                                           *)

LEMMA InitKeeps == Init => RunInv
<1> SUFFICES ASSUME Init PROVE RunInv
  OBVIOUS
<1> DEFINE k == Commit({}, None)
<1>1. /\ branch = [b \in {Main} |-> <<k>>] /\ tree = [b \in {Main} |-> {}] /\ staged = {}
      /\ ticket = [t \in {Story(s) : s \in 1..Steps} |-> OpenTicket(t[2], None, Unbound)]
      /\ changeSet = <<>> /\ gate = <<>> /\ accepted = {} /\ by = <<>> /\ made = 0
      /\ run = Idle /\ left = {} /\ cut = {} /\ skipped = {}
  BY DEF Init, ChangeSetInit, GitInit
<1>2. k \in Commits /\ k.adds = {} /\ k.of = None
  BY CommitIs
<1> HIDE DEF k
<1>3. /\ <<k>> \in Histories /\ Content(<<k>>) = {} /\ MarksOf(<<k>>) = {}
  <2>1. <<k>> \in Seq(Commits) /\ Len(<<k>>) = 1 /\ <<k>>[1] = k /\ <<k>> # <<>>
    BY <1>2
  <2>2. \A i \in 1..Len(<<k>>) : <<k>>[i] = k
    BY <2>1
  <2> QED
    BY <1>2, <2>1, <2>2 DEF Histories, Content, MarksOf
<1>4. GitTypes
  <2>1. IsFiniteSet({Main})
    BY FS_Singleton
  <2> QED
    BY <1>1, <1>3, <2>1 DEF GitTypes, Names
<1>5. ChangeSetIds = {} /\ DOMAIN changeSet = {} /\ DOMAIN gate = {} /\ DOMAIN by = {} /\ Unmerged = {}
  BY <1>1 DEF ChangeSetIds, Unmerged
<1>6. /\ DOMAIN ticket = {Story(s) : s \in 1..Steps} /\ DOMAIN ticket \subseteq Tickets
      /\ \A t \in DOMAIN ticket : t[1] = "story" /\ t[2] \in Nat
      /\ \A t \in DOMAIN ticket : /\ ticket[t] \in TheTickets /\ ticket[t].step = t[2]
                                  /\ ticket[t].binding = Unbound
  <2>1. DOMAIN ticket = {Story(s) : s \in 1..Steps}
    BY <1>1
  <2>2. \A t \in DOMAIN ticket : t \in Tickets /\ t[1] = "story" /\ t[2] \in Nat
    BY <2>1, ProjectAssumption DEF Tickets, Story
  <2>3. Unbound \in TheBindings
    BY DEF Unbound, TheBindings
  <2>4. \A t \in DOMAIN ticket : ticket[t] = OpenTicket(t[2], None, Unbound)
    BY <1>1
  <2>5. \A n \in Nat : /\ OpenTicket(n, None, Unbound) \in TheTickets
                       /\ OpenTicket(n, None, Unbound).step = n
                       /\ OpenTicket(n, None, Unbound).binding = Unbound
    BY <2>3 DEF OpenTicket, TheTickets
  <2> QED
    BY <2>1, <2>2, <2>4, <2>5
<1>7. /\ run.at = "down" /\ run.todo = {} /\ run.caller = None /\ run \in TheRuns
  BY <1>1 DEF Idle, TheRuns, Labels
<1>8. DomainTypes
  <2>1. IsFiniteSet({})
    BY FS_EmptySet
  <2>2. ticket \in [DOMAIN ticket -> TheTickets]
    BY <1>1, <1>6
  <2> QED
    BY <1>1, <1>5, <1>6, <1>7, <2>1, <2>2 DEF DomainTypes, ChangeSetIds
<1>9. Sources
  BY <1>5 DEF Sources
<1>10. Bound
  BY <1>6 DEF Bound, Binding, Unbound
<1>11. AtWork /\ Placed /\ ToRestore /\ Integrating /\ Candidates /\ Judged
  BY <1>7 DEF AtWork, Placed, ToRestore, Integrating, Candidates, Judged
<1>12. OpenBugs = {}
  BY <1>6 DEF OpenBugs, Undone
<1>13. OneBug
  BY <1>7, <1>12 DEF OneBug
<1>14. branch[Main] = <<k>> /\ tree[Main] = {}
  BY <1>1
<1>15. Marked /\ Landing
  <2>1. Marks = {} /\ Unrecorded = {}
    BY <1>3, <1>14 DEF Marks, Unrecorded
  <2> QED
    BY <1>5, <1>7, <2>1 DEF Marked, Landing
<1>16. Clear
  BY <1>1, <1>3, <1>5, <1>7, <1>14 DEF Clear
<1>17. Delivering
  BY <1>5, <1>7, <1>12 DEF Delivering, NoWorkLost
<1>18. InSight
  BY <1>5 DEF InSight, Together, Owed
<1> QED
  BY <1>4, <1>8, <1>9, <1>10, <1>11, <1>13, <1>15, <1>16, <1>17, <1>18 DEF RunInv

LEMMA StutterKeeps ==
    ASSUME RunInv, UNCHANGED vars
    PROVE  RunInv'
<1>1. UNCHANGED <<branch, tree, staged, ticket, changeSet, gate, run, accepted, by, made, left, cut, skipped>>
  BY DEF vars, git, domain, record, counts, ends
<1>2. /\ ChangeSetIds' = ChangeSetIds /\ Unmerged' = Unmerged /\ Undone' = Undone /\ OpenBugs' = OpenBugs
      /\ Marks' = Marks /\ Unrecorded' = Unrecorded /\ Owed' = Owed
  BY <1>1 DEF ChangeSetIds, Unmerged, Active, Undone, OpenBugs, Marks, Unrecorded, Owed
<1>3. GitTypes' /\ DomainTypes' /\ Sources' /\ Bound'
  BY <1>1, <1>2 DEF RunInv, GitTypes, DomainTypes, Sources, Bound, Binding
<1>4. AtWork' /\ Integrating' /\ Candidates'
  BY <1>1, <1>2 DEF RunInv, AtWork, Integrating, Candidates, Binding, Follows, Active, Source
<1>5. Placed' /\ ToRestore'
  BY <1>1, <1>2 DEF RunInv, Placed, ToRestore, Binding, IsCode, Follows, Active, Inherited, Lineage, NewBranch,
     Generation
<1>6. OneBug' /\ Judged'
  BY <1>1, <1>2 DEF RunInv, OneBug, Judged, TheGate, Source
<1>7. Marked' /\ Landing' /\ Clear'
  BY <1>1, <1>2 DEF RunInv, Marked, Landing, Clear, Pending, Holds, Active
<1>8. Delivering' /\ InSight'
  BY <1>1, <1>2 DEF RunInv, Delivering, NoWorkLost, InSight, Together, Awaited, Binding, Follows, Active
<1> QED
  BY <1>3, <1>4, <1>5, <1>6, <1>7, <1>8 DEF RunInv

LEMMA StepKeeps ==
    ASSUME RunInv, [Next]_vars
    PROVE  RunInv'
<1>1. CASE StartRun \/ Schedule \/ PhaseGatePasses \/ OpenIntegrationBug \/ Complete \/ PhaseGateFails
  BY <1>1, StartRunKeeps, ScheduleKeeps, PhaseGatePassesKeeps, OpenIntegrationBugKeeps, CompleteKeeps,
     PhaseGateFailsKeeps
<1>2. CASE Work
  <2>1. UNCHANGED ends
    BY <1>2 DEF Work
  <2>2. CASE UseCanonical \/ UseChangeSet \/ DropOldTree \/ Promote \/ AddTree \/ Create
    BY <2>1, <2>2, UseCanonicalKeeps, UseChangeSetKeeps, DropOldTreeKeeps, PromoteKeeps, AddTreeKeeps, CreateKeeps
  <2>3. CASE Baseline \/ Execute \/ Verified \/ Deliver \/ CannotPreserve \/ Pin \/ Restore \/ Route
    BY <2>1, <2>3, BaselineKeeps, ExecuteKeeps, VerifiedKeeps, DeliverKeeps, PinKeeps, RestoreKeeps, RouteKeeps
  <2> QED
    BY <1>2, <2>2, <2>3 DEF Work
<1>3. CASE Stops
  BY <1>3, InTheWayKeeps, CancelledKeeps DEF Stops
<1>4. CASE Integrate
  <2>1. CASE NothingToMerge \/ IntegrateTicket \/ IntegrateNext \/ Open \/ Review \/ MakeCandidate \/ Validate
    BY <2>1, NothingToMergeKeeps, IntegrateTicketKeeps, IntegrateNextKeeps, OpenKeeps, ReviewKeeps,
       MakeCandidateKeeps, ValidateKeeps
  <2>2. CASE Pass \/ CleanUp \/ GatePassed \/ VerdictHolds \/ VerdictFails \/ Approve \/ Intend \/ Refused
    BY <2>2, PassKeeps, CleanUpKeeps, GatePassedKeeps, VerdictHoldsKeeps, VerdictFailsKeeps, VerdictFailsOrBlocks,
       ApproveKeeps, IntendKeeps, EndsKeep
  <2>3. CASE MergeSquash \/ CommitMerge \/ Persist \/ Release \/ ResumeGate \/ ResumeMerged \/ CannotReconcile
             \/ NothingPending
    BY <2>3, MergeSquashKeeps, CommitMergeKeeps, PersistKeeps, ReleaseKeeps, ResumeGateKeeps, ResumeMergedKeeps,
       EndsKeep, NothingPendingKeeps
  <2> QED
    BY <1>4, <2>1, <2>2, <2>3 DEF Integrate
<1>5. CASE GoesWrong \/ Rejected
  BY <1>5, RollBackKeeps, RejectKeeps, ConflictKeeps, FailKeeps DEF GoesWrong, Rejected
<1>6. CASE Interrupted
  BY <1>6, EndsKeep, CannotRunKeeps, CommitFailsKeeps, ReleaseFailsKeeps DEF Interrupted
<1>7. CASE Crash \/ LoseTree \/ UserCommit
  BY <1>7, EndsKeep, LoseTreeKeeps, UserCommitKeeps
<1>8. CASE UNCHANGED vars
  BY <1>8, StutterKeeps
<1> QED
  BY <1>1, <1>2, <1>3, <1>4, <1>5, <1>6, <1>7, <1>8 DEF Next, Proceed

\* The invariant of the run: what Git holds, what the record says and where the run is fit
\* together before every step of it, and after every way a run may end.
THEOREM RunHolds == Spec => []RunInv
  BY InitKeeps, StepKeeps, PTL DEF Spec

-----------------------------------------------------------------------------
(* What the invariant says of the canonical branch.                         *)

\* Past the start of a run, what is squashed on the canonical branch is recorded as merged,
\* and what is recorded is there with all its branch holds, wherever the run before was
\* interrupted (reconcileMergeIntent, persistMergedState).
THEOREM RecordIsRight == Spec => []RecordAgrees
<1>1. RunInv => RecordAgrees
  <2> SUFFICES ASSUME RunInv PROVE RecordAgrees
    OBVIOUS
  <2>1. \A c \in ChangeSetIds : ~ Active(c) => Holds(c)
    BY DEF RunInv, Landing
  <2>2. ASSUME Working, NEW i \in 1..Len(branch[Main]), branch[Main][i].of # None
        PROVE  ~ Active(branch[Main][i].of)
    <3>1. \A c : ~ Pending(c)
      BY <2>2 DEF Working, Pending
    <3>2. Unrecorded = {}
      BY <3>1 DEF RunInv, Marked
    <3>3. branch[Main][i].of \in Marks
      BY <2>2 DEF Marks, MarksOf
    <3> QED
      BY <3>2, <3>3 DEF Unrecorded
  <2> QED
    BY <2>1, <2>2 DEF RecordAgrees
<1> QED
  BY <1>1, RunHolds, PTL

\* Between two tickets the canonical branch holds what was accepted, and what a run that
\* ended midway left (failAttempt, runAttempt's baseline).
THEOREM AcceptedAlone == Spec => []OnlyAccepted
<1>1. RunInv => OnlyAccepted
  BY DEF RunInv, Clear, OnlyAccepted
<1> QED
  BY <1>1, RunHolds, PTL

\* Delivered work is on the canonical branch or on its way there, whatever is rolled back,
\* promoted or interrupted (failAttempt, promoteGateBinding, mergeGatePassed).
THEOREM WorkIsKept == Spec => []NoWorkLost
<1>1. RunInv => NoWorkLost
  BY DEF RunInv, Delivering
<1> QED
  BY <1>1, RunHolds, PTL

\* A Story is developed on all that has been delivered, but for what was given up
\* (merge_integration_service.ts:84-87, run.ts:510).
THEOREM StoriesSee == Spec => []DownstreamSees
<1>1. RunInv => DownstreamSees
  <2> SUFFICES ASSUME RunInv, At("execute"), run.b = Main
               PROVE  \A c \in Unmerged : (\E t \in changeSet[c].tickets : ticket[t].state = "done")
                            => c \in cut \cup skipped
    BY DEF DownstreamSees
  <2>1. ~ IsCode(run.t)
    BY DEF RunInv, Placed
  <2>2. Owed = {}
    BY <2>1, StoryIs
  <2> QED
    BY <2>2 DEF Owed
<1> QED
  BY <1>1, RunHolds, PTL

-----------------------------------------------------------------------------
(* The canonical branch, step by step.                                      *)

\* A commit without the marker of a change set.
Plain == {k \in Commits : k.of = None}

LEMMA SnapshotsArePlain ==
    ASSUME RunInv, NEW b \in DOMAIN branch \cap DOMAIN tree, Snapshot(b)
    PROVE  branch'[Main] = branch[Main] \/ \E k \in Plain : branch'[Main] = Append(branch[Main], k)
<1>1. CASE b = Main
  <2>1. PICK all \in SUBSET Nat : branch'[b] = Append(branch[b], Commit(all, None))
    BY SnapshotIs DEF RunInv
  <2>2. Commit(all, None) \in Plain
    BY CommitIs DEF Plain
  <2> QED
    BY <1>1, <2>1, <2>2
<1>2. CASE b # Main
  BY <1>2, SnapshotIs DEF RunInv, Beside, GitTypes
<1> QED
  BY <1>1, <1>2

LEMMA CandidatesArePlain ==
    ASSUME RunInv, run.at \in Preserving
    PROVE  run.base \in Histories /\ \E k \in Plain : branch[Main] = Append(run.base, k)
<1>1. /\ run.base \in Histories /\ branch[Main] = Append(run.base, Last(branch[Main]))
      /\ Last(branch[Main]).of = None /\ branch[Main] \in Histories
  BY DEF RunInv, ToRestore, GitTypes
<1>2. Len(branch[Main]) \in Nat \ {0} /\ branch[Main] \in Seq(Commits)
  BY <1>1 DEF Histories
<1>3. Last(branch[Main]) \in Plain
  BY <1>1, <1>2 DEF Last, Plain
<1> QED
  BY <1>1, <1>3

\* A step leaves the canonical branch alone, commits on it, takes back a candidate, or
\* commits the squash of a change set.
LEMMA MainSteps ==
    ASSUME RunInv, [Next]_vars
    PROVE  \/ branch'[Main] = branch[Main]
           \/ \E k \in Plain : branch'[Main] = Append(branch[Main], k)
           \/ branch'[Main] \in Histories /\ \E k \in Plain : branch[Main] = Append(branch'[Main], k)
           \/ CommitMerge
<1> DEFINE Same == branch'[Main] = branch[Main]
           Grows == \E k \in Plain : branch'[Main] = Append(branch[Main], k)
           Back == branch'[Main] \in Histories /\ \E k \in Plain : branch[Main] = Append(branch'[Main], k)
<1>0. Main \in DOMAIN branch /\ branch[Main] \in Histories
  BY DEF RunInv, GitTypes
<1>1. CASE StartRun \/ Schedule \/ PhaseGatePasses \/ OpenIntegrationBug \/ Complete \/ PhaseGateFails
           \/ UNCHANGED vars
  BY <1>1 DEF StartRun, Schedule, PhaseGatePasses, OpenIntegrationBug, Complete, PhaseGateFails, vars, git
<1>2. CASE UseCanonical \/ UseChangeSet \/ DropOldTree \/ Promote \/ Create \/ Execute \/ Deliver \/ Pin \/ Route
  BY <1>2 DEF UseCanonical, UseChangeSet, DropOldTree, Promote, Create, Execute, Deliver, Pin, Route, git
<1>3. CASE AddTree
  <2>1. run.t \in Tickets /\ Story(CodeStep) \in Tickets
    BY <1>3, ProjectAssumption DEF AddTree, Opens, RunInv, AtWork, DomainTypes, Tickets
  <2>2. NewBranch(RootFor(run.t)) \in Names \ {Main}
    BY <2>1, NewIdIs, NoneIsApart DEF RunInv, Names, RootFor
  <2> QED
    BY <1>0, <1>3, <2>2, CheckOutIs DEF AddTree, RunInv
<1>4. CASE Baseline
  <2>1. run.b \in DOMAIN branch \cap DOMAIN tree
    BY <1>4, AttemptIs DEF Baseline
  <2> QED
    BY <1>4, <2>1, SnapshotsArePlain DEF Baseline, git
<1>5. CASE Verified \/ Reject
  <2>1. run.b \in DOMAIN branch \cap DOMAIN tree
    BY <1>5, AttemptIs DEF Verified, Reject
  <2> QED
    BY <1>5, <2>1, SnapshotsArePlain DEF Verified, Reject
<1>6. CASE Restore \/ CannotPreserve
  <2>1. run.at \in {"restore", "preserve"} /\ branch' = [branch EXCEPT ![Main] = run.base]
    BY <1>6 DEF Restore, CannotPreserve, RevertTo
  <2> QED
    BY <1>0, <2>1, CandidatesArePlain
<1>7. CASE InTheWay
  <2>1. CASE At("preserve")
    <3>1. branch' = [branch EXCEPT ![Main] = run.base]
      BY <1>7, <2>1 DEF InTheWay, RevertTo
    <3> QED
      BY <1>0, <2>1, <3>1, CandidatesArePlain
  <2>2. CASE ~ At("preserve")
    BY <1>7, <2>2 DEF InTheWay, git
  <2> QED
    BY <2>1, <2>2
<1>8. CASE Cancelled \/ RollBack
  <2>1. At("judge") /\ branch' = [branch EXCEPT ![run.b] = run.base]
    BY <1>8 DEF Cancelled, RollBack, RevertTo
  <2>2. run.base = branch[run.b]
    BY <2>1 DEF RunInv, AtWork
  <2> QED
    BY <1>0, <2>1, <2>2
<1>9. CASE NothingToMerge \/ IntegrateTicket \/ IntegrateNext \/ Open \/ Review \/ Validate \/ Pass \/ GatePassed
           \/ VerdictHolds \/ VerdictFails \/ Approve \/ Intend \/ Refused
  BY <1>9 DEF NothingToMerge, IntegrateTicket, IntegrateNext, Open, Review, Validate, Pass, GatePassed,
              VerdictHolds, VerdictFails, Approve, Intend, Refused, git
<1>10. CASE MergeSquash \/ Persist \/ Release \/ ResumeGate \/ ResumeMerged \/ CannotReconcile \/ NothingPending
            \/ Conflict \/ Fail
  BY <1>10 DEF MergeSquash, Squash, Persist, Release, ResumeGate, ResumeMerged, CannotReconcile, NothingPending,
               Conflict, Fail, git
<1>11. CASE CannotStart \/ CleanUpFails \/ Deny \/ ReleaseFails \/ Crash \/ LoseTree
  BY <1>11 DEF CannotStart, CleanUpFails, Deny, ReleaseFails, Crash, LoseTree, git
<1>12. CASE MakeCandidate
  <2>1. run.c \in ChangeSetIds /\ Source \in DOMAIN branch
    BY <1>12, InUseIs DEF MakeCandidate, RunInv, Integrating, Unmerged, Source
  <2>2. FreshGate(run.c) \in Names \ {Main} /\ Candidate(branch[Main], branch[Source]) \in Histories
    BY <2>1, FreshGateIs, NoneIsApart, InUseIs, CandidateIs DEF RunInv, Names, GitTypes
  <2> QED
    BY <1>12, <2>2, CheckOutIs DEF MakeCandidate, RunInv
<1>13. CASE CleanUp \/ CannotRun
  <2>1. run.b # Main
    BY <1>13, NoneIsApart DEF CleanUp, CannotRun, RunInv, Candidates
  <2>2. branch' = [n \in DOMAIN branch \ {run.b} |-> branch[n]]
    BY <1>13 DEF CleanUp, CannotRun
  <2> QED
    BY <1>0, <2>1, <2>2
<1>14. CASE CommitFails
  <2>1. At("commit") /\ branch' = [branch EXCEPT ![Main] = TheGate.tgt]
    BY <1>14 DEF CommitFails, RevertTo
  <2>2. TheGate.tgt = branch[Main]
    BY <2>1 DEF RunInv, Judged
  <2> QED
    BY <1>0, <2>1, <2>2
<1>15. CASE UserCommit
  <2>1. made' = made + 1 /\ branch' = [branch EXCEPT ![Main] = Append(@, Commit({made'}, None))]
    BY <1>15 DEF UserCommit
  <2>2. made' \in Nat
    BY <2>1, RunIs
  <2>3. Commit({made'}, None) \in Plain
    BY <2>2, CommitIs DEF Plain
  <2> QED
    BY <1>0, <2>1, <2>3
<1> HIDE DEF Same, Grows, Back
<1> QED
  BY <1>1, <1>2, <1>3, <1>4, <1>5, <1>6, <1>7, <1>8, <1>9, <1>10, <1>11, <1>12, <1>13, <1>14, <1>15
  DEF Next, Proceed, Work, GoesWrong, Stops, Integrate, Rejected, Interrupted

\* The squash of a change set, of which there is none yet, is judged and current.
LEMMA SquashIs ==
    ASSUME RunInv, CommitMerge
    PROVE  /\ run.c \in ChangeSetIds /\ run.c \in ChangeSetNames \ Marks /\ run.c # None
           /\ gate[run.c].status = "passed" /\ gate[run.c].src = branch[changeSet[run.c].source]
           /\ gate[run.c].tgt = branch[Main] /\ branch[Main] \in Histories
           /\ staged \in SUBSET Nat /\ staged = Content(gate[run.c].src) \ Content(gate[run.c].tgt)
           /\ branch'[Main] = IF staged = {} THEN branch[Main] ELSE Append(branch[Main], Commit(staged, run.c))
<1>1. At("commit") /\ branch' = IF staged = {} THEN branch
                                ELSE [branch EXCEPT ![Main] = Append(@, Commit(staged, run.c))]
  BY DEF CommitMerge, CommitSquash
<1>2. /\ run.c \in ChangeSetIds /\ Active(run.c) /\ run.c \in ChangeSetNames /\ run.c # None
      /\ Main \in DOMAIN branch /\ branch[Main] \in Histories /\ staged \in SUBSET Nat
  BY <1>1, InUseIs, NoneIsApart DEF RunInv, Integrating, Unmerged, GitTypes
<1>3. run.c \notin Marks
  BY <1>1, <1>2 DEF RunInv, Marked, Pending, Unrecorded
<1>4. /\ gate[run.c].status = "passed" /\ gate[run.c].src = branch[changeSet[run.c].source]
      /\ gate[run.c].tgt = branch[Main] /\ staged = Content(gate[run.c].src) \ Content(gate[run.c].tgt)
  BY <1>1 DEF RunInv, Judged, TheGate, Source
<1> QED
  BY <1>1, <1>2, <1>3, <1>4

\* What lands is what a gate has passed, on the target it was judged with (currentVerdict,
\* squashMerge).
THEOREM GatedAlone == Spec => LandedAsGated
<1> DEFINE Gated == LET c == Last(branch'[Main]).of IN
                    /\ gate[c].status = "passed" /\ gate[c].tgt = branch[Main]
                    /\ gate[c].src = branch[changeSet[c].source]
                    /\ Content(branch'[Main]) = Content(gate[c].src) \cup Content(gate[c].tgt)
<1>1. ASSUME RunInv, [Next]_vars, Lands PROVE Gated
  <2>0. branch[Main] \in Seq(Commits) /\ Len(branch[Main]) \in Nat
    BY <1>1 DEF RunInv, GitTypes, Histories
  <2>1. branch'[Main] # branch[Main] /\ Last(branch'[Main]).of # None /\ Len(branch'[Main]) > Len(branch[Main])
    BY <1>1 DEF Lands
  <2>2. ASSUME NEW k \in Plain, branch'[Main] = Append(branch[Main], k) PROVE FALSE
    BY <2>0, <2>1, <2>2, Appended DEF Plain
  <2>3. ASSUME branch'[Main] \in Histories, NEW k \in Plain, branch[Main] = Append(branch'[Main], k) PROVE FALSE
    <3>1. Len(branch[Main]) = Len(branch'[Main]) + 1 /\ Len(branch'[Main]) \in Nat
      BY <2>3, Appended DEF Plain, Histories
    <3> QED
      BY <2>0, <2>1, <3>1
  <2>4. CommitMerge
    BY <1>1, <2>1, <2>2, <2>3, MainSteps
  <2>5. /\ staged # {} /\ branch'[Main] = Append(branch[Main], Commit(staged, run.c))
        /\ Commit(staged, run.c) \in Commits /\ Commit(staged, run.c).of = run.c
        /\ Commit(staged, run.c).adds = staged
    BY <1>1, <2>1, <2>4, SquashIs, CommitIs
  <2>6. /\ Last(branch'[Main]).of = run.c /\ Content(branch'[Main]) = Content(branch[Main]) \cup staged
    BY <2>0, <2>5, Appended
  <2> QED
    BY <1>1, <2>4, <2>6, SquashIs
<1>2. RunInv /\ [Next]_vars => [Lands => Gated]_vars
  BY <1>1
<1> QED
  BY <1>2, RunHolds, PTL DEF Spec, LandedAsGated

-----------------------------------------------------------------------------
(* The canonical branch is a main line.                                     *)

\* The markers of a history, which are what Mainline sees of it.
Markers(h) == [i \in 1..Len(h) |-> h[i].of]

LEMMA MarkersGrow ==
    ASSUME NEW h \in Seq(Commits), NEW k \in Commits
    PROVE  /\ Markers(h) \in Seq(ChangeSetNames \cup {None}) /\ Len(Markers(h)) = Len(h)
           /\ Markers(Append(h, k)) = Append(Markers(h), k.of)
           /\ ToMainline!LandedIn(Markers(h)) = MarksOf(h)
<1> DEFINE g == Append(h, k)
           m == Markers(h)
<1>1. /\ g \in Seq(Commits) /\ Len(h) \in Nat /\ Len(g) = Len(h) + 1
      /\ g[Len(h) + 1] = k /\ \A i \in 1..Len(h) : g[i] = h[i]
  OBVIOUS
<1>2. \A i \in 1..Len(h) : h[i].of \in ChangeSetNames \cup {None}
  <2> SUFFICES ASSUME NEW i \in 1..Len(h) PROVE h[i].of \in ChangeSetNames \cup {None}
    OBVIOUS
  <2>1. h[i] \in Commits
    OBVIOUS
  <2> QED
    BY <2>1 DEF Commits
<1>3. m \in Seq(ChangeSetNames \cup {None}) /\ Len(m) = Len(h) /\ \A i \in 1..Len(h) : m[i] = h[i].of
  BY <1>1, <1>2 DEF Markers
<1>4. ToMainline!LandedIn(m) = MarksOf(h)
  <2>1. \A i \in 1..Len(h) : m[i] = h[i].of
    BY <1>3
  <2>2. {m[i] : i \in 1..Len(m)} = {h[i].of : i \in 1..Len(h)}
    BY <1>3, <2>1
  <2> QED
    BY <2>2 DEF ToMainline!LandedIn, MarksOf
<1>5. Markers(g) = Append(m, k.of)
  <2> DEFINE a == Append(m, k.of)
  <2>1. a = [i \in 1..(Len(h) + 1) |-> IF i \in 1..Len(h) THEN m[i] ELSE k.of]
    <3>1. Len(m) = Len(h) /\ m \in Seq(ChangeSetNames \cup {None})
      BY <1>3
    <3> HIDE DEF m
    <3>2. DOMAIN a = 1..(Len(h) + 1) /\ \A i \in 1..(Len(h) + 1) : a[i] = IF i \in 1..Len(h) THEN m[i] ELSE k.of
      BY <1>1, <3>1
    <3>3. a = [i \in DOMAIN a |-> a[i]]
      BY <3>1
    <3> QED
      BY <3>2, <3>3
  <2>2. Markers(g) = [i \in 1..(Len(h) + 1) |-> g[i].of]
    BY <1>1 DEF Markers
  <2>3. \A i \in 1..(Len(h) + 1) : g[i].of = IF i \in 1..Len(h) THEN m[i] ELSE k.of
    <3> SUFFICES ASSUME NEW i \in 1..(Len(h) + 1) PROVE g[i].of = IF i \in 1..Len(h) THEN m[i] ELSE k.of
      OBVIOUS
    <3>1. i \in 1..Len(h) \/ (i = Len(h) + 1 /\ i \notin 1..Len(h))
      BY <1>1
    <3> HIDE DEF g, m
    <3> QED
      BY <1>1, <1>3, <3>1
  <2> HIDE DEF g, m, a
  <2>4. Markers(g) = a
    BY <2>1, <2>2, <2>3
  <2> QED
    BY <2>4 DEF a
<1> QED
  BY <1>3, <1>4, <1>5

\* Every step of a run is a step of the main line, or leaves it as it is.
LEMMA StepsAreTheMainlines ==
    RunInv /\ [Next]_vars
    => [ToMainline!Next]_([i \in 1..Len(branch[Main]) |-> branch[Main][i].of])
<1> DEFINE main == Markers(branch[Main])
<1>1. ASSUME RunInv, [Next]_vars PROVE main' = main \/ ToMainline!Next
  <2>0. branch[Main] \in Histories /\ branch[Main] \in Seq(Commits)
    BY <1>1 DEF RunInv, GitTypes, Histories
  <2>1. main' = Markers(branch'[Main])
    BY DEF Markers
  <2>2. ASSUME branch'[Main] = branch[Main] PROVE main' = main
    BY <2>1, <2>2
  <2>3. ASSUME NEW k \in Plain, branch'[Main] = Append(branch[Main], k) PROVE ToMainline!Next
    <3>1. Markers(branch'[Main]) = Append(main, None)
      BY <2>0, <2>3, MarkersGrow DEF Plain
    <3>2. ToMainline!Record
      BY <3>1 DEF ToMainline!Record, Markers
    <3> QED
      BY <3>2 DEF ToMainline!Next
  <2>4. ASSUME branch'[Main] \in Histories, NEW k \in Plain, branch[Main] = Append(branch'[Main], k)
        PROVE  ToMainline!Next
    <3> DEFINE m == Markers(branch[Main])
               mm == Markers(branch'[Main])
    <3>1. /\ branch'[Main] \in Seq(Commits) /\ Len(branch'[Main]) \in Nat \ {0}
          /\ mm \in Seq(ChangeSetNames \cup {None}) /\ Len(mm) = Len(branch'[Main])
          /\ m = Append(mm, None)
      BY <2>4, MarkersGrow DEF Plain, Histories
    <3> HIDE DEF m, mm
    <3>2. Len(mm) \in 1..Len(m) /\ m[Len(mm) + 1] = None /\ Len(m) = Len(mm) + 1
      BY <3>1
    <3>3. mm = SubSeq(m, 1, Len(mm))
      BY <3>1
    <3>4. \E n \in 1..Len(m) : /\ \A i \in (n + 1)..Len(m) : m[i] = None
                               /\ mm = SubSeq(m, 1, n)
      BY <3>1, <3>2, <3>3
    <3>5. ToMainline!TakeBack
      BY <3>4 DEF ToMainline!TakeBack, m, mm, Markers
    <3> QED
      BY <3>5 DEF ToMainline!Next
  <2>5. ASSUME CommitMerge, branch'[Main] # branch[Main] PROVE ToMainline!Next
    <3> DEFINE m == Markers(branch[Main])
               mm == Markers(branch'[Main])
    <3>1. /\ run.c \in ChangeSetNames \ Marks
          /\ branch'[Main] = Append(branch[Main], Commit(staged, run.c))
          /\ Commit(staged, run.c) \in Commits /\ Commit(staged, run.c).of = run.c
      BY <1>1, <2>5, SquashIs, CommitIs
    <3>2. /\ m \in Seq(ChangeSetNames \cup {None}) /\ mm = Append(m, run.c)
          /\ ToMainline!LandedIn(m) = Marks
      BY <2>0, <3>1, MarkersGrow DEF Marks
    <3> HIDE DEF m, mm
    <3>3. mm[Len(mm)] = run.c
      BY <3>1, <3>2
    <3>4. /\ mm[Len(mm)] \in ChangeSetNames \ ToMainline!LandedIn(m)
          /\ mm = Append(m, mm[Len(mm)])
      BY <3>1, <3>2, <3>3
    <3>5. ToMainline!Land
      BY <3>4 DEF ToMainline!Land, ToMainline!LandedIn, m, mm, Markers
    <3> QED
      BY <3>5 DEF ToMainline!Next
  <2> QED
    BY <1>1, <2>2, <2>3, <2>4, <2>5, MainSteps
<1> QED
  BY <1>1 DEF Markers

\* Nothing that has landed is taken back, and nothing lands twice: the canonical branch
\* is the main line (squashMerge, revertTo, reconcileMergeIntent).
THEOREM MainlineIsKept == Spec => IsMainline
<1>1. Init => ToMainline!Init
  <2> SUFFICES ASSUME Init PROVE ToMainline!Init
    OBVIOUS
  <2>1. branch[Main] = <<Commit({}, None)>>
    BY DEF Init, ChangeSetInit, GitInit
  <2>2. Len(branch[Main]) = 1 /\ branch[Main][1].of = None
    BY <2>1 DEF Commit
  <2>3. [i \in 1..Len(branch[Main]) |-> branch[Main][i].of] = <<None>>
    <3>1. <<None>> = [i \in 1..1 |-> None]
      OBVIOUS
    <3> QED
      BY <2>2, <3>1
  <2> QED
    BY <2>3 DEF ToMainline!Init
<1> QED
  BY <1>1, StepsAreTheMainlines, RunHolds, PTL DEF Spec, IsMainline, ToMainline!Spec

-----------------------------------------------------------------------------
(* What the main line promises.                                             *)

MainLines == Seq(ChangeSetNames \cup {None}) \ {<<>>}

\* Each change set has at most one commit in a history of markers.
Once(m) == \A i, j \in 1..Len(m) : m[i] = m[j] /\ m[i] # None => i = j

\* A history that grows by one commit keeps what has landed, each change set once.
LEMMA GrowthKeeps ==
    ASSUME NEW m \in MainLines, NEW c \in ChangeSetNames \cup {None}
    PROVE  /\ Append(m, c) \in MainLines
           /\ ToMainline!LandedIn(m) \subseteq ToMainline!LandedIn(Append(m, c))
           /\ Once(m) /\ c \notin ToMainline!LandedIn(m) => Once(Append(m, c))
<1> DEFINE g == Append(m, c)
<1>1. /\ g \in Seq(ChangeSetNames \cup {None}) /\ Len(m) \in Nat /\ Len(g) = Len(m) + 1
      /\ g[Len(m) + 1] = c /\ \A i \in 1..Len(m) : g[i] = m[i]
  BY DEF MainLines
<1>2. g \in MainLines
  BY <1>1 DEF MainLines
<1> HIDE DEF g
<1>3. ToMainline!LandedIn(m) \subseteq ToMainline!LandedIn(g)
  BY <1>1 DEF ToMainline!LandedIn
<1>4. ASSUME Once(m), c \notin ToMainline!LandedIn(m),
             NEW i \in 1..Len(g), NEW j \in 1..Len(g), g[i] = g[j], g[i] # None
      PROVE  i = j
  <2>1. \A k \in 1..Len(m) : m[k] # None => m[k] # c
    BY <1>4 DEF ToMainline!LandedIn
  <2>2. CASE i \in 1..Len(m) /\ j \in 1..Len(m)
    BY <1>1, <1>4, <2>2 DEF Once
  <2>3. CASE i = Len(m) + 1 \/ j = Len(m) + 1
    BY <1>1, <1>4, <2>1, <2>3
  <2> QED
    BY <1>1, <2>2, <2>3
<1>5. Once(m) /\ c \notin ToMainline!LandedIn(m) => Once(g)
  BY <1>4 DEF Once
<1> QED
  BY <1>2, <1>3, <1>5 DEF g

\* A history that is taken back by commits that landed nothing keeps what has landed.
LEMMA TakingBackKeeps ==
    ASSUME NEW m \in MainLines, NEW n \in 1..Len(m)
    PROVE  /\ SubSeq(m, 1, n) \in MainLines
           /\ Once(m) => Once(SubSeq(m, 1, n))
           /\ (\A i \in (n + 1)..Len(m) : m[i] = None)
              => ToMainline!LandedIn(m) \subseteq ToMainline!LandedIn(SubSeq(m, 1, n))
<1> DEFINE g == SubSeq(m, 1, n)
<1>1. Len(m) \in Nat /\ n \in Nat /\ 1 <= n /\ n <= Len(m)
  BY DEF MainLines
<1>2. g \in Seq(ChangeSetNames \cup {None}) /\ Len(g) = n /\ \A i \in 1..n : g[i] = m[i]
  BY <1>1 DEF MainLines
<1>3. g \in MainLines
  BY <1>1, <1>2 DEF MainLines
<1> HIDE DEF g
<1>4. Once(m) => Once(g)
  BY <1>1, <1>2 DEF Once
<1>5. ASSUME \A i \in (n + 1)..Len(m) : m[i] = None
      PROVE  ToMainline!LandedIn(m) \subseteq ToMainline!LandedIn(g)
  <2>1. ASSUME NEW i \in 1..Len(m), m[i] # None PROVE i \in 1..n
    BY <1>1, <1>5, <2>1
  <2> QED
    BY <1>2, <2>1 DEF ToMainline!LandedIn
<1> QED
  BY <1>3, <1>4, <1>5 DEF g

\* Every step of the main line keeps its markers well-formed, each change set at one
\* commit, and what has landed.
LEMMA MainlineSteps ==
    ASSUME Markers(branch[Main]) \in MainLines, ToMainline!Next
    PROVE  /\ Markers(branch'[Main]) \in MainLines
           /\ Once(Markers(branch[Main])) => Once(Markers(branch'[Main]))
           /\ ToMainline!LandedIn(Markers(branch[Main])) \subseteq ToMainline!LandedIn(Markers(branch'[Main]))
<1> DEFINE m == Markers(branch[Main])
           mm == Markers(branch'[Main])
<1>1. CASE ToMainline!Land
  <2>1. PICK c \in ChangeSetNames : c \notin ToMainline!LandedIn(m) /\ mm = Append(m, c)
    BY <1>1 DEF ToMainline!Land, ToMainline!LandedIn, Markers
  <2> HIDE DEF m, mm
  <2>2. m \in MainLines
    BY DEF m
  <2>3. mm \in MainLines /\ (Once(m) => Once(mm)) /\ ToMainline!LandedIn(m) \subseteq ToMainline!LandedIn(mm)
    BY <2>1, <2>2, GrowthKeeps
  <2> QED
    BY <2>3 DEF m, mm
<1>2. CASE ToMainline!Record
  <2>1. mm = Append(m, None)
    BY <1>2 DEF ToMainline!Record, Markers
  <2> HIDE DEF m, mm
  <2>2. m \in MainLines /\ None \notin ToMainline!LandedIn(m)
    BY DEF m, ToMainline!LandedIn
  <2>3. mm \in MainLines /\ (Once(m) => Once(mm)) /\ ToMainline!LandedIn(m) \subseteq ToMainline!LandedIn(mm)
    BY <2>1, <2>2, GrowthKeeps
  <2> QED
    BY <2>3 DEF m, mm
<1>3. CASE ToMainline!TakeBack
  <2>1. PICK n \in 1..Len(m) : (\A i \in (n + 1)..Len(m) : m[i] = None) /\ mm = SubSeq(m, 1, n)
    BY <1>3 DEF ToMainline!TakeBack, Markers
  <2> HIDE DEF m, mm
  <2>2. m \in MainLines
    BY DEF m
  <2>3. mm \in MainLines /\ (Once(m) => Once(mm)) /\ ToMainline!LandedIn(m) \subseteq ToMainline!LandedIn(mm)
    BY <2>1, <2>2, TakingBackKeeps
  <2> QED
    BY <2>3 DEF m, mm
<1> QED
  BY <1>1, <1>2, <1>3 DEF ToMainline!Next

\* The main line's markers are well-formed and each change set has one commit in it.
LEMMA MainlineHolds ==
    Spec => [](Markers(branch[Main]) \in MainLines /\ Once(Markers(branch[Main])))
<1> DEFINE m == Markers(branch[Main])
           LandsOnceEach == m \in MainLines /\ Once(m)
<1>1. Init => LandsOnceEach
  <2>1. Init => branch[Main] = <<Commit({}, None)>>
    BY DEF Init, ChangeSetInit, GitInit
  <2>2. branch[Main] = <<Commit({}, None)>> => Len(m) = 1 /\ m = <<None>>
    <3>1. <<None>> = [i \in 1..1 |-> None]
      OBVIOUS
    <3>2. branch[Main] = <<Commit({}, None)>> => Len(branch[Main]) = 1 /\ branch[Main][1].of = None
      BY DEF Commit
    <3> QED
      BY <3>1, <3>2 DEF Markers
  <2>3. m = <<None>> => LandsOnceEach
    BY DEF MainLines, Once
  <2> QED
    BY <2>1, <2>2, <2>3
<1>2. RunInv /\ LandsOnceEach /\ [Next]_vars => LandsOnceEach'
  <2> SUFFICES ASSUME RunInv, LandsOnceEach, [Next]_vars PROVE LandsOnceEach'
    OBVIOUS
  <2>1. m' = Markers(branch'[Main])
    BY DEF Markers
  <2>2. Once(m)' = Once(Markers(branch'[Main]))
    BY DEF Once, Markers
  <2>3. ASSUME ToMainline!Next PROVE LandsOnceEach'
    BY <2>1, <2>2, <2>3, MainlineSteps
  <2>4. ASSUME m' = m PROVE LandsOnceEach'
    BY <2>1, <2>2, <2>4
  <2> QED
    BY <2>3, <2>4, StepsAreTheMainlines DEF Markers
<1> QED
  BY <1>1, <1>2, RunHolds, PTL DEF Spec

\* A change set has one commit on the canonical branch, however often its merge was
\* tried, interrupted and reconciled (squashMerge, reconcileMergeIntent).
THEOREM OneCommitEach == Spec => []ToMainline!LandsOnce
<1>1. Once(Markers(branch[Main])) => ToMainline!LandsOnce
  BY DEF Once, Markers, ToMainline!LandsOnce
<1> QED
  BY <1>1, MainlineHolds, PTL

\* What has landed on the canonical branch is never taken back, whatever attempt is
\* rolled back (revertTo).
THEOREM LandedForGood == Spec => ToMainline!StaysLanded
<1>1. RunInv /\ Markers(branch[Main]) \in MainLines /\ [Next]_vars
      => [ToMainline!LandedIn([i \in 1..Len(branch[Main]) |-> branch[Main][i].of])
             \subseteq ToMainline!LandedIn([i \in 1..Len(branch[Main]) |-> branch[Main][i].of]')]_(
             [i \in 1..Len(branch[Main]) |-> branch[Main][i].of])
  BY StepsAreTheMainlines, MainlineSteps DEF Markers
<1> QED
  BY <1>1, MainlineHolds, RunHolds, PTL DEF Spec, ToMainline!StaysLanded
=============================================================================
