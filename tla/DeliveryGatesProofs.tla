------------------------- MODULE DeliveryGatesProofs -------------------------
(***************************************************************************)
(* The tests a development Step wrote are run whenever something met at    *)
(* the code is behind its correction, and are not asked for before there   *)
(* is code, for any Phase, any outcomes and any number of tickets.         *)
(***************************************************************************)
EXTENDS DeliveryGates, FiniteSetTheorems, TLAPS

StepStates == {"created", "in_progress", "pending", "reopened", "delivered", "closed"}
TicketStates == {"created", "in_progress", "pending", "resolved", "closed"}
AllCodes == Codes \cup {"none", "passed", "contradicted"}
Ticket ==
    [kind : Kinds, at : Steps, context : Steps, parent : Nat, bug : Nat, source : Nat,
     origins : SUBSET Steps, trigger : 0..(2 * Pairs), cause : Nat, route : SUBSET Steps,
     code : AllCodes, hopped : BOOLEAN, on : SUBSET Nat, after : SUBSET Nat, state : TicketStates,
     proven : BOOLEAN, left : Nat, log : [old : BOOLEAN, count : [Codes -> Nat]]]
Board == [step : [Steps -> StepStates], tickets : Seq(Ticket)]

\* What a gate says of the tests of a Step.
GateSays == {"none", "not-applicable", "execute", "defer"}
Result ==
    [code : AllCodes, ok : BOOLEAN, found : SUBSET Findings, gap : BOOLEAN,
     defect : {"none", "role", "rendered"}, asks : BOOLEAN, gate : GateSays, testsOnly : BOOLEAN,
     routing : BOOLEAN, queued : Seq(Nat)]

-----------------------------------------------------------------------------
(* What tickets say of one another.                                         *)

\* The first tickets are the Stories, and stay so; what any other says it is there because of
\* is a Story, or a correction it names; and what is numbered is there.
Linked(t, i, n) ==
    /\ i \in Steps => t.kind = "story" /\ t.at = i /\ t.cause = 0
    /\ i \notin Steps => t.kind # "story"
    /\ {t.parent, t.bug, t.source, t.cause} \subseteq 0..n
    /\ t.origins \subseteq {t.trigger}
    /\ t.cause \in {0, t.parent, t.bug, t.source} \cup Steps \/ Orphan(t)
Links(T) ==
    /\ Len(T) >= 2 * Pairs
    /\ \A i \in 1..Len(T) : Linked(T[i], i, Len(T))

\* Before there is code no Step from CODE on has begun, nothing is corrected there or because of
\* what was met there, and a Change Request has all the Steps after its own still before it.
Advanced == {"in_progress", "delivered", "closed"}
EarlyTicket(t) ==
    /\ IsCorrective(t) => t.at <= CODE
    /\ t.kind \in {"bug", "enhancement"} => t.context < CODE
    /\ IsRequest(t) => t.trigger < CODE /\ t.route = {d \in Steps : d > t.at}
Early(states, T) ==
    /\ \A s \in Steps : s >= CODE => states[s] \notin Advanced
    /\ \A i \in 1..Len(T) : EarlyTicket(T[i])

\* A finding names the Step that met it or a development Step: to name its pair, which a gate may
\* too, is for a Step that verifies (calibration.ts:1246).
PointsBack == \A o \in Happens : \A f \in o.found : f.target <= CODE \/ f.target = o.at

BeforeCode == PointsBack /\ ~ tried
OnBoard(p) == Links(p.tickets) /\ (BeforeCode => Early(p.step, p.tickets))

\* The work of an attempt, and what came of it.
AtWork ==
    /\ work \in 0..Len(tickets) /\ (result # NoResult => work # 0) /\ (~ up => work = 0)
    /\ BeforeCode /\ work # 0 => tickets[work].at < CODE
    /\ PointsBack => \A f \in result.found : f.target <= CODE \/ f.target = tickets[work].at
\* An attempt for a Bug or an Enhancement opens no Bug.
Routing ==
    result.routing /\ Mode(tickets[work]) \in {"debug", "enhancement"}
        => \A f \in result.found : QualityGap(f)

TypeOK ==
    /\ Both \in Board /\ work \in Nat /\ result \in Result /\ up \in BOOLEAN /\ tried \in BOOLEAN

GatesInv ==
    /\ TypeOK /\ OnBoard(Both) /\ AtWork /\ Routing
    /\ BaselineHeld /\ (PointsBack => CodeIsThere)
-----------------------------------------------------------------------------
(* The greatest of a set of numbers.                                        *)

LEMMA LeastOf ==
    ASSUME NEW S, S \subseteq Nat, S # {}
    PROVE  \E x \in S : \A y \in S : x <= y
<1> DEFINE T == {1..x : x \in S}
<1>1. T \subseteq FiniteSubsetsOf(Nat)
  <2> SUFFICES ASSUME NEW x \in S PROVE 1..x \in FiniteSubsetsOf(Nat)
    OBVIOUS
  <2>1. IsFiniteSet(1..x)
    BY FS_Interval
  <2> QED
    BY <2>1 DEF FiniteSubsetsOf
<1>2. PICK t \in T : \A u \in T : <<u, t>> \notin StrictSubsetOrdering(Nat)
  <2>1. T # {}
    OBVIOUS
  <2>2. IsWellFoundedOn(StrictSubsetOrdering(Nat), FiniteSubsetsOf(Nat))
    BY FS_StrictSubsetOrderingWellFounded
  <2> HIDE DEF T
  <2> QED
    BY <1>1, <2>1, <2>2, WFMin
<1>3. PICK x \in S : t = 1..x
  OBVIOUS
<1>4. ASSUME NEW y \in S, y < x PROVE FALSE
  <2>1. x \in 1..x /\ x \notin 1..y
    BY <1>4
  <2>2. 1..y \subseteq 1..x /\ 1..y # 1..x
    BY <1>4, <2>1
  <2>3. <<1..y, 1..x>> \in StrictSubsetOrdering(Nat)
    BY <2>2 DEF StrictSubsetOrdering
  <2> QED
    BY <1>2, <1>3, <2>3
<1> QED
  BY <1>4

LEMMA LeastIs ==
    ASSUME NEW S, S \subseteq Nat, S # {}
    PROVE  Min(S) \in S /\ \A y \in S : Min(S) <= y
BY LeastOf DEF Min

LEMMA GreatestIs ==
    ASSUME NEW n \in Nat, NEW S, S \subseteq 0..n, S # {}
    PROVE  Max(S) \in S /\ \A y \in S : y <= Max(S)
<1> DEFINE T == {n - x : x \in S}
<1>1. T \subseteq Nat /\ T # {}
  <2> SUFFICES ASSUME NEW x \in S PROVE n - x \in Nat
    OBVIOUS
  <2> QED
    BY x \in 0..n
<1>2. PICK t \in T : \A u \in T : t <= u
  BY <1>1, LeastOf
<1>3. PICK x \in S : t = n - x
  OBVIOUS
<1>4. ASSUME NEW y \in S PROVE x >= y
  <2>1. n - x <= n - y
    BY <1>2, <1>3
  <2>2. x \in 0..n /\ y \in 0..n
    OBVIOUS
  <2> HIDE DEF T
  <2> QED
    BY <2>1, <2>2
<1> QED
  BY <1>4 DEF Max

-----------------------------------------------------------------------------
(* Steps.                                                                   *)

LEMMA Places ==
    /\ Pairs \in Nat \ {0} /\ 2 * Pairs \in Nat /\ Steps = 1..(2 * Pairs) /\ Steps \subseteq Nat
    /\ CODE \in Steps /\ Design \in Steps /\ Design <= CODE
    /\ \A s \in Steps : Paired(s) \in Steps /\ (Verifies(s) <=> Paired(s) <= CODE) /\ (Verifies(s) <=> s > CODE)
BY PolicyAssumption DEF Steps, CODE, Paired, Verifies

-----------------------------------------------------------------------------
(* What the operations on the board leave as it is.                         *)

\* What a ticket is, apart from how it stands.
SameTicket(t, u) ==
    /\ u.kind = t.kind /\ u.at = t.at /\ u.context = t.context
    /\ u.parent = t.parent /\ u.bug = t.bug /\ u.source = t.source
    /\ u.origins = t.origins /\ u.trigger = t.trigger /\ u.cause = t.cause /\ u.route = t.route
Same(T, U) == Len(U) = Len(T) /\ \A i \in 1..Len(T) : SameTicket(T[i], U[i])

\* No Step is begun or delivered by it.
Keeps(p, q) ==
    /\ q \in Board /\ Same(p.tickets, q.tickets)
    /\ \A s \in Steps : q.step[s] \in Advanced => p.step[s] \in Advanced

LEMMA KeepsOnKeeping ==
    ASSUME NEW p, NEW q, NEW r, Keeps(p, q), Keeps(q, r)
    PROVE  Keeps(p, r)
BY DEF Keeps, Same, SameTicket

LEMMA KeepsItself ==
    ASSUME NEW p \in Board
    PROVE  Keeps(p, p)
BY DEF Keeps, Same, SameTicket

\* An operation on each ticket of a board.
LEMMA EachTicket ==
    ASSUME NEW p \in Board, NEW T, T = [i \in DOMAIN p.tickets |-> T[i]],
           \A i \in 1..Len(p.tickets) : T[i] \in Ticket /\ SameTicket(p.tickets[i], T[i])
    PROVE  Keeps(p, Changed(p, T))
<1>1. p.tickets \in Seq(Ticket) /\ DOMAIN p.tickets = 1..Len(p.tickets) /\ Len(p.tickets) \in Nat
  BY DEF Board
<1>2. T \in Seq(Ticket) /\ Len(T) = Len(p.tickets)
  <2>1. T \in [1..Len(p.tickets) -> Ticket]
    <3>1. DOMAIN p.tickets = 1..Len(p.tickets) /\ \A i \in 1..Len(p.tickets) : T[i] \in Ticket
      BY <1>1
    <3> HIDE DEF Ticket
    <3> QED
      BY <3>1, Zenon
  <2> QED
    BY <1>1, <2>1
<1>3. Changed(p, T) \in Board /\ Changed(p, T).step = p.step /\ Changed(p, T).tickets = T
  BY <1>2 DEF Board, Changed
<1> QED
  BY <1>1, <1>2, <1>3 DEF Keeps, Same

LEMMA TicketsOf ==
    ASSUME NEW p \in Board
    PROVE  /\ p.tickets \in Seq(Ticket) /\ DOMAIN p.tickets = 1..Len(p.tickets) /\ Len(p.tickets) \in Nat
           /\ \A i \in 1..Len(p.tickets) : p.tickets[i] \in Ticket
           /\ p.step \in [Steps -> StepStates]
           /\ p = [step |-> p.step, tickets |-> p.tickets]
BY DEF Board

LEMMA Tickets ==
    ASSUME NEW t \in Ticket
    PROVE  /\ \A c \in Nat : BlockedBy(t, c) \in Ticket /\ SameTicket(t, BlockedBy(t, c))
           /\ \A C : ReleasedFrom(t, C) \in Ticket /\ SameTicket(t, ReleasedFrom(t, C))
           /\ Close(t) \in Ticket /\ SameTicket(t, Close(t))
           /\ SameTicket(t, t)
BY DEF Ticket, SameTicket, BlockedBy, ReleasedFrom, Close, TicketStates

LEMMA BlockKeeps ==
    ASSUME NEW p \in Board, NEW T, NEW c \in Nat
    PROVE  Keeps(p, Block(p, T, c))
<1> DEFINE U == [i \in DOMAIN p.tickets |->
                   IF i \in T /\ Live(p.tickets[i]) THEN BlockedBy(p.tickets[i], c) ELSE p.tickets[i]]
<1>1. U = [i \in DOMAIN p.tickets |-> U[i]]
  OBVIOUS
<1>2. \A i \in 1..Len(p.tickets) : U[i] \in Ticket /\ SameTicket(p.tickets[i], U[i])
  BY TicketsOf, Tickets
<1>3. Block(p, T, c) = Changed(p, U)
  BY DEF Block
<1> HIDE DEF U
<1> QED
  BY <1>1, <1>2, <1>3, EachTicket

LEMMA ReleaseKeeps ==
    ASSUME NEW p \in Board, NEW C
    PROVE  Keeps(p, Release(p, C))
<1> DEFINE U == [i \in DOMAIN p.tickets |->
                   IF p.tickets[i].on \cap C # {} THEN ReleasedFrom(p.tickets[i], C) ELSE p.tickets[i]]
<1>1. U = [i \in DOMAIN p.tickets |-> U[i]]
  OBVIOUS
<1>2. \A i \in 1..Len(p.tickets) : U[i] \in Ticket /\ SameTicket(p.tickets[i], U[i])
  BY TicketsOf, Tickets
<1>3. Release(p, C) = Changed(p, U)
  BY DEF Release
<1> HIDE DEF U
<1> QED
  BY <1>1, <1>2, <1>3, EachTicket

LEMMA ClosedKeeps ==
    ASSUME NEW p \in Board, NEW C
    PROVE  Keeps(p, Closed(p, C))
<1> DEFINE U == [i \in DOMAIN p.tickets |-> IF i \in C THEN Close(p.tickets[i]) ELSE p.tickets[i]]
<1>1. U = [i \in DOMAIN p.tickets |-> U[i]]
  OBVIOUS
<1>2. \A i \in 1..Len(p.tickets) : U[i] \in Ticket /\ SameTicket(p.tickets[i], U[i])
  BY TicketsOf, Tickets
<1>3. Closed(p, C) = Release(Changed(p, U), C)
  BY DEF Closed
<1> HIDE DEF U
<1>4. Keeps(p, Changed(p, U)) /\ Changed(p, U) \in Board
  BY <1>1, <1>2, EachTicket DEF Keeps
<1> QED
  BY <1>3, <1>4, ReleaseKeeps, KeepsOnKeeping

LEMMA CloseStoriesKeeps ==
    ASSUME NEW p \in Board, NEW S
    PROVE  Keeps(p, CloseStories(p, S))
<1> DEFINE U == [i \in DOMAIN p.tickets |->
                   IF i \in S /\ p.step[i] = "closed" /\ p.tickets[i].on = {} THEN Close(p.tickets[i])
                   ELSE p.tickets[i]]
<1>1. U = [i \in DOMAIN p.tickets |-> U[i]]
  OBVIOUS
<1>2. \A i \in 1..Len(p.tickets) : U[i] \in Ticket /\ SameTicket(p.tickets[i], U[i])
  BY TicketsOf, Tickets
<1>3. CloseStories(p, S) = Changed(p, U)
  BY DEF CloseStories
<1> HIDE DEF U
<1> QED
  BY <1>1, <1>2, <1>3, EachTicket

\* A Step that is parked or comes back is not begun.
LEMMA StepKeeps ==
    ASSUME NEW p \in Board, NEW s \in Steps, NEW x \in StepStates,
           x \in Advanced => p.step[s] \in Advanced
    PROVE  Keeps(p, [p EXCEPT !.step[s] = x])
<1> DEFINE q == [p EXCEPT !.step[s] = x]
<1>1. q \in Board /\ q.tickets = p.tickets
  BY DEF Board
<1>2. \A r \in Steps : q.step[r] = IF r = s THEN x ELSE p.step[r]
  BY DEF Board
<1>3. Same(p.tickets, q.tickets)
  BY <1>1 DEF Same, SameTicket
<1> HIDE DEF q
<1>4. Keeps(p, q)
  BY <1>1, <1>2, <1>3 DEF Keeps
<1> QED
  BY <1>4 DEF q

LEMMA ParkedKeeps ==
    ASSUME NEW p \in Board, NEW s \in Steps
    PROVE  Keeps(p, Parked(p, s))
BY StepKeeps DEF Parked, StepStates, Advanced

LEMMA ReopenedKeeps ==
    ASSUME NEW p \in Board, NEW s \in Steps
    PROVE  Keeps(p, [p EXCEPT !.step[s] = Reopened(@)])
<1>1. p.step[s] \in StepStates /\ [p EXCEPT !.step[s] = Reopened(@)] = [p EXCEPT !.step[s] = Reopened(p.step[s])]
  BY DEF Board
<1>2. /\ Reopened(p.step[s]) \in StepStates
      /\ Reopened(p.step[s]) \in Advanced => p.step[s] \in Advanced
  BY <1>1 DEF Reopened, StepStates, Advanced, Satisfied
<1> QED
  BY <1>1, <1>2, StepKeeps

LEMMA ActivateKeeps ==
    ASSUME NEW p \in Board, NEW c \in 1..Len(p.tickets)
    PROVE  Keeps(p, Activate(p, c))
<1>1. c \in Nat /\ p.tickets[c].at \in Steps
  <2>1. Len(p.tickets) \in Nat /\ p.tickets[c] \in Ticket
    BY TicketsOf
  <2> QED
    BY <2>1 DEF Ticket
<1>2. \/ Activate(p, c) = p
      \/ \E T : Activate(p, c) = [Block(p, T, c) EXCEPT !.step[p.tickets[c].at] = Reopened(@)]
  BY DEF Activate
<1>3. ASSUME NEW T
      PROVE  Keeps(p, [Block(p, T, c) EXCEPT !.step[p.tickets[c].at] = Reopened(@)])
  <2>1. Keeps(p, Block(p, T, c)) /\ Block(p, T, c) \in Board
    BY <1>1, BlockKeeps DEF Keeps
  <2> HIDE DEF Board
  <2>2. Keeps(Block(p, T, c), [Block(p, T, c) EXCEPT !.step[p.tickets[c].at] = Reopened(@)])
    BY <1>1, <2>1, ReopenedKeeps
  <2> QED
    BY <2>1, <2>2, KeepsOnKeeping
<1> QED
  BY <1>2, <1>3, KeepsItself

-----------------------------------------------------------------------------
(* Boards.                                                                  *)

\* What is opened is opened behind the others.
Grows(T, U) ==
    /\ Len(U) \in Nat /\ Len(U) >= Len(T)
    /\ \A i \in 1..Len(T) : SameTicket(T[i], U[i])
Leads(p, q) == q \in Board /\ OnBoard(q) /\ Grows(p.tickets, q.tickets)

LEMMA LinkedAlike ==
    ASSUME NEW t, NEW u, NEW i, NEW n \in Nat, NEW m \in Nat, n <= m, Linked(t, i, n), SameTicket(t, u)
    PROVE  Linked(u, i, m)
<1>1. 0..n \subseteq 0..m
  OBVIOUS
<1>2. /\ i \in Steps => u.kind = "story" /\ u.at = i /\ u.cause = 0
      /\ i \notin Steps => u.kind # "story"
  BY DEF Linked, SameTicket
<1>3. {u.parent, u.bug, u.source, u.cause} \subseteq 0..m
  BY <1>1 DEF Linked, SameTicket
<1>4. u.origins \subseteq {u.trigger}
  BY DEF Linked, SameTicket
<1>5. u.cause \in {0, u.parent, u.bug, u.source} \cup Steps \/ Orphan(u)
  BY DEF Linked, SameTicket, Orphan
<1> QED
  BY <1>2, <1>3, <1>4, <1>5 DEF Linked

LEMMA KeepsLeads ==
    ASSUME NEW p \in Board, OnBoard(p), NEW q, Keeps(p, q)
    PROVE  Leads(p, q)
<1>1. /\ q \in Board /\ Len(q.tickets) = Len(p.tickets) /\ Len(p.tickets) \in Nat
      /\ \A i \in 1..Len(p.tickets) : SameTicket(p.tickets[i], q.tickets[i])
      /\ \A s \in Steps : q.step[s] \in Advanced => p.step[s] \in Advanced
  BY TicketsOf DEF Keeps, Same
<1>2. Links(q.tickets)
  <2>1. \A i \in 1..Len(p.tickets) : Linked(p.tickets[i], i, Len(p.tickets))
    BY DEF OnBoard, Links
  <2>2. ASSUME NEW i \in 1..Len(p.tickets) PROVE Linked(q.tickets[i], i, Len(p.tickets))
    BY <1>1, <2>1, LinkedAlike
  <2> QED
    BY <1>1, <2>2 DEF OnBoard, Links
<1>3. ASSUME BeforeCode PROVE Early(q.step, q.tickets)
  <2>1. Early(p.step, p.tickets)
    BY <1>3 DEF OnBoard
  <2>2. ASSUME NEW i \in 1..Len(p.tickets) PROVE EarlyTicket(q.tickets[i])
    BY <1>1, <2>1 DEF Early, EarlyTicket, SameTicket, IsCorrective, IsRequest
  <2> QED
    BY <1>1, <2>1, <2>2 DEF Early
<1>4. Grows(p.tickets, q.tickets)
  BY <1>1 DEF Grows
<1> QED
  BY <1>1, <1>2, <1>3, <1>4 DEF Leads, OnBoard

LEMMA LeadsOn ==
    ASSUME NEW p, NEW q, NEW r, Len(p.tickets) \in Nat, Leads(p, q), Leads(q, r)
    PROVE  Leads(p, r)
BY DEF Leads, Grows, SameTicket

\* A ticket is opened.
LEMMA OpenLeads ==
    ASSUME NEW p \in Board, OnBoard(p), NEW t \in Ticket, NEW T,
           Linked(t, Len(p.tickets) + 1, Len(p.tickets) + 1), BeforeCode => EarlyTicket(t)
    PROVE  Leads(p, Open(p, t, T)) /\ Len(Open(p, t, T).tickets) = Len(p.tickets) + 1
<1> DEFINE n == Len(p.tickets)
           q == [p EXCEPT !.tickets = Append(@, t)]
<1>1. p.tickets \in Seq(Ticket) /\ n \in Nat /\ n >= 2 * Pairs
  BY TicketsOf DEF OnBoard, Links
<1>2. q \in Board /\ q.step = p.step /\ q.tickets = Append(p.tickets, t)
  <2>1. Append(p.tickets, t) \in Seq(Ticket) /\ p.step \in [Steps -> StepStates]
    <3> HIDE DEF Ticket
    <3> QED
      BY <1>1, TicketsOf
  <2>2. q = [step |-> p.step, tickets |-> Append(p.tickets, t)]
    <3>1. p = [step |-> p.step, tickets |-> p.tickets]
      BY TicketsOf
    <3> QED
      BY <3>1
  <2> HIDE DEF q
  <2> QED
    BY <2>1, <2>2 DEF Board
<1>3. /\ Len(q.tickets) = n + 1 /\ q.tickets[n + 1] = t
      /\ \A i \in 1..n : q.tickets[i] = p.tickets[i]
  BY <1>1, <1>2
<1> HIDE DEF q
<1>4. Links(q.tickets)
  <2>1. ASSUME NEW i \in 1..n PROVE Linked(q.tickets[i], i, n + 1)
    <3>1. Linked(p.tickets[i], i, n)
      BY DEF OnBoard, Links
    <3>2. SameTicket(p.tickets[i], q.tickets[i])
      BY <1>3 DEF SameTicket
    <3> QED
      BY <1>1, <3>1, <3>2, LinkedAlike
  <2>2. ASSUME NEW i \in 1..(n + 1) PROVE Linked(q.tickets[i], i, n + 1)
    <3>1. i \in 1..n \/ i = n + 1
      BY <1>1
    <3> QED
      BY <1>3, <2>1, <3>1
  <2>3. n + 1 >= 2 * Pairs
    BY <1>1, Places
  <2> QED
    BY <1>3, <2>2, <2>3 DEF Links
<1>5. BeforeCode => Early(q.step, q.tickets)
  BY <1>1, <1>2, <1>3 DEF OnBoard, Early
<1>6. Grows(p.tickets, q.tickets)
  BY <1>1, <1>3 DEF Grows, SameTicket
<1>7. OnBoard(q) /\ Leads(p, q)
  BY <1>2, <1>4, <1>5, <1>6 DEF OnBoard, Leads
<1>8. Open(p, t, T) = Block(q, T, n + 1)
  BY DEF Open, q
<1>9. Keeps(q, Block(q, T, n + 1)) /\ Leads(q, Block(q, T, n + 1))
  BY <1>1, <1>2, <1>7, BlockKeeps, KeepsLeads
<1>10. Len(Block(q, T, n + 1).tickets) = n + 1
  BY <1>3, <1>9 DEF Keeps, Same
<1> HIDE DEF n
<1> QED
  BY <1>1, <1>7, <1>8, <1>9, <1>10, LeadsOn DEF n

\* A ticket as it is opened.
LEMMA FreshIs ==
    ASSUME NEW kind \in Kinds, NEW at \in Steps, NEW context \in Steps
    PROVE  Fresh(kind, at, context) \in Ticket
<1>1. NoLog \in [old : BOOLEAN, count : [Codes -> Nat]] /\ Budget \in Nat
  BY GatesAssumption DEF NoLog
<1> QED
  BY <1>1, Places DEF Fresh, Ticket, AllCodes, TicketStates

-----------------------------------------------------------------------------
(* The routing of a result.                                                 *)

LEMMA TicketHas ==
    ASSUME NEW t \in Ticket
    PROVE  /\ t.kind \in Kinds /\ t.at \in Steps /\ t.context \in Steps
           /\ t.parent \in Nat /\ t.bug \in Nat /\ t.source \in Nat /\ t.cause \in Nat
           /\ t.origins \subseteq Steps /\ t.trigger \in 0..(2 * Pairs) /\ t.route \subseteq Steps
           /\ t.left \in Nat /\ t.log \in [old : BOOLEAN, count : [Codes -> Nat]]
BY DEF Ticket

\* Ticket i is on the board, and at a Step before CODE as long as there is no code.
Works(i) == i \in 1..Len(tickets) /\ (BeforeCode => tickets[i].at < CODE)

LEMMA TheBoard ==
    ASSUME TypeOK, OnBoard(Both)
    PROVE  /\ Both.tickets = tickets /\ Both.step = step
           /\ Len(tickets) \in Nat /\ Len(tickets) >= 2 * Pairs
           /\ \A i \in 1..Len(tickets) : tickets[i] \in Ticket /\ Linked(tickets[i], i, Len(tickets))
           /\ BeforeCode => \A i \in 1..Len(tickets) : EarlyTicket(tickets[i])
           /\ Leads(Both, Both)
<1>1. Both.tickets = tickets /\ Both.step = step
  BY DEF Both
<1>2. Both \in Board
  BY DEF TypeOK
<1>3. Leads(Both, Both)
  BY <1>2, KeepsItself, KeepsLeads
<1>4. /\ Len(tickets) \in Nat
      /\ \A i \in 1..Len(tickets) : tickets[i] \in Ticket
  BY <1>1, <1>2, TicketsOf
<1> QED
  BY <1>1, <1>3, <1>4 DEF OnBoard, Links, Early

LEMMA NewIsLinked ==
    ASSUME NEW t, NEW n \in Nat, n >= 2 * Pairs, t.kind # "story",
           t.parent \in 0..n, t.bug \in 0..n, t.source \in 0..n, t.cause \in 0..n,
           t.origins \subseteq {t.trigger},
           t.cause \in {0, t.parent, t.bug, t.source} \cup Steps \/ Orphan(t)
    PROVE  Linked(t, n + 1, n + 1)
<1>1. n + 1 \notin Steps
  BY Places
<1>2. 0..n \subseteq 0..(n + 1)
  OBVIOUS
<1> QED
  BY <1>1, <1>2 DEF Linked

\* What is behind a correction that is opened: a Story, or the correction it names.
LEMMA RouteFailureLeads ==
    ASSUME TypeOK, OnBoard(Both), NEW i, Works(i), NEW s \in Steps, NEW g \in Steps,
           NEW parent \in 0..Len(tickets), NEW code \in AllCodes,
           i \in Steps \/ parent = i, BeforeCode => s < CODE /\ g <= CODE
    PROVE  /\ Leads(Both, RouteFailure(Both, i, s, g, parent, code))
           /\ Len(RouteFailure(Both, i, s, g, parent, code).tickets) = Len(tickets) + 1
<1> DEFINE found == IF tickets[i].at \in {s, g} THEN Parked(Both, s)
                    ELSE Parked(Parked(Both, s), tickets[i].at)
           routed == [found EXCEPT !.step[g] = IF g = s THEN @ ELSE Reopened(@)]
           t == [Fresh("bug", g, s) EXCEPT !.parent = parent, !.cause = i, !.code = code]
           n == Len(tickets)
<1>1. /\ Both \in Board /\ Both.tickets = tickets /\ n \in Nat /\ n >= 2 * Pairs
      /\ i \in 1..n /\ tickets[i].at \in Steps /\ i \in 0..n /\ i \in Nat /\ parent \in Nat
  BY TheBoard, TicketHas DEF TypeOK, Works
<1>2. Keeps(Both, found) /\ found \in Board
  <2>1. Keeps(Both, Parked(Both, s)) /\ Parked(Both, s) \in Board
    BY <1>1, ParkedKeeps DEF Keeps
  <2>2. Keeps(Parked(Both, s), Parked(Parked(Both, s), tickets[i].at))
    BY <1>1, <2>1, ParkedKeeps
  <2>3. Keeps(Both, Parked(Parked(Both, s), tickets[i].at))
    BY <2>1, <2>2, KeepsOnKeeping
  <2> QED
    BY <2>1, <2>3 DEF Keeps
<1> HIDE DEF found
<1>3. Keeps(Both, routed)
  <2>1. CASE g = s
    <3>1. routed = [found EXCEPT !.step[g] = found.step[g]]
      BY <2>1
    <3>2. Keeps(found, [found EXCEPT !.step[g] = found.step[g]])
      BY <1>2, StepKeeps, TicketsOf
    <3> QED
      BY <1>2, <3>1, <3>2, KeepsOnKeeping
  <2>2. CASE g # s
    <3>1. routed = [found EXCEPT !.step[g] = Reopened(@)]
      BY <2>2
    <3>2. Keeps(found, [found EXCEPT !.step[g] = Reopened(@)])
      BY <1>2, ReopenedKeeps
    <3> QED
      BY <1>2, <3>1, <3>2, KeepsOnKeeping
  <2> QED
    BY <2>1, <2>2
<1> HIDE DEF routed
<1>4. Leads(Both, routed) /\ routed \in Board /\ OnBoard(routed) /\ Len(routed.tickets) = n
  BY <1>1, <1>3, KeepsLeads DEF Leads, Keeps, Same
<1>5. /\ t \in Ticket /\ t.kind = "bug" /\ t.at = g /\ t.context = s /\ t.parent = parent
      /\ t.bug = 0 /\ t.source = 0 /\ t.cause = i /\ t.origins = {}
  <2>1. Fresh("bug", g, s) \in Ticket
    BY FreshIs DEF Kinds
  <2>2. t \in Ticket
    BY <1>1, <2>1 DEF Ticket
  <2> QED
    BY <2>2 DEF Fresh
<1> HIDE DEF t
<1>6. Linked(t, n + 1, n + 1)
  <2>1. /\ t.kind # "story" /\ t.parent \in 0..n /\ t.bug \in 0..n /\ t.source \in 0..n
        /\ t.cause \in 0..n /\ t.origins \subseteq {t.trigger} /\ t \in Ticket
        /\ t.cause \in {0, t.parent, t.bug, t.source} \cup Steps \/ Orphan(t)
    BY <1>1, <1>5
  <2> HIDE DEF n
  <2> QED
    BY <1>1, <1>5, <2>1, NewIsLinked
<1>7. BeforeCode => EarlyTicket(t)
  BY <1>5 DEF EarlyTicket, IsRequest, Requests
<1>8. RouteFailure(Both, i, s, g, parent, code) = Open(routed, t, {s, g} \cup ({parent} \ {0}))
  BY DEF RouteFailure, routed, found, t
<1>9. /\ Leads(routed, Open(routed, t, {s, g} \cup ({parent} \ {0})))
      /\ Len(Open(routed, t, {s, g} \cup ({parent} \ {0})).tickets) = n + 1
  BY <1>4, <1>5, <1>6, <1>7, OpenLeads
<1> QED
  BY <1>1, <1>4, <1>8, <1>9, LeadsOn

\* A gap that is not known yet is opened.
LEMMA RouteGapLeads ==
    ASSUME TypeOK, OnBoard(Both), NEW i, Works(i), NEW s \in Steps, NEW g \in Steps,
           NEW parent \in {0, i}, NEW bug \in {0, i}, NEW code \in AllCodes,
           BeforeCode => s < CODE /\ g <= CODE
    PROVE  /\ Leads(Both, RouteGap(Both, i, s, g, parent, bug, code))
           /\ \/ Len(RouteGap(Both, i, s, g, parent, bug, code).tickets) = Len(tickets) + 1
              \/ SameGap(s, g, parent, bug, code) # {}
<1> DEFINE routed == [Parked(Both, s) EXCEPT !.step[g] = IF g = s THEN @ ELSE Reopened(@)]
           t == [Fresh("enhancement", g, s) EXCEPT !.parent = parent, !.cause = i, !.bug = bug, !.code = code]
           T == {g} \cup ({parent} \ {0}) \cup ({bug} \ {0})
           n == Len(tickets)
<1>1. /\ Both \in Board /\ Both.tickets = tickets /\ n \in Nat /\ n >= 2 * Pairs
      /\ i \in 1..n /\ i \in 0..n /\ i \in Nat /\ Leads(Both, Both)
  BY TheBoard DEF TypeOK, Works
<1>2. Keeps(Both, Parked(Both, s)) /\ Parked(Both, s) \in Board
  BY <1>1, ParkedKeeps DEF Keeps
<1>3. Keeps(Both, routed)
  <2>1. CASE g = s
    <3>1. routed = [Parked(Both, s) EXCEPT !.step[g] = Parked(Both, s).step[g]]
      BY <2>1
    <3>2. Keeps(Parked(Both, s), [Parked(Both, s) EXCEPT !.step[g] = Parked(Both, s).step[g]])
      BY <1>2, StepKeeps, TicketsOf
    <3> QED
      BY <1>2, <3>1, <3>2, KeepsOnKeeping
  <2>2. CASE g # s
    <3>1. routed = [Parked(Both, s) EXCEPT !.step[g] = Reopened(@)]
      BY <2>2
    <3>2. Keeps(Parked(Both, s), [Parked(Both, s) EXCEPT !.step[g] = Reopened(@)])
      BY <1>2, ReopenedKeeps
    <3> QED
      BY <1>2, <3>1, <3>2, KeepsOnKeeping
  <2> QED
    BY <2>1, <2>2
<1> HIDE DEF routed
<1>4. Leads(Both, routed) /\ routed \in Board /\ OnBoard(routed) /\ Len(routed.tickets) = n
  BY <1>1, <1>3, KeepsLeads DEF Leads, Keeps, Same
<1>5. /\ t \in Ticket /\ t.kind = "enhancement" /\ t.at = g /\ t.context = s /\ t.parent = parent
      /\ t.bug = bug /\ t.source = 0 /\ t.cause = i /\ t.origins = {}
  <2>1. Fresh("enhancement", g, s) \in Ticket
    BY FreshIs DEF Kinds
  <2>2. parent \in Nat /\ bug \in Nat
    BY <1>1
  <2>3. t \in Ticket
    BY <1>1, <2>1, <2>2 DEF Ticket
  <2> QED
    BY <2>3 DEF Fresh
<1> HIDE DEF t
<1>6. Linked(t, n + 1, n + 1)
  <2>1. /\ t.kind # "story" /\ t.parent \in 0..n /\ t.bug \in 0..n /\ t.source \in 0..n
        /\ t.cause \in 0..n /\ t.origins \subseteq {t.trigger} /\ t \in Ticket
        /\ t.cause \in {0, t.parent, t.bug, t.source} \cup Steps \/ Orphan(t)
    BY <1>1, <1>5 DEF Orphan
  <2> HIDE DEF n
  <2> QED
    BY <1>1, <1>5, <2>1, NewIsLinked
<1>7. BeforeCode => EarlyTicket(t)
  BY <1>5 DEF EarlyTicket, IsRequest, Requests
<1>8. RouteGap(Both, i, s, g, parent, bug, code)
      = IF SameGap(s, g, parent, bug, code) # {} THEN Both ELSE Open(routed, t, T)
  BY DEF RouteGap, routed, t
<1>9. Leads(routed, Open(routed, t, T)) /\ Len(Open(routed, t, T).tickets) = n + 1
  BY <1>4, <1>5, <1>6, <1>7, OpenLeads
<1> QED
  BY <1>1, <1>4, <1>8, <1>9, LeadsOn

\* A Change Request that is opened for Step g because of Step s.
LEMMA RequestIs ==
    ASSUME TypeOK, OnBoard(Both), NEW g \in Steps, NEW s \in Steps, NEW kind \in Requests, NEW t,
           t = [Fresh(kind, g, g) EXCEPT !.trigger = s, !.source = s, !.cause = s, !.route = {d \in Steps : d > g}],
           BeforeCode => s < CODE /\ g <= CODE
    PROVE  /\ t \in Ticket /\ Linked(t, Len(tickets) + 1, Len(tickets) + 1)
           /\ BeforeCode => EarlyTicket(t)
<1> DEFINE n == Len(tickets)
<1>1. n \in Nat /\ n >= 2 * Pairs /\ s \in 0..n /\ s \in Nat /\ s \in 0..(2 * Pairs)
  BY TheBoard, Places DEF TypeOK
<1>2. /\ t \in Ticket /\ t.kind = kind /\ t.at = g /\ t.context = g /\ t.parent = 0 /\ t.bug = 0
      /\ t.source = s /\ t.cause = s /\ t.trigger = s /\ t.origins = {} /\ t.route = {d \in Steps : d > g}
  <2>1. Fresh(kind, g, g) \in Ticket
    BY FreshIs DEF Kinds
  <2>2. t \in Ticket
    BY <1>1, <2>1 DEF Ticket
  <2> QED
    BY <2>2 DEF Fresh
<1>3. Linked(t, n + 1, n + 1)
  <2>1. /\ t.kind # "story" /\ t.parent \in 0..n /\ t.bug \in 0..n /\ t.source \in 0..n
        /\ t.cause \in 0..n /\ t.origins \subseteq {t.trigger}
        /\ t.cause \in {0, t.parent, t.bug, t.source} \cup Steps \/ Orphan(t)
    BY <1>1, <1>2 DEF Requests
  <2> HIDE DEF n
  <2> QED
    BY <1>1, <1>2, <2>1, NewIsLinked
<1>4. BeforeCode => EarlyTicket(t)
  BY <1>2 DEF EarlyTicket, IsRequest, Requests
<1> QED
  BY <1>2, <1>3, <1>4

LEMMA RouteDependencyLeads ==
    ASSUME TypeOK, OnBoard(Both), NEW i, Works(i), NEW s \in Steps, BeforeCode => s < CODE
    PROVE  /\ Leads(Both, RouteDependency(Both, i, s))
           /\ \/ Len(RouteDependency(Both, i, s).tickets) = Len(tickets) + 1
              \/ SameRequest("dependency", Design, s) # {}
<1> DEFINE routed == [Parked(Both, s) EXCEPT !.step[Design] = Reopened(@)]
           t == [Fresh("dependency", Design, Design) EXCEPT !.trigger = s, !.source = s,
                                   !.cause = s, !.route = {d \in Steps : d > Design}]
           n == Len(tickets)
<1>1. Both \in Board /\ Both.tickets = tickets /\ n \in Nat
  BY TheBoard DEF TypeOK
<1>2. Keeps(Both, Parked(Both, s)) /\ Parked(Both, s) \in Board
  BY <1>1, ParkedKeeps DEF Keeps
<1>3. Keeps(Both, routed)
  <2>1. Keeps(Parked(Both, s), routed)
    BY <1>2, ReopenedKeeps, Places
  <2> HIDE DEF routed
  <2> QED
    BY <1>2, <2>1, KeepsOnKeeping
<1> HIDE DEF routed
<1>4. Leads(Both, routed) /\ routed \in Board /\ OnBoard(routed) /\ Len(routed.tickets) = n
  BY <1>1, <1>3, KeepsLeads DEF Leads, Keeps, Same
<1>5. t = [Fresh("dependency", Design, Design) EXCEPT !.trigger = s, !.source = s,
                                   !.cause = s, !.route = {d \in Steps : d > Design}]
  OBVIOUS
<1> HIDE DEF t
<1>6. /\ t \in Ticket /\ Linked(t, n + 1, n + 1)
      /\ BeforeCode => EarlyTicket(t)
  BY <1>5, RequestIs, Places DEF Requests
<1>8. RouteDependency(Both, i, s)
      = IF SameRequest("dependency", Design, s) # {} THEN routed ELSE Open(routed, t, {i})
  BY DEF RouteDependency, routed, t
<1>9. Leads(routed, Open(routed, t, {i})) /\ Len(Open(routed, t, {i}).tickets) = n + 1
  BY <1>4, <1>6, OpenLeads
<1> QED
  BY <1>1, <1>4, <1>8, <1>9, LeadsOn

LEMMA ActivateLeads ==
    ASSUME NEW p \in Board, OnBoard(p), NEW c \in 1..Len(p.tickets)
    PROVE  Leads(p, Activate(p, c)) /\ Len(Activate(p, c).tickets) = Len(p.tickets)
BY ActivateKeeps, KeepsLeads DEF Keeps, Same

LEMMA RouteContractLeads ==
    ASSUME TypeOK, OnBoard(Both), NEW i, Works(i), NEW s \in Steps, NEW g \in Steps,
           BeforeCode => s < CODE /\ g <= CODE
    PROVE  /\ Leads(Both, RouteContract(Both, i, s, g))
           /\ \/ Len(RouteContract(Both, i, s, g).tickets) = Len(tickets) + 1
              \/ SameRequest("contract", g, s) # {}
<1> DEFINE same == SameRequest("contract", g, s)
           t == [Fresh("contract", g, g) EXCEPT !.trigger = s, !.source = s,
                                       !.cause = s, !.route = {d \in Steps : d > g}]
           q == Open(Both, t, {})
           n == Len(tickets)
<1>1. Both \in Board /\ Both.tickets = tickets /\ n \in Nat
  BY TheBoard DEF TypeOK
<1>2. t = [Fresh("contract", g, g) EXCEPT !.trigger = s, !.source = s,
                                       !.cause = s, !.route = {d \in Steps : d > g}]
  OBVIOUS
<1> HIDE DEF t
<1>3. /\ t \in Ticket /\ Linked(t, n + 1, n + 1)
      /\ BeforeCode => EarlyTicket(t)
  BY <1>2, RequestIs DEF Requests
<1>4. Leads(Both, q) /\ Len(q.tickets) = n + 1
  BY <1>1, <1>3, OpenLeads
<1>5. RouteContract(Both, i, s, g)
      = IF same # {} THEN Activate(Both, Min(same)) ELSE Activate(q, n + 1)
  BY <1>1 DEF RouteContract, t, q
<1>6. CASE same # {}
  <2>1. same \subseteq 1..n
    BY DEF SameRequest, All
  <2> HIDE DEF same
  <2>2. Min(same) \in 1..n
    <3>1. same \subseteq Nat
      BY <2>1
    <3> QED
      BY <1>6, <2>1, <3>1, LeastIs
  <2> QED
    BY <1>1, <1>5, <1>6, <2>2, ActivateLeads DEF same
<1>7. CASE same = {}
  <2> HIDE DEF q
  <2>1. q \in Board /\ OnBoard(q) /\ n + 1 \in 1..Len(q.tickets)
    BY <1>1, <1>4 DEF Leads
  <2>2. Leads(q, Activate(q, n + 1)) /\ Len(Activate(q, n + 1).tickets) = Len(q.tickets)
    BY <2>1, ActivateLeads
  <2> QED
    BY <1>1, <1>4, <1>5, <1>7, <2>2, LeadsOn
<1> QED
  BY <1>6, <1>7

LEMMA LeastTicket ==
    ASSUME NEW S, S \subseteq All, S # {}
    PROVE  Min(S) \in Nat
<1>1. S \subseteq Nat
  BY DEF All
<1> QED
  BY <1>1, LeastIs

\* The ticket a finding came to: one that was opened for it, or one that there is.
LEMMA RoutedIs ==
    ASSUME NEW i, NEW f, NEW q, Len(tickets) \in Nat, Len(q.tickets) \in Nat,
           \/ Len(q.tickets) = Len(tickets) + 1
           \/ /\ Category(f) = "gap"
              /\ SameGap(tickets[i].at, f.target, ParentOf(i),
                         IF tickets[i].kind = "bug" THEN i ELSE 0, result.code) # {}
           \/ /\ Category(f) # "gap"
              /\ SameRequest(Category(f), IF Category(f) = "dependency" THEN Design ELSE f.target,
                             tickets[i].at) # {}
    PROVE  Routed(q, i, f) \in Nat
<1> DEFINE G == SameGap(tickets[i].at, f.target, ParentOf(i),
                        IF tickets[i].kind = "bug" THEN i ELSE 0, result.code)
           R == SameRequest(Category(f), IF Category(f) = "dependency" THEN Design ELSE f.target,
                            tickets[i].at)
<1>1. G # {} => Min(G) \in Nat
  <2>1. G \subseteq All
    BY DEF SameGap
  <2> HIDE DEF G
  <2> QED
    BY <2>1, LeastTicket
<1>2. R # {} => Min(R) \in Nat
  <2>1. R \subseteq All
    BY DEF SameRequest
  <2> HIDE DEF R
  <2> QED
    BY <2>1, LeastTicket
<1>3. Routed(q, i, f) = IF Len(q.tickets) > Len(tickets) THEN Len(q.tickets)
                        ELSE IF Category(f) = "gap" THEN Min(G) ELSE Min(R)
  BY DEF Routed
<1>4. \/ Len(q.tickets) = Len(tickets) + 1
      \/ Category(f) = "gap" /\ G # {}
      \/ Category(f) # "gap" /\ R # {}
  OBVIOUS
<1> HIDE DEF G, R
<1> QED
  BY <1>1, <1>2, <1>3, <1>4

\* A finding of the ticket at work becomes a ticket, or is one that there is.
LEMMA RouteFindingLeads ==
    ASSUME TypeOK, OnBoard(Both), NEW i, Works(i), NEW f \in Findings,
           PointsBack => f.target <= CODE \/ f.target = tickets[i].at,
           Mode(tickets[i]) \in {"debug", "enhancement"} => QualityGap(f)
    PROVE  Leads(Both, RouteFinding(Both, i, f)) /\ Routed(RouteFinding(Both, i, f), i, f) \in Nat
<1> DEFINE t == tickets[i]
           s == t.at
           g == f.target
           q == RouteFinding(Both, i, f)
           parent == ParentOf(i)
           bug == IF t.kind = "bug" THEN i ELSE 0
<1>1. /\ t \in Ticket /\ s \in Steps /\ g \in Steps /\ Linked(t, i, Len(tickets))
      /\ t.kind \in Kinds /\ i \in 1..Len(tickets) /\ Len(tickets) \in Nat
  BY TheBoard, TicketHas DEF Works, Findings
<1>2. BeforeCode => s < CODE /\ g <= CODE
  <2>1. BeforeCode => PointsBack
    BY DEF BeforeCode
  <2>2. s \in Nat /\ g \in Nat /\ CODE \in Nat
    BY <1>1, Places
  <2>3. BeforeCode => s < CODE
    BY DEF Works
  <2>4. PointsBack => g <= CODE \/ g = s
    OBVIOUS
  <2> HIDE DEF s, g
  <2> QED
    BY <2>1, <2>2, <2>3, <2>4
<1>3. parent \in {0, i} /\ bug \in {0, i} /\ parent \in 0..Len(tickets) /\ result.code \in AllCodes
  BY <1>1 DEF ParentOf, TypeOK, Result
<1>4. ASSUME NEW r, Leads(Both, r) PROVE Len(r.tickets) \in Nat
  BY <1>4 DEF Leads, Grows
<1>5. CASE Category(f) = "contract"
  <2>1. q = RouteContract(Both, i, s, g)
    BY <1>5 DEF RouteFinding
  <2>2. /\ Leads(Both, q)
        /\ Len(q.tickets) = Len(tickets) + 1 \/ SameRequest("contract", g, s) # {}
    BY <1>1, <1>2, <2>1, RouteContractLeads
  <2> HIDE DEF q
  <2>3. Routed(q, i, f) \in Nat
    BY <1>1, <1>4, <1>5, <2>2, RoutedIs
  <2> QED
    BY <2>2, <2>3 DEF q
<1>6. CASE Category(f) = "dependency"
  <2>1. q = RouteDependency(Both, i, s)
    BY <1>6 DEF RouteFinding
  <2>2. /\ Leads(Both, q)
        /\ Len(q.tickets) = Len(tickets) + 1 \/ SameRequest("dependency", Design, s) # {}
    BY <1>1, <1>2, <2>1, RouteDependencyLeads
  <2> HIDE DEF q
  <2>3. Routed(q, i, f) \in Nat
    BY <1>1, <1>4, <1>6, <2>2, RoutedIs
  <2> QED
    BY <2>2, <2>3 DEF q
<1>7. CASE Category(f) = "defect"
  <2>1. q = RouteFailure(Both, i, s, g, parent, result.code)
    BY <1>7 DEF RouteFinding
  <2>2. ~ QualityGap(f)
    BY <1>7 DEF Category, QualityGap
  <2>3. i \in Steps \/ parent = i
    <3>1. Mode(t) \notin {"debug", "enhancement"}
      BY <2>2
    <3>2. t.kind = "story" \/ IsRequest(t)
      BY <1>1, <3>1 DEF Mode, Kinds, IsRequest
    <3> QED
      BY <1>1, <3>2 DEF Linked, ParentOf
  <2>4. Leads(Both, q) /\ Len(q.tickets) = Len(tickets) + 1
    BY <1>1, <1>2, <1>3, <2>1, <2>3, RouteFailureLeads
  <2> HIDE DEF q
  <2>5. Routed(q, i, f) \in Nat
    BY <1>1, <1>4, <2>4, RoutedIs
  <2> QED
    BY <2>4, <2>5 DEF q
<1>8. CASE Category(f) = "gap"
  <2>1. q = RouteGap(Both, i, s, g, parent, bug, result.code)
    BY <1>8 DEF RouteFinding
  <2>2. /\ Leads(Both, q)
        /\ Len(q.tickets) = Len(tickets) + 1 \/ SameGap(s, g, parent, bug, result.code) # {}
    BY <1>1, <1>2, <1>3, <2>1, RouteGapLeads
  <2> HIDE DEF q
  <2>3. Routed(q, i, f) \in Nat
    BY <1>1, <1>4, <1>8, <2>2, RoutedIs
  <2> QED
    BY <2>2, <2>3 DEF q
<1>9. Category(f) \in {"contract", "dependency", "defect", "gap"}
  BY DEF Category
<1> QED
  BY <1>5, <1>6, <1>7, <1>8, <1>9

-----------------------------------------------------------------------------
(* Deliveries.                                                              *)

LEMMA StepLeads ==
    ASSUME NEW p \in Board, OnBoard(p), NEW s \in Steps, NEW x \in StepStates, BeforeCode => s < CODE
    PROVE  Leads(p, [p EXCEPT !.step[s] = x]) /\ [p EXCEPT !.step[s] = x].tickets = p.tickets
<1> DEFINE q == [p EXCEPT !.step[s] = x]
<1>1. q \in Board /\ q.tickets = p.tickets /\ \A r \in Steps : q.step[r] = IF r = s THEN x ELSE p.step[r]
  BY DEF Board
<1>2. Len(p.tickets) \in Nat
  BY TicketsOf
<1> HIDE DEF q
<1>3. OnBoard(q)
  BY <1>1, Places DEF OnBoard, Early
<1>4. Grows(p.tickets, q.tickets)
  BY <1>1, <1>2 DEF Grows, SameTicket
<1>5. Leads(p, q)
  BY <1>1, <1>3, <1>4 DEF Leads
<1> QED
  BY <1>1, <1>5 DEF q

LEMMA DeliverLeads ==
    ASSUME NEW p \in Board, OnBoard(p), NEW s \in Steps, BeforeCode => s < CODE
    PROVE  Leads(p, Deliver(p, s)) /\ Deliver(p, s).tickets = p.tickets
<1>1. CASE ~ Verifies(s)
  BY <1>1, StepLeads DEF Deliver, StepStates
<1>2. CASE Verifies(s)
  <2> DEFINE q == [p EXCEPT !.step[s] = "closed"]
             x == IF p.step[Paired(s)] = "delivered" THEN "closed" ELSE p.step[Paired(s)]
  <2>1. ~ BeforeCode /\ Paired(s) \in Steps
    BY <1>2, Places
  <2>2. Leads(p, q) /\ q.tickets = p.tickets /\ q \in Board /\ OnBoard(q)
    BY StepLeads DEF StepStates, Leads
  <2>3. Deliver(p, s) = [q EXCEPT !.step[Paired(s)] = x]
    BY <1>2 DEF Deliver
  <2>4. x \in StepStates
    <3>1. p.step[Paired(s)] \in StepStates
      BY <2>1, TicketsOf
    <3> QED
      BY <3>1 DEF StepStates
  <2> HIDE DEF q, x
  <2>5. Leads(q, [q EXCEPT !.step[Paired(s)] = x]) /\ [q EXCEPT !.step[Paired(s)] = x].tickets = q.tickets
    BY <2>1, <2>2, <2>4, StepLeads
  <2> QED
    BY <2>2, <2>3, <2>5, LeadsOn, TicketsOf
<1> QED
  BY <1>1, <1>2

\* A ticket changes in how it stands.
LEMMA StandKeeps ==
    ASSUME NEW p \in Board, NEW i \in 1..Len(p.tickets), NEW u \in Ticket, SameTicket(p.tickets[i], u)
    PROVE  Keeps(p, [p EXCEPT !.tickets[i] = u])
<1> DEFINE T == [p.tickets EXCEPT ![i] = u]
<1>1. p.tickets \in Seq(Ticket) /\ DOMAIN p.tickets = 1..Len(p.tickets) /\ Len(p.tickets) \in Nat
  BY TicketsOf
<1>2. T = [j \in DOMAIN p.tickets |-> IF j = i THEN u ELSE p.tickets[j]]
  BY <1>1
<1>3. /\ T = [j \in DOMAIN p.tickets |-> T[j]]
      /\ \A j \in 1..Len(p.tickets) : T[j] \in Ticket /\ SameTicket(p.tickets[j], T[j])
  <2>1. \A j \in 1..Len(p.tickets) : T[j] = IF j = i THEN u ELSE p.tickets[j]
    BY <1>1, <1>2
  <2>2. \A j \in 1..Len(p.tickets) : T[j] \in Ticket /\ SameTicket(p.tickets[j], T[j])
    BY <2>1, TicketsOf DEF SameTicket
  <2> QED
    BY <1>1, <1>2, <2>2
<1>4. [p EXCEPT !.tickets[i] = u] = Changed(p, T)
  BY DEF Changed
<1>5. Keeps(p, Changed(p, T))
  <2> HIDE DEF T
  <2> QED
    BY <1>3, EachTicket
<1> QED
  BY <1>4, <1>5

LEMMA StateKeeps ==
    ASSUME NEW p \in Board, NEW i \in 1..Len(p.tickets), NEW x \in TicketStates
    PROVE  Keeps(p, [p EXCEPT !.tickets[i].state = x])
<1> DEFINE u == [p.tickets[i] EXCEPT !.state = x]
<1>1. p.tickets[i] \in Ticket
  BY TicketsOf
<1>2. u \in Ticket /\ SameTicket(p.tickets[i], u)
  BY <1>1 DEF Ticket, SameTicket
<1>3. [p EXCEPT !.tickets[i].state = x] = [p EXCEPT !.tickets[i] = u]
  OBVIOUS
<1> HIDE DEF u
<1> QED
  BY <1>2, <1>3, StandKeeps

\* What a Story delivers.
LEMMA DeliverNormalLeads ==
    ASSUME TypeOK, OnBoard(Both), NEW i \in Steps, Works(i), tickets[i].at = i
    PROVE  Leads(Both, DeliverNormal(i))
<1> DEFINE p == Deliver(Both, i)
           x == IF Verifies(i) THEN "closed" ELSE "resolved"
           q == [p EXCEPT !.tickets[i].state = x]
           y == IF Verifies(i) /\ p.step[Paired(i)] = "closed" /\ p.tickets[Paired(i)].state = "resolved"
                THEN "closed" ELSE p.tickets[Paired(i)].state
<1>1. Leads(Both, p) /\ p.tickets = tickets /\ p \in Board /\ OnBoard(p)
  BY DeliverLeads, TheBoard DEF TypeOK, Works, Leads
<1>2. i \in 1..Len(tickets) /\ Paired(i) \in 1..Len(tickets)
  <2>1. Steps = 1..(2 * Pairs) /\ 2 * Pairs \in Nat /\ Paired(i) \in Steps
    BY Places
  <2>2. Len(tickets) \in Nat /\ Len(tickets) >= 2 * Pairs
    BY TheBoard
  <2> QED
    BY <2>1, <2>2
<1>3. DeliverNormal(i) = [q EXCEPT !.tickets[Paired(i)].state = y]
  BY DEF DeliverNormal
<1> HIDE DEF p
<1>4. Keeps(p, q) /\ q \in Board /\ Len(q.tickets) = Len(tickets)
  <2>1. Keeps(p, q)
    BY <1>1, <1>2, StateKeeps DEF TicketStates
  <2> HIDE DEF q
  <2> QED
    BY <1>1, <2>1 DEF Keeps, Same
<1>5. y \in TicketStates
  <2>1. p.tickets[Paired(i)] \in Ticket
    BY <1>1, <1>2, TicketsOf
  <2>2. p.tickets[Paired(i)].state \in TicketStates
    BY <2>1 DEF Ticket
  <2> QED
    BY <2>2 DEF TicketStates
<1> HIDE DEF q, y
<1>6. Keeps(p, [q EXCEPT !.tickets[Paired(i)].state = y])
  BY <1>2, <1>4, <1>5, StateKeeps, KeepsOnKeeping
<1> QED
  BY <1>1, <1>3, <1>6, KeepsLeads, LeadsOn, TheBoard

\* A correction that was made inside a Change Request waits for it, and the request goes on.
LEMMA AwaitLeads ==
    ASSUME NEW p \in Board, OnBoard(p), NEW i \in 1..Len(p.tickets), p.tickets[i].parent # 0
    PROVE  Leads(p, Await(p, i))
<1> DEFINE q == [p EXCEPT !.tickets[i].state = "resolved"]
           r == Release(q, {i})
           c == p.tickets[i].parent
<1>1. Len(p.tickets) \in Nat /\ p.tickets[i] \in Ticket /\ Linked(p.tickets[i], i, Len(p.tickets))
  BY TicketsOf DEF OnBoard, Links
<1>2. c \in 1..Len(p.tickets)
  BY <1>1 DEF Linked
<1>3. Keeps(p, q) /\ q \in Board
  <2>1. Keeps(p, q)
    BY StateKeeps DEF TicketStates
  <2> HIDE DEF q
  <2> QED
    BY <2>1 DEF Keeps
<1>4. Await(p, i) = Activate(r, c)
  BY DEF Await
<1> HIDE DEF q
<1>5. Keeps(p, r) /\ r \in Board /\ Len(r.tickets) = Len(p.tickets)
  <2>1. Keeps(p, r)
    BY <1>3, ReleaseKeeps, KeepsOnKeeping
  <2> QED
    BY <2>1 DEF Keeps, Same
<1> HIDE DEF r, c
<1>6. Keeps(p, Activate(r, c))
  BY <1>2, <1>5, ActivateKeeps, KeepsOnKeeping
<1> QED
  BY <1>4, <1>6, KeepsLeads

\* A correction that is made before there is code is carried to the next Step.
LEMMA NextStep ==
    ASSUME NEW s \in Steps, s < CODE, NEW next, next = Min({d \in Steps : d > s})
    PROVE  next = s + 1 /\ next <= CODE
<1> DEFINE S == {d \in Steps : d > s}
<1>1. s + 1 \in S /\ S \subseteq Nat /\ \A d \in S : d >= s + 1
  BY Places
<1>2. next = Min(S)
  OBVIOUS
<1> HIDE DEF S
<1>3. next \in S /\ \A d \in S : next <= d
  BY <1>1, <1>2, LeastIs
<1>4. next = s + 1
  <2>1. next \in Nat /\ s + 1 \in Nat /\ next <= s + 1 /\ next >= s + 1
    BY <1>1, <1>3, Places
  <2> QED
    BY <2>1
<1> QED
  BY <1>4, Places

LEMMA CarriedOn ==
    ASSUME NEW t \in Ticket, NEW parent \in Nat, NEW source \in Nat, NEW trigger \in 0..(2 * Pairs),
           NEW cause \in Nat, NEW origins \in SUBSET Steps, NEW route \in SUBSET Steps
    PROVE  [t EXCEPT !.parent = parent, !.source = source, !.trigger = trigger, !.cause = cause,
                     !.origins = origins, !.route = route] \in Ticket
BY DEF Ticket

LEMMA PropagateLeads ==
    ASSUME TypeOK, OnBoard(Both), NEW i, Works(i), tickets[i].kind \in {"bug", "enhancement"},
           NEW affected, affected \subseteq Steps, affected # {},
           BeforeCode => affected = Downstream(tickets[i].at)
    PROVE  Leads(Both, Propagate(i, affected))
<1> DEFINE t == tickets[i]
           p == [Both EXCEPT !.step[t.at] = "delivered"]
           next == Min(affected)
           request == [Fresh("correction", next, next) EXCEPT
                        !.parent = t.parent, !.source = i, !.trigger = t.context, !.cause = i,
                        !.origins = IF t.kind = "bug" THEN {t.context} ELSE {},
                        !.route = affected \ {next}]
           n == Len(tickets)
           q == [p EXCEPT !.tickets[i].state = "resolved"]
           o == Open(q, request, {})
<1>1. /\ Both \in Board /\ Both.tickets = tickets /\ n \in Nat /\ n >= 2 * Pairs /\ i \in 1..n
      /\ t \in Ticket /\ t.at \in Steps /\ t.context \in Steps /\ Linked(t, i, n)
      /\ t.parent \in Nat /\ t.parent \in 0..n
      /\ BeforeCode => t.at < CODE /\ EarlyTicket(t)
  <2>1. Both \in Board /\ Both.tickets = tickets /\ n \in Nat /\ n >= 2 * Pairs /\ i \in 1..n
    BY TheBoard DEF TypeOK, Works
  <2>2. t \in Ticket /\ Linked(t, i, n) /\ (BeforeCode => t.at < CODE /\ EarlyTicket(t))
    BY <2>1, TheBoard DEF Works
  <2> QED
    BY <2>1, <2>2, TicketHas DEF Linked
<1>2. next \in affected /\ next \in Steps
  <2>1. affected \subseteq Nat
    BY Places
  <2> QED
    BY <2>1, LeastIs
<1>3. Leads(Both, p) /\ p \in Board /\ OnBoard(p) /\ p.tickets = tickets
  BY <1>1, StepLeads DEF StepStates, Leads
<1>4. CASE Meets(p, i, next)
  <2>1. Propagate(i, affected) = Await(p, i)
    BY <1>4 DEF Propagate
  <2>2. p.tickets[i].parent # 0
    BY <1>4 DEF Meets
  <2> HIDE DEF p
  <2> QED
    BY <1>1, <1>3, <2>1, <2>2, AwaitLeads, LeadsOn
<1>5. CASE ~ Meets(p, i, next)
  <2>1. Propagate(i, affected) = Activate(o, n + 1)
    BY <1>5 DEF Propagate
  <2> HIDE DEF p
  <2>2. Leads(p, q) /\ q \in Board /\ OnBoard(q) /\ Len(q.tickets) = n
    <3>1. Keeps(p, q)
      BY <1>1, <1>3, StateKeeps DEF TicketStates
    <3> HIDE DEF q
    <3> QED
      BY <1>3, <3>1, KeepsLeads DEF Leads, Keeps, Same
  <2> HIDE DEF q
  <2>3. /\ request \in Ticket /\ request.kind = "correction" /\ request.at = next
        /\ request.parent = t.parent /\ request.bug = 0 /\ request.source = i /\ request.cause = i
        /\ request.trigger = t.context /\ request.origins \subseteq {t.context}
        /\ request.route = affected \ {next}
    <3>1. Fresh("correction", next, next) \in Ticket
      BY <1>2, FreshIs DEF Kinds, Requests
    <3>2. i \in Nat /\ t.context \in 0..(2 * Pairs)
      <4> HIDE DEF t
      <4>1. i \in Nat
        BY <1>1
      <4>2. t.context \in 1..(2 * Pairs) /\ 2 * Pairs \in Nat
        BY <1>1, Places
      <4> QED
        BY <4>1, <4>2
    <3>3. affected \ {next} \subseteq Steps /\ (IF t.kind = "bug" THEN {t.context} ELSE {}) \subseteq Steps
      BY <1>1
    <3>4. request \in Ticket
      <4> DEFINE fresh == Fresh("correction", next, next)
                 origins == IF t.kind = "bug" THEN {t.context} ELSE {}
                 route == affected \ {next}
      <4>1. request = [fresh EXCEPT !.parent = t.parent, !.source = i, !.trigger = t.context, !.cause = i,
                                    !.origins = origins, !.route = route]
        OBVIOUS
      <4>2. fresh \in Ticket /\ origins \in SUBSET Steps /\ route \in SUBSET Steps
        BY <3>1, <3>3
      <4> HIDE DEF fresh, origins, route, request
      <4> QED
        BY <1>1, <3>2, <4>1, <4>2, CarriedOn
    <3> QED
      BY <3>4 DEF Fresh
  <2> HIDE DEF request
  <2>4. Linked(request, n + 1, n + 1)
    <3>1. /\ request.kind # "story" /\ request.parent \in 0..n /\ request.bug \in 0..n
          /\ request.source \in 0..n /\ request.cause \in 0..n
          /\ request.origins \subseteq {request.trigger} /\ request \in Ticket
          /\ request.cause \in {0, request.parent, request.bug, request.source} \cup Steps
      BY <1>1, <2>3
    <3> HIDE DEF n
    <3> QED
      BY <1>1, <3>1, NewIsLinked
  <2>5. ASSUME BeforeCode PROVE EarlyTicket(request)
    <3>1. affected = {d \in Steps : d > t.at} /\ t.at < CODE
      BY <1>1, <2>5 DEF Downstream
    <3> HIDE DEF next
    <3>2. next = Min({d \in Steps : d > t.at})
      BY <3>1 DEF next
    <3>3. next = t.at + 1 /\ next <= CODE
      BY <1>1, <3>1, <3>2, NextStep
    <3>4. affected \ {next} = {d \in Steps : d > next}
      <4>1. ASSUME NEW d \in Steps PROVE d > next <=> d > t.at /\ d # next
        <5>1. d \in Nat /\ t.at \in Nat
          BY <1>1, Places
        <5> QED
          BY <3>3, <5>1
      <4> QED
        BY <3>1, <4>1
    <3>5. t.context < CODE
      BY <1>1, <2>5 DEF EarlyTicket
    <3> QED
      BY <2>3, <3>3, <3>4, <3>5 DEF EarlyTicket, IsRequest, Requests
  <2>6. Leads(q, o) /\ Len(o.tickets) = n + 1
    BY <2>2, <2>3, <2>4, <2>5, OpenLeads
  <2> HIDE DEF o
  <2>7. Leads(o, Activate(o, n + 1))
    <3>1. o \in Board /\ OnBoard(o) /\ n + 1 \in 1..Len(o.tickets)
      BY <1>1, <2>6 DEF Leads
    <3> QED
      BY <3>1, ActivateLeads
  <2>8. Leads(Both, q)
    BY <1>1, <1>3, <2>2, LeadsOn
  <2>9. Leads(Both, o)
    BY <1>1, <2>6, <2>8, LeadsOn
  <2> QED
    BY <1>1, <2>1, <2>7, <2>9, LeadsOn
<1> QED
  BY <1>4, <1>5

-----------------------------------------------------------------------------
(* Change Requests.                                                         *)

LEMMA LastHopKeeps ==
    ASSUME NEW p \in Board, NEW c, NEW s
    PROVE  Keeps(p, ProvenHere(p, c, s)) /\ Keeps(p, LastHop(p, c))
BY ClosedKeeps DEF ProvenHere, LastHop

LEMMA WakeKeeps ==
    ASSUME NEW p \in Board, Links(p.tickets), NEW c \in 1..Len(p.tickets)
    PROVE  Keeps(p, Wake(p, c))
<1>1. /\ p.tickets[c] \in Ticket /\ p.tickets[c].parent \in 0..Len(p.tickets)
      /\ Len(p.tickets) \in Nat
  BY TicketsOf DEF Links, Linked
<1>2. Wake(p, c) = IF p.tickets[c].parent = 0 \/ p.tickets[c].hopped THEN p
                   ELSE Activate(p, p.tickets[c].parent)
  BY DEF Wake
<1>3. ASSUME p.tickets[c].parent # 0 PROVE Keeps(p, Activate(p, p.tickets[c].parent))
  <2>1. p.tickets[c].parent \in 1..Len(p.tickets)
    BY <1>1, <1>3
  <2> QED
    BY <2>1, ActivateKeeps
<1> QED
  BY <1>2, <1>3, KeepsItself

\* What a replay proves of a ticket.
LEMMA ProvenTicket ==
    ASSUME NEW t \in Ticket, NEW B \in BOOLEAN
    PROVE  [t EXCEPT !.proven = @ \/ B] \in Ticket /\ SameTicket(t, [t EXCEPT !.proven = @ \/ B])
<1> DEFINE C == t.proven \/ B
<1>1. C \in BOOLEAN
  OBVIOUS
<1>2. [t EXCEPT !.proven = @ \/ B] = [t EXCEPT !.proven = C]
  OBVIOUS
<1> HIDE DEF C
<1>3. [t EXCEPT !.proven = C] \in Ticket /\ SameTicket(t, [t EXCEPT !.proven = C])
  BY <1>1 DEF Ticket, SameTicket
<1> QED
  BY <1>2, <1>3

\* The request is another ticket at the next Step.
LEMMA HopHolds ==
    ASSUME NEW p \in Board, OnBoard(p), NEW c \in 1..Len(p.tickets), IsRequest(p.tickets[c]),
           NEW next \in Steps,
           BeforeCode => next = Min(p.tickets[c].route) /\ p.tickets[c].at < CODE
    PROVE  /\ Hop(p, c, next) \in Board /\ OnBoard(Hop(p, c, next))
           /\ Len(Hop(p, c, next).tickets) = Len(p.tickets)
<1> DEFINE t == p.tickets[c]
           u == Moved(t, next)
           n == Len(p.tickets)
           T == [p.tickets EXCEPT ![c] = u]
           q == [step |-> p.step, tickets |-> T]
<1>1. /\ p.tickets \in Seq(Ticket) /\ n \in Nat /\ n >= 2 * Pairs /\ DOMAIN p.tickets = 1..n
      /\ t \in Ticket /\ Linked(t, c, n) /\ p.step \in [Steps -> StepStates]
      /\ p = [step |-> p.step, tickets |-> p.tickets]
  BY TicketsOf DEF OnBoard, Links
<1>2. u \in Ticket
  <2>1. NoLog \in [old : BOOLEAN, count : [Codes -> Nat]] /\ Budget \in Nat
    BY GatesAssumption DEF NoLog
  <2>2. t.route \ {next} \in SUBSET Steps
    BY <1>1, TicketHas
  <2> QED
    BY <1>1, <2>1, <2>2 DEF Moved, Ticket, TicketStates
<1>3. /\ u.kind = t.kind /\ u.at = next /\ u.context = next /\ u.parent = t.parent /\ u.bug = t.bug
      /\ u.source = t.source /\ u.cause = t.cause /\ u.origins = t.origins /\ u.trigger = t.trigger
      /\ u.route = t.route \ {next}
  BY <1>1 DEF Moved, Ticket
<1> HIDE DEF u
<1>4. /\ T \in Seq(Ticket) /\ Len(T) = n /\ T[c] = u
      /\ \A i \in 1..n : i # c => T[i] = p.tickets[i]
  <2> HIDE DEF Ticket
  <2> QED
    BY <1>1, <1>2
<1>5. q \in Board /\ q.tickets = T /\ q.step = p.step
  <2> HIDE DEF T
  <2> QED
    BY <1>1, <1>4 DEF Board
<1>6. Hop(p, c, next) = Activate(Release(q, {c}), c)
  <2>1. [p EXCEPT !.tickets[c] = u] = q
    <3>1. [[step |-> p.step, tickets |-> p.tickets] EXCEPT !.tickets[c] = u] = q
      OBVIOUS
    <3> QED
      BY <1>1, <3>1
  <2> HIDE DEF q
  <2> QED
    BY <2>1 DEF Hop, u
<1> HIDE DEF q, T
<1>7. c \notin Steps /\ t.kind # "story"
  BY <1>1 DEF Linked, IsRequest, Requests
<1>8. Links(q.tickets)
  <2>1. \A i \in 1..n : Linked(p.tickets[i], i, n)
    BY DEF OnBoard, Links
  <2>2. Linked(u, c, n)
    <3>1. {u.parent, u.bug, u.source, u.cause} \subseteq 0..n /\ u.origins \subseteq {u.trigger}
      BY <1>1, <1>3 DEF Linked
    <3>2. u.cause \in {0, u.parent, u.bug, u.source} \cup Steps \/ Orphan(u)
      BY <1>1, <1>3 DEF Linked, Orphan
    <3> QED
      BY <1>3, <1>7, <3>1, <3>2 DEF Linked
  <2>3. ASSUME NEW i \in 1..n PROVE Linked(q.tickets[i], i, n)
    BY <1>4, <1>5, <2>1, <2>2
  <2> QED
    BY <1>1, <1>4, <1>5, <2>3 DEF Links
<1>9. ASSUME BeforeCode PROVE Early(q.step, q.tickets)
  <2>1. Early(p.step, p.tickets) /\ EarlyTicket(t) /\ t.at \in Steps
    BY <1>1, <1>9, TicketHas DEF OnBoard, Early
  <2>2. t.route = {d \in Steps : d > t.at} /\ t.trigger < CODE
    BY <2>1 DEF EarlyTicket
  <2>3. next = t.at + 1 /\ next <= CODE
    <3>1. next = Min({d \in Steps : d > t.at}) /\ t.at < CODE
      BY <1>9, <2>2
    <3> QED
      BY <2>1, <3>1, NextStep
  <2>4. u.route = {d \in Steps : d > next}
    <3>1. ASSUME NEW d \in Steps PROVE d > next <=> d > t.at /\ d # next
      <4>1. d \in Nat /\ t.at \in Nat
        BY <2>1, Places
      <4> QED
        BY <2>3, <4>1
    <3> QED
      BY <1>3, <2>2, <3>1
  <2>5. EarlyTicket(u)
    BY <1>3, <1>7, <2>2, <2>3, <2>4 DEF EarlyTicket, IsRequest, Requests
  <2> QED
    BY <1>4, <1>5, <2>1, <2>5 DEF Early
<1>10. OnBoard(q) /\ c \in 1..Len(q.tickets) /\ Len(q.tickets) = n
  BY <1>4, <1>5, <1>8, <1>9 DEF OnBoard
<1>11. Keeps(q, Release(q, {c})) /\ Release(q, {c}) \in Board /\ Len(Release(q, {c}).tickets) = n
  BY <1>5, <1>10, ReleaseKeeps DEF Keeps, Same
<1>12. Keeps(q, Activate(Release(q, {c}), c))
  BY <1>10, <1>11, ActivateKeeps, KeepsOnKeeping
<1>13. Leads(q, Hop(p, c, next)) /\ Len(Hop(p, c, next).tickets) = n
  BY <1>5, <1>6, <1>10, <1>12, KeepsLeads DEF Keeps, Same
<1> QED
  BY <1>13 DEF Leads

\* A Change Request has a Step before it until it was carried to the end.
LEMMA ApplyHolds ==
    ASSUME TypeOK, OnBoard(Both), NEW c, Works(c), IsRequest(tickets[c])
    PROVE  Apply(c) \in Board /\ OnBoard(Apply(c))
<1> DEFINE t == tickets[c]
           s == t.at
           n == Len(tickets)
           met == t.route # {} /\ t.source # 0 /\ Meets(Both, t.source, Min(t.route))
           q == Deliver(Both, s)
           Shown(b) == b \in BugsOf(t) /\ Proving(b) = s
           T == [b \in DOMAIN q.tickets |-> [q.tickets[b] EXCEPT !.proven = @ \/ Shown(b)]]
           p == ProvenHere(Changed(q, T), c, s)
           elsewhere == {Proving(b) : b \in Unproven(t, s)}
           rest == IF t.route # {} THEN t.route ELSE elsewhere
<1>1. /\ Both \in Board /\ Both.tickets = tickets /\ n \in Nat /\ c \in 1..n /\ t \in Ticket
      /\ s \in Steps /\ t.route \subseteq Steps /\ Linked(t, c, n) /\ Leads(Both, Both)
      /\ t.source \in 0..n /\ t.parent \in 0..n
      /\ BeforeCode => s < CODE /\ EarlyTicket(t)
  <2>1. /\ Both \in Board /\ Both.tickets = tickets /\ n \in Nat /\ c \in 1..n /\ Leads(Both, Both)
    BY TheBoard DEF TypeOK, Works
  <2>2. t \in Ticket /\ Linked(t, c, n) /\ (BeforeCode => s < CODE /\ EarlyTicket(t))
    BY <2>1, TheBoard DEF Works
  <2> QED
    BY <2>1, <2>2, TicketHas DEF Linked
<1>2. Leads(Both, q) /\ q.tickets = tickets /\ q \in Board /\ OnBoard(q)
  BY <1>1, DeliverLeads DEF Leads
<1>3. Keeps(q, Changed(q, T)) /\ Changed(q, T) \in Board
  <2>1. \A b : Shown(b) \in BOOLEAN
    OBVIOUS
  <2> HIDE DEF q, Shown
  <2>2. T = [b \in DOMAIN q.tickets |-> T[b]]
    OBVIOUS
  <2>3. DOMAIN q.tickets = 1..Len(q.tickets) /\ \A b \in 1..Len(q.tickets) : q.tickets[b] \in Ticket
    BY <1>2, TicketsOf
  <2>4. ASSUME NEW b \in 1..Len(q.tickets)
        PROVE  T[b] \in Ticket /\ SameTicket(q.tickets[b], T[b])
    <3>1. T[b] = [q.tickets[b] EXCEPT !.proven = @ \/ Shown(b)]
      BY <2>3
    <3> HIDE DEF T
    <3> QED
      BY <2>1, <2>3, <3>1, ProvenTicket
  <2> HIDE DEF T
  <2> QED
    BY <1>2, <2>2, <2>4, EachTicket DEF Keeps
<1>4. Apply(c) =
        IF met THEN CloseStories(Closed(Await(p, t.source), {c}), Steps)
        ELSE IF rest = {} THEN CloseStories(Answered(Wake(LastHop(p, c), c), t), Steps)
        ELSE CloseStories(Wake(Hop(p, c, Min(rest)), c), {s})
  BY DEF Apply
<1> HIDE DEF q, T
<1>5. Leads(q, p) /\ p \in Board /\ OnBoard(p) /\ Same(q.tickets, p.tickets)
  <2>1. Keeps(q, p)
    BY <1>3, LastHopKeeps, KeepsOnKeeping
  <2> HIDE DEF p
  <2> QED
    BY <1>2, <2>1, KeepsLeads DEF Leads, Keeps
<1> HIDE DEF p
<1>6. Len(p.tickets) = n /\ \A i \in 1..n : SameTicket(tickets[i], p.tickets[i])
  BY <1>2, <1>5 DEF Same
<1>7. \A r, S : r \in Board /\ OnBoard(r) => CloseStories(r, S) \in Board /\ OnBoard(CloseStories(r, S))
  BY CloseStoriesKeeps, KeepsLeads DEF Leads
<1>8. CASE met
  <2>1. t.source \in 1..n /\ tickets[t.source].parent # 0
    BY <1>1, <1>8 DEF Meets
  <2>2. t.source \in 1..Len(p.tickets) /\ p.tickets[t.source].parent # 0
    BY <1>6, <2>1 DEF SameTicket
  <2>3. Await(p, t.source) \in Board /\ OnBoard(Await(p, t.source))
    BY <1>5, <2>2, AwaitLeads DEF Leads
  <2>4. /\ Closed(Await(p, t.source), {c}) \in Board /\ OnBoard(Closed(Await(p, t.source), {c}))
    BY <2>3, ClosedKeeps, KeepsLeads DEF Leads
  <2> HIDE DEF met
  <2> QED
    BY <1>4, <1>7, <1>8, <2>4
<1>9. CASE ~ met /\ rest = {}
  <2> DEFINE l == LastHop(p, c)
             w == Wake(l, c)
             a == Answered(w, t)
  <2>1. ~ BeforeCode
    <3>1. t.route = {}
      BY <1>9
    <3>2. BeforeCode => CODE \in t.route
      BY <1>1, Places DEF EarlyTicket
    <3> QED
      BY <3>1, <3>2
  <2>2. Keeps(p, l) /\ l \in Board /\ OnBoard(l) /\ Len(l.tickets) = n
    BY <1>5, <1>6, LastHopKeeps, KeepsLeads DEF Leads, Keeps, Same
  <2>3. w \in Board /\ OnBoard(w)
    BY <1>1, <2>2, WakeKeeps, KeepsLeads DEF Leads, OnBoard
  <2> HIDE DEF w
  <2>4. a \in Board /\ a.tickets = w.tickets
    <3>1. /\ w.step \in [Steps -> StepStates] /\ w.tickets \in Seq(Ticket)
          /\ w = [step |-> w.step, tickets |-> w.tickets]
      BY <2>3, TicketsOf
    <3> DEFINE S == [r \in Steps |->
                       IF t.kind = "dependency" /\ r = t.trigger /\ w.step[r] = "pending"
                       THEN "in_progress" ELSE w.step[r]]
    <3>2. S \in [Steps -> StepStates]
      BY <3>1 DEF StepStates
    <3>3. a = [w EXCEPT !.step = S]
      BY DEF Answered
    <3> HIDE DEF S, a
    <3>4. a = [step |-> S, tickets |-> w.tickets]
      BY <3>1, <3>3
    <3> QED
      BY <3>1, <3>2, <3>4 DEF Board
  <2>5. OnBoard(a)
    BY <2>1, <2>3, <2>4 DEF OnBoard
  <2> HIDE DEF a, met, rest
  <2>6. Apply(c) = CloseStories(a, Steps)
    BY <1>4, <1>9 DEF a, w
  <2> QED
    BY <1>7, <2>4, <2>5, <2>6
<1>10. CASE ~ met /\ rest # {}
  <2> DEFINE next == Min(rest)
             h == Hop(p, c, next)
  <2>1. \A b \in BugsOf(t) : Proving(b) \in Steps
    <3>1. ASSUME NEW b \in BugsOf(t) PROVE tickets[b].context \in Steps /\ tickets[b].at \in Steps
      <4>1. b \in 1..n
        BY <1>1 DEF BugsOf
      <4> QED
        BY <4>1, TheBoard, TicketHas
    <3> QED
      BY <3>1, Places DEF Proving
  <2>2. rest \subseteq Steps
    BY <1>1, <2>1 DEF Unproven
  <2>3. BeforeCode => rest = t.route
    BY <1>1, Places DEF EarlyTicket
  <2>4. next \in Steps
    <3>1. rest \subseteq Nat /\ rest # {}
      BY <1>10, <2>2, Places
    <3> HIDE DEF rest
    <3> QED
      BY <2>2, <3>1, LeastIs
  <2>5. /\ IsRequest(p.tickets[c]) /\ p.tickets[c].at = s /\ p.tickets[c].route = t.route
        /\ c \in 1..Len(p.tickets)
    BY <1>1, <1>6 DEF SameTicket, IsRequest
  <2>6. h \in Board /\ OnBoard(h) /\ Len(h.tickets) = n
    <3>1. BeforeCode => next = Min(p.tickets[c].route) /\ p.tickets[c].at < CODE
      BY <1>1, <2>3, <2>5
    <3> HIDE DEF next
    <3> QED
      BY <1>5, <1>6, <2>4, <2>5, <3>1, HopHolds
  <2> HIDE DEF h
  <2>7. Wake(h, c) \in Board /\ OnBoard(Wake(h, c))
    BY <1>1, <2>6, WakeKeeps, KeepsLeads DEF Leads, OnBoard
  <2> HIDE DEF met, rest
  <2>8. Apply(c) = CloseStories(Wake(h, c), {s})
    BY <1>4, <1>10 DEF h
  <2> QED
    BY <1>7, <2>7, <2>8
<1> QED
  BY <1>8, <1>9, <1>10

-----------------------------------------------------------------------------
(* Where a correction comes from, and what its gate makes of it.            *)

\* What a ticket of T says it is there because of, and all that is behind ticket i.
Behind(T, j) == IF Orphan(T[j]) THEN {} ELSE {T[j].cause} \ {0}
AllBehind(T, i) ==
    {j \in 1..Len(T) :
        \A S \in SUBSET (1..Len(T)) : i \in S /\ (\A k \in S : Behind(T, k) \subseteq S) => j \in S}

LEMMA CausesAre == \A i : Causes(i) = AllBehind(tickets, i)
BY DEF Causes, AllBehind, Behind, All

\* What is behind a ticket is on the way its corrections were raised, or a Story.
LEMMA BehindIsRaised ==
    ASSUME NEW T \in Seq(Ticket), Links(T), NEW i \in 1..Len(T)
    PROVE  AllBehind(T, i) \subseteq Chain(T, i) \cup Steps
<1> DEFINE C == Chain(T, i)
           S == C \cup Steps
           n == Len(T)
<1>1. n \in Nat /\ DOMAIN T = 1..n /\ \A k \in 1..n : Linked(T[k], k, n)
  BY DEF Links
<1>2. Steps \subseteq 1..n
  BY <1>1, Places DEF Links
<1>3. C \subseteq 1..n /\ i \in C
  BY <1>1 DEF Chain
<1>4. ASSUME NEW k \in C PROVE CorrectionParents(T, k) \subseteq C
  <2> SUFFICES ASSUME NEW j \in CorrectionParents(T, k) PROVE j \in C
    OBVIOUS
  <2>1. j \in 1..n
    <3>1. k \in 1..n
      BY <1>3
    <3>2. {T[k].parent, T[k].bug, T[k].source} \subseteq 0..n
      BY <1>1, <3>1 DEF Linked
    <3>3. j \in {T[k].parent, T[k].bug, T[k].source} /\ j # 0
      BY DEF CorrectionParents
    <3> QED
      BY <1>1, <3>2, <3>3
  <2>2. \A U \in SUBSET DOMAIN T :
            i \in U /\ (\A m \in U : CorrectionParents(T, m) \subseteq U) => k \in U
    BY DEF Chain
  <2>3. \A U \in SUBSET DOMAIN T :
            i \in U /\ (\A m \in U : CorrectionParents(T, m) \subseteq U) => j \in U
    BY <2>2
  <2> QED
    BY <1>1, <2>1, <2>3 DEF Chain
<1>5. ASSUME NEW k \in S PROVE Behind(T, k) \subseteq S
  <2>1. k \in 1..n /\ Linked(T[k], k, n)
    BY <1>1, <1>2, <1>3
  <2>2. CASE k \in Steps
    <3>1. T[k].cause = 0
      BY <2>1, <2>2 DEF Linked
    <3> QED
      BY <3>1 DEF Behind
  <2>3. CASE k \notin Steps
    <3> SUFFICES ASSUME T[k].cause # 0, ~ Orphan(T[k]) PROVE T[k].cause \in S
      BY DEF Behind
    <3>1. T[k].cause \in {T[k].parent, T[k].bug, T[k].source} \cup Steps /\ T[k].cause \in 0..n
      BY <2>1 DEF Linked
    <3>2. CASE T[k].cause \in Steps
      BY <3>2
    <3>3. CASE T[k].cause \notin Steps
      <4>1. T[k].cause \in 1..n
        BY <1>1, <3>1
      <4>2. IsCorrective(T[T[k].cause])
        BY <1>1, <3>3, <4>1 DEF Linked, IsCorrective
      <4>3. T[k].cause \in CorrectionParents(T, k)
        BY <3>1, <3>3, <4>2 DEF CorrectionParents
      <4> QED
        BY <1>4, <2>3, <4>3
    <3> QED
      BY <3>2, <3>3
  <2> QED
    BY <2>2, <2>3
<1>6. S \in SUBSET (1..n) /\ i \in S
  BY <1>2, <1>3
<1> HIDE DEF S
<1>7. AllBehind(T, i) \subseteq S
  BY <1>5, <1>6 DEF AllBehind
<1> QED
  BY <1>7 DEF S

LEMMA Numbers ==
    /\ \A s \in Steps : s \in Nat /\ s \in 0..(2 * Pairs)
    /\ \A x \in 0..(2 * Pairs) : x \in Nat
    /\ 0 \in 0..(2 * Pairs)
BY Places

LEMMA OriginIs ==
    ASSUME NEW t \in Ticket, NEW i, NEW n, Linked(t, i, n)
    PROVE  DirectOrigin(t) = IF t.kind = "story" THEN 0
                             ELSE IF t.kind \in {"bug", "enhancement"} THEN t.context ELSE t.trigger
<1>1. CASE t.kind \in {"story", "bug", "enhancement"}
  BY <1>1 DEF DirectOrigin
<1>2. CASE t.kind \notin {"story", "bug", "enhancement"}
  <2>1. t.origins \subseteq {t.trigger} /\ t.trigger \in Nat
    BY TicketHas DEF Linked
  <2>2. CASE t.origins = {}
    BY <1>2, <2>2 DEF DirectOrigin
  <2>3. CASE t.origins = {t.trigger}
    <3>1. Max(t.origins) = t.trigger
      BY <2>1, <2>3 DEF Max
    <3> QED
      BY <1>2, <2>3, <3>1 DEF DirectOrigin
  <2> QED
    BY <2>1, <2>2, <2>3
<1> QED
  BY <1>1, <1>2

\* The origin of a correction is the deepest of what it was raised because of.
LEMMA ChainOriginIs ==
    ASSUME NEW T \in Seq(Ticket), Links(T), NEW i \in 1..Len(T)
    PROVE  /\ \A j \in Chain(T, i) : DirectOrigin(T[j]) <= ChainOrigin(T, i)
           /\ ChainOrigin(T, i) = 0 \/ \E j \in Chain(T, i) : ChainOrigin(T, i) = DirectOrigin(T[j])
           /\ ChainOrigin(T, i) \in 0..(2 * Pairs)
<1> DEFINE O == {0} \cup {DirectOrigin(T[j]) : j \in Chain(T, i)}
<1>1. \A j \in Chain(T, i) : j \in 1..Len(T) /\ T[j] \in Ticket /\ Linked(T[j], j, Len(T))
  BY DEF Chain, Links
<1>2. ASSUME NEW j \in Chain(T, i) PROVE DirectOrigin(T[j]) \in 0..(2 * Pairs)
  <2>1. T[j].context \in 0..(2 * Pairs) /\ T[j].trigger \in 0..(2 * Pairs) /\ 0 \in 0..(2 * Pairs)
    BY <1>1, Numbers, TicketHas
  <2> QED
    BY <1>1, <2>1, OriginIs
<1>3. O \subseteq 0..(2 * Pairs) /\ O # {} /\ 2 * Pairs \in Nat
  BY <1>2, Places
<1>4. Max(O) \in O /\ \A y \in O : y <= Max(O)
  <2> HIDE DEF O
  <2> QED
    BY <1>3, GreatestIs
<1> QED
  BY <1>3, <1>4 DEF ChainOrigin

LEMMA GateKnows ==
    ASSUME NEW T \in Seq(Ticket), Links(T), NEW i \in 1..Len(T), T[i].at \in Development,
           NEW j \in AllBehind(T, i), MetAt(T[j]) >= CODE
    PROVE  BaselineGate(T[i].at, ChainOrigin(T, i)) = "execute"
<1>1. j \in Chain(T, i) \cup Steps /\ j \in 1..Len(T)
  BY BehindIsRaised DEF AllBehind
<1>2. T[j] \in Ticket /\ Linked(T[j], j, Len(T))
  BY <1>1 DEF Links
<1>3. CODE \in Nat /\ CODE # 0 /\ CODE = Pairs
  BY PolicyAssumption DEF CODE
<1>4. T[j].kind # "story"
  <2>1. T[j].kind = "story" => MetAt(T[j]) = 0
    BY DEF MetAt, IsRequest, Requests
  <2> QED
    BY <1>3, <2>1
<1>5. j \in Chain(T, i)
  BY <1>1, <1>2, <1>4 DEF Linked
<1>6. DirectOrigin(T[j]) = MetAt(T[j])
  BY <1>2, <1>4, OriginIs, TicketHas DEF MetAt, IsRequest, Requests, Kinds
<1>7. ChainOrigin(T, i) >= CODE
  <2>1. DirectOrigin(T[j]) <= ChainOrigin(T, i) /\ ChainOrigin(T, i) \in Int
    BY <1>5, ChainOriginIs, Places
  <2>2. MetAt(T[j]) \in Nat
    <3>1. T[j].trigger \in Nat /\ T[j].context \in Nat
      BY <1>2, TicketHas, Numbers
    <3> QED
      BY <3>1 DEF MetAt
  <2> QED
    BY <1>3, <1>6, <2>1, <2>2
<1>8. ~ Verifies(T[i].at)
  BY <1>3 DEF Verifies, Development
<1> QED
  BY <1>7, <1>8 DEF BaselineGate

\* Before there is code no gate asks for the tests.
LEMMA GateWaits ==
    ASSUME NEW T \in Seq(Ticket), Links(T), NEW i \in 1..Len(T), T[i].at < CODE,
           \A j \in 1..Len(T) : EarlyTicket(T[j])
    PROVE  BaselineGate(T[i].at, ChainOrigin(T, i)) # "execute"
<1>1. \A j \in Chain(T, i) : j \in 1..Len(T) /\ T[j] \in Ticket /\ Linked(T[j], j, Len(T))
  BY DEF Chain, Links
<1>2. CODE \in Nat /\ CODE # 0
  BY PolicyAssumption DEF CODE
<1>3. ASSUME NEW j \in Chain(T, i) PROVE DirectOrigin(T[j]) < CODE
  <2>1. T[j].kind \in Kinds /\ EarlyTicket(T[j])
    BY <1>1, TicketHas
  <2> QED
    BY <1>1, <1>2, <2>1, OriginIs DEF EarlyTicket, Kinds, IsRequest
<1>4. ChainOrigin(T, i) < CODE
  BY <1>2, <1>3, ChainOriginIs
<1>5. T[i].at \in Nat /\ ChainOrigin(T, i) \in Int
  <2>1. T[i] \in Ticket
    OBVIOUS
  <2> QED
    <3>1. T[i].at \in Steps /\ ChainOrigin(T, i) \in 0..(2 * Pairs)
      BY <2>1, TicketHas, ChainOriginIs
    <3> QED
      BY <3>1, Numbers
<1> QED
  BY <1>2, <1>4, <1>5 DEF BaselineGate

LEMMA GateIs ==
    ASSUME NEW s, NEW origin
    PROVE  BaselineGate(s, origin) \in GateSays
BY DEF BaselineGate, GateSays

\* What is behind a ticket stays the same as others are opened.
LEMMA BehindStays ==
    ASSUME NEW T, Len(T) \in Nat, Links(T), NEW U, Grows(T, U), NEW i \in 1..Len(T)
    PROVE  AllBehind(U, i) \subseteq AllBehind(T, i)
<1> DEFINE C == AllBehind(T, i)
<1>1. C \subseteq 1..Len(T) /\ i \in C /\ 1..Len(T) \subseteq 1..Len(U)
  BY DEF AllBehind, Grows
<1>2. ASSUME NEW k \in C PROVE Behind(U, k) \subseteq C
  <2>1. k \in 1..Len(T) /\ SameTicket(T[k], U[k]) /\ Linked(T[k], k, Len(T))
    BY <1>1 DEF Grows, Links
  <2>2. Behind(U, k) = Behind(T, k)
    BY <2>1 DEF Behind, SameTicket, Orphan
  <2>3. Behind(T, k) \subseteq 1..Len(T)
    <3>1. T[k].cause \in 0..Len(T)
      BY <2>1 DEF Linked
    <3> QED
      BY <3>1 DEF Behind
  <2>4. \A S \in SUBSET (1..Len(T)) :
            i \in S /\ (\A m \in S : Behind(T, m) \subseteq S) => k \in S /\ Behind(T, k) \subseteq S
    BY DEF AllBehind
  <2>5. \A j \in Behind(T, k) : \A S \in SUBSET (1..Len(T)) :
            i \in S /\ (\A m \in S : Behind(T, m) \subseteq S) => j \in S
    BY <2>4
  <2> QED
    BY <2>2, <2>3, <2>5 DEF AllBehind
<1>3. C \in SUBSET (1..Len(U)) /\ i \in C
  BY <1>1
<1> HIDE DEF C
<1>4. AllBehind(U, i) \subseteq C
  BY <1>2, <1>3 DEF AllBehind
<1> QED
  BY <1>4 DEF C

-----------------------------------------------------------------------------
(* The actions.                                                             *)

LEMMA BoardIs ==
    ASSUME NEW q, q \in Board, OnBoard(q), step' = q.step, tickets' = q.tickets, tried' = tried
    PROVE  Both' \in Board /\ OnBoard(Both)'
<1>1. q = [step |-> q.step, tickets |-> q.tickets]
  BY TicketsOf
<1>2. Both' = [step |-> step', tickets |-> tickets']
  BY DEF Both
<1>3. Both' = q
  BY <1>1, <1>2
<1>4. Links(q.tickets) /\ (BeforeCode => Early(q.step, q.tickets))
  BY DEF OnBoard
<1>5. OnBoard(Both)' <=> Links(tickets') /\ (BeforeCode' => Early(step', tickets'))
  BY DEF OnBoard, Both
<1>6. BeforeCode' <=> BeforeCode
  BY DEF BeforeCode
<1> QED
  BY <1>3, <1>4, <1>5, <1>6

\* As long as nothing is due, the board is all there is to say.
LEMMA NothingDue ==
    ASSUME Both' \in Board, OnBoard(Both)', result' = NoResult, up' \in BOOLEAN, tried' \in BOOLEAN,
           work' \in 0..Len(tickets'), BeforeCode' /\ work' # 0 => tickets'[work'].at < CODE,
           ~ up' => work' = 0
    PROVE  GatesInv'
<1>1. NoResult \in Result /\ NoResult.found = {} /\ ~ NoResult.routing
  <2>1. <<>> \in Seq(Nat)
    OBVIOUS
  <2> QED
    BY <2>1 DEF NoResult, Result, AllCodes, GateSays
<1>2. work' \in Nat
  <2>1. Both'.tickets = tickets' /\ Len(tickets') \in Nat
    BY TicketsOf DEF Both
  <2> QED
    BY <2>1
<1>3. TypeOK'
  BY <1>1, <1>2 DEF TypeOK
<1>4. AtWork'
  BY <1>1 DEF AtWork
<1>5. Routing'
  BY <1>1 DEF Routing
<1>6. BaselineHeld' /\ CodeIsThere'
  BY DEF BaselineHeld, CodeIsThere
<1> QED
  BY <1>3, <1>4, <1>5, <1>6 DEF GatesInv

LEMMA SettledKeeps ==
    ASSUME NEW p \in Board
    PROVE  Keeps(p, [step |-> p.step, tickets |-> [i \in DOMAIN p.tickets |-> Settled(p.tickets[i])]])
<1> DEFINE T == [i \in DOMAIN p.tickets |-> Settled(p.tickets[i])]
<1>1. NoLog \in [old : BOOLEAN, count : [Codes -> Nat]]
  BY DEF NoLog
<1>2. \A t \in Ticket : Settled(t) \in Ticket /\ SameTicket(t, Settled(t))
  BY <1>1 DEF Settled, Ticket, SameTicket
<1>3. /\ T = [i \in DOMAIN p.tickets |-> T[i]]
      /\ \A i \in 1..Len(p.tickets) : T[i] \in Ticket /\ SameTicket(p.tickets[i], T[i])
  BY <1>2, TicketsOf
<1>4. [step |-> p.step, tickets |-> T] = Changed(p, T)
  <2> HIDE DEF T
  <2>1. p = [step |-> p.step, tickets |-> p.tickets]
    BY TicketsOf
  <2>2. Changed([step |-> p.step, tickets |-> p.tickets], T) = [step |-> p.step, tickets |-> T]
    BY DEF Changed
  <2> QED
    BY <2>1, <2>2
<1>5. Keeps(p, Changed(p, T))
  <2> HIDE DEF T
  <2> QED
    BY <1>3, EachTicket
<1> QED
  BY <1>4, <1>5

\* What a result becomes.
LEMMA BecomesHolds ==
    ASSUME TypeOK, NEW p \in Board, OnBoard(p), NEW runs \in BOOLEAN, Becomes(p, runs)
    PROVE  GatesInv'
<1> DEFINE q == [step |-> p.step, tickets |-> [i \in DOMAIN p.tickets |-> Settled(p.tickets[i])]]
<1>1. /\ step' = q.step /\ tickets' = q.tickets
      /\ up' = runs /\ work' = 0 /\ result' = NoResult /\ tried' = tried
  BY DEF Becomes
<1>2. Keeps(p, q)
  BY SettledKeeps
<1> HIDE DEF q
<1>3. q \in Board /\ OnBoard(q) /\ Len(q.tickets) \in Nat
  BY <1>2, KeepsLeads, TicketsOf DEF Leads
<1>4. Both' \in Board /\ OnBoard(Both)'
  BY <1>1, <1>3, BoardIs
<1> QED
  BY <1>1, <1>3, <1>4, NothingDue DEF TypeOK

LEMMA Held ==
    ASSUME GatesInv
    PROVE  /\ TypeOK /\ OnBoard(Both) /\ AtWork /\ Routing /\ Both \in Board /\ Leads(Both, Both)
           /\ Both.tickets = tickets /\ Both.step = step /\ result \in Result
           /\ up \in BOOLEAN /\ tried \in BOOLEAN /\ Len(tickets) \in Nat
           /\ work # 0 => Works(work) /\ tickets[work] \in Ticket /\ tickets[work].at \in Steps
<1>1. TypeOK /\ OnBoard(Both) /\ AtWork /\ Routing
  BY DEF GatesInv
<1>2. /\ Both.tickets = tickets /\ Both.step = step /\ Leads(Both, Both) /\ Len(tickets) \in Nat
      /\ \A i \in 1..Len(tickets) : tickets[i] \in Ticket
  BY <1>1, TheBoard
<1>3. work # 0 => Works(work)
  BY <1>1, <1>2 DEF AtWork, Works
<1> QED
  BY <1>1, <1>2, <1>3, TicketHas DEF TypeOK, Works

\* A Step from CODE on is begun when there was an attempt at CODE.
LEMMA SelectionIs ==
    ASSUME GatesInv, NEW i \in Selection
    PROVE  i \in 1..Len(tickets) /\ (BeforeCode => tickets[i].at <= CODE)
<1>1. /\ Len(tickets) \in Nat /\ Len(tickets) >= 2 * Pairs
      /\ \A j \in 1..Len(tickets) : tickets[j] \in Ticket /\ Linked(tickets[j], j, Len(tickets))
      /\ BeforeCode => \A j \in 1..Len(tickets) : EarlyTicket(tickets[j])
  BY TheBoard DEF GatesInv
<1>2. Steps \subseteq 1..Len(tickets)
  BY <1>1, Places
<1>3. BeforeCode => \A s \in Steps : s >= CODE => step[s] \notin Advanced
  BY DEF GatesInv, OnBoard, Early, Both
<1>4. ASSUME NEW j \in 1..Len(tickets), Ready(tickets[j]), BeforeCode PROVE tickets[j].at <= CODE
  <2> DEFINE s == tickets[j].at
  <2>1. s \in Steps
    BY <1>1, TicketHas
  <2> SUFFICES ASSUME s > CODE PROVE FALSE
    BY <2>1, Places, Numbers
  <2>2. s > 1 /\ s - 1 \in Steps /\ s - 1 >= CODE
    <3>1. s \in 1..(2 * Pairs) /\ CODE \in Nat /\ CODE # 0 /\ 2 * Pairs \in Nat
      BY <2>1, Places, PolicyAssumption DEF CODE
    <3>2. Steps = 1..(2 * Pairs)
      BY Places
    <3> HIDE DEF s
    <3> QED
      BY <3>1, <3>2
  <2>3. step[s - 1] \in Satisfied
    BY <1>4, <2>2 DEF Ready
  <2> QED
    BY <1>3, <1>4, <2>2, <2>3 DEF Satisfied, Advanced
<1>5. ASSUME NEW j \in Executing PROVE j \in 1..Len(tickets) /\ (BeforeCode => tickets[j].at <= CODE)
  BY <1>4 DEF Executing, All
<1>6. ASSUME NEW s \in Steps, NEW j \in Corrective(s)
      PROVE  j \in 1..Len(tickets) /\ (BeforeCode => tickets[j].at <= CODE)
  BY <1>1 DEF Corrective, All, EarlyTicket
<1>7. ASSUME NEW s \in Steps, NEW j \in Ordinary(s)
      PROVE  j \in 1..Len(tickets) /\ (BeforeCode => tickets[j].at <= CODE)
  BY <1>2, <1>4 DEF Ordinary
<1>8. ASSUME NEW s \in Busy PROVE s \in 1..Len(tickets) /\ (BeforeCode => tickets[s].at <= CODE)
  <2>1. s \in Steps /\ s \in 1..Len(tickets) /\ tickets[s].at = s /\ step[s] \in Advanced
    BY <1>1, <1>2 DEF Busy, Linked, Advanced
  <2>2. BeforeCode => ~ (s >= CODE)
    BY <1>3, <2>1
  <2>3. s \in Nat /\ CODE \in Nat
    BY <2>1, Places, Numbers
  <2> QED
    BY <2>1, <2>2, <2>3
<1>9. \A T : First(T) \subseteq T
  BY DEF First
<1>10. \/ i \in Executing
       \/ \E s \in Steps : i \in Corrective(s) \/ i \in Ordinary(s)
       \/ i \in Busy
  BY <1>9 DEF Selection, Busy
<1> QED
  BY <1>5, <1>6, <1>7, <1>8, <1>10

LEMMA InitHolds == Init => GatesInv
<1> SUFFICES ASSUME Init PROVE GatesInv
  OBVIOUS
<1> DEFINE T == [s \in Steps |-> Fresh("story", s, s)]
<1>1. /\ step = [s \in Steps |-> "created"] /\ tickets = T /\ work = 0 /\ result = NoResult
      /\ up = TRUE /\ tried = FALSE
  BY DEF Init
<1>2. \A s \in Steps : T[s] \in Ticket
  BY FreshIs DEF Kinds
<1>3. Steps = 1..(2 * Pairs) /\ 2 * Pairs \in Nat
  BY Places
<1>4. T \in Seq(Ticket) /\ Len(T) = 2 * Pairs
  <2>1. T \in [1..(2 * Pairs) -> Ticket]
    <3>1. T = [s \in Steps |-> T[s]]
      OBVIOUS
    <3> HIDE DEF T
    <3> QED
      BY <1>2, <1>3, <3>1
  <2> HIDE DEF T
  <2> QED
    BY <1>3, <2>1
<1>5. \A s \in Steps : /\ T[s].kind = "story" /\ T[s].at = s /\ T[s].cause = 0 /\ T[s].parent = 0
                       /\ T[s].bug = 0 /\ T[s].source = 0 /\ T[s].origins = {}
  BY DEF Fresh
<1> HIDE DEF T
<1>6. Links(T)
  <2>1. ASSUME NEW i \in 1..(2 * Pairs) PROVE Linked(T[i], i, 2 * Pairs)
    BY <1>3, <1>5 DEF Linked
  <2> QED
    BY <1>3, <1>4, <2>1 DEF Links
<1>7. Early(step, T)
  <2>1. \A i \in 1..Len(T) : EarlyTicket(T[i])
    BY <1>3, <1>4, <1>5 DEF EarlyTicket, IsCorrective, IsRequest, Requests
  <2> QED
    BY <1>1, <2>1 DEF Early, Advanced
<1>8. Both \in Board /\ OnBoard(Both)
  <2>1. step \in [Steps -> StepStates]
    BY <1>1 DEF StepStates
  <2>2. Both.step = step /\ Both.tickets = T /\ Both \in Board
    BY <1>1, <1>4, <2>1 DEF Both, Board
  <2> QED
    BY <1>6, <1>7, <2>2 DEF OnBoard
<1>9. NoResult \in Result /\ NoResult.found = {} /\ ~ NoResult.routing
  <2>1. <<>> \in Seq(Nat)
    OBVIOUS
  <2> QED
    BY <2>1 DEF NoResult, Result, AllCodes, GateSays
<1>10. TypeOK
  BY <1>1, <1>8, <1>9 DEF TypeOK
<1>11. AtWork
  BY <1>1, <1>3, <1>4, <1>9 DEF AtWork
<1>12. Routing
  BY <1>1, <1>9 DEF Routing
<1>13. BaselineHeld /\ CodeIsThere
  BY <1>1 DEF BaselineHeld, CodeIsThere
<1> QED
  BY <1>8, <1>10, <1>11, <1>12, <1>13 DEF GatesInv

LEMMA LoggedIs ==
    \A log \in [old : BOOLEAN, count : [Codes -> Nat]], c \in Codes :
        Logged(log, c) \in [old : BOOLEAN, count : [Codes -> Nat]]
BY DEF Logged, RepeatedFailureLimit

LEMMA ExtendedIs ==
    ASSUME NEW t \in Ticket
    PROVE  Evidence(t) \in [old : BOOLEAN, count : [Codes -> Nat]]
BY LoggedIs, TicketHas, GatesAssumption DEF Evidence

LEMMA StartHolds ==
    ASSUME GatesInv, Start
    PROVE  GatesInv'
<1>1. up /\ work = 0 /\ result' = result /\ result = NoResult
  BY DEF Start, Idle, GatesInv, AtWork
<1>2. PICK i \in Selection : Exhausted(i) \/ Begin(i)
  BY DEF Start
<1>3. /\ i \in 1..Len(tickets) /\ (BeforeCode => tickets[i].at <= CODE)
      /\ tickets[i] \in Ticket /\ tickets[i].at \in Steps /\ Both \in Board /\ OnBoard(Both)
      /\ Both.tickets = tickets /\ Both.step = step /\ Len(tickets) \in Nat /\ tried \in BOOLEAN
      /\ up \in BOOLEAN
  BY SelectionIs, Held, TheBoard, TicketHas DEF GatesInv
<1>4. CASE Exhausted(i)
  <2>1. /\ step' = Both.step /\ tickets' = Both.tickets /\ work' = 0 /\ tried' = tried /\ up' = FALSE
    BY <1>1, <1>3, <1>4 DEF Exhausted
  <2>2. Both' \in Board /\ OnBoard(Both)'
    BY <1>3, <2>1, BoardIs
  <2>3. result' = NoResult /\ up' \in BOOLEAN /\ tried' \in BOOLEAN
    BY <1>1, <1>3, <2>1
  <2>4. work' \in 0..Len(tickets')
    BY <1>3, <2>1
  <2> QED
    BY <2>1, <2>2, <2>3, <2>4, NothingDue
<1>5. CASE Begin(i)
  <2> DEFINE t == tickets[i]
             log == IF t.left = 0 THEN Evidence(t) ELSE t.log
             u == [t EXCEPT !.left = IF @ = 0 THEN 0 ELSE @ - 1, !.log = log, !.state = "in_progress"]
             p == [Both EXCEPT !.tickets[i] = u]
             q == [p EXCEPT !.step[t.at] = "in_progress"]
  <2>1. /\ step' = [step EXCEPT ![t.at] = "in_progress"]
        /\ tickets' = [tickets EXCEPT ![i] = u]
        /\ work' = i /\ tried' = (tried \/ t.at = CODE) /\ up' = up
    <3>1. tickets' = [tickets EXCEPT ![i].left = IF @ = 0 THEN 0 ELSE @ - 1, ![i].log = log,
                                      ![i].state = "in_progress"]
      BY <1>5 DEF Begin
    <3>2. tickets' = [tickets EXCEPT ![i] = u]
      BY <1>3, <3>1
    <3> QED
      BY <1>5, <3>2 DEF Begin
  <2>2. u \in Ticket /\ SameTicket(t, u)
    <3>1. log \in [old : BOOLEAN, count : [Codes -> Nat]] /\ t.left \in Nat
      BY <1>3, ExtendedIs, TicketHas
    <3> DEFINE left == IF t.left = 0 THEN 0 ELSE t.left - 1
    <3>2. left \in Nat
      BY <3>1
    <3>3. u = [t EXCEPT !.left = left, !.log = log, !.state = "in_progress"]
      OBVIOUS
    <3> HIDE DEF log, left, u
    <3>4. u \in Ticket
      BY <1>3, <3>1, <3>2, <3>3 DEF Ticket, TicketStates
    <3>5. SameTicket(t, u)
      BY <1>3, <3>3 DEF Ticket, SameTicket
    <3> QED
      BY <3>4, <3>5
  <2> HIDE DEF u
  <2>3. Keeps(Both, p) /\ p.tickets = [tickets EXCEPT ![i] = u] /\ p.step = step
    <3>1. Keeps(Both, p)
      BY <1>3, <2>2, StandKeeps
    <3> QED
      BY <3>1 DEF Both
  <2> HIDE DEF p
  <2>4. /\ p \in Board /\ OnBoard(p) /\ Len(p.tickets) = Len(tickets) /\ SameTicket(tickets[i], p.tickets[i])
    BY <1>3, <2>3, KeepsLeads DEF Leads, Keeps, Same
  <2>5. /\ q \in Board /\ q.tickets = tickets' /\ q.step = step'
        /\ \A s \in Steps : q.step[s] = IF s = t.at THEN "in_progress" ELSE p.step[s]
    <3>1. p.step \in [Steps -> StepStates] /\ p.tickets \in Seq(Ticket) /\ p = [step |-> p.step, tickets |-> p.tickets]
      BY <2>4, TicketsOf
    <3> HIDE DEF Ticket
    <3>2. q = [step |-> [p.step EXCEPT ![t.at] = "in_progress"], tickets |-> p.tickets]
      BY <3>1
    <3>3. q.step = [p.step EXCEPT ![t.at] = "in_progress"] /\ q.tickets = p.tickets
      BY <3>2
    <3>4. q.step \in [Steps -> StepStates] /\ \A s \in Steps : q.step[s] = IF s = t.at THEN "in_progress" ELSE p.step[s]
      BY <1>3, <3>1, <3>3 DEF StepStates
    <3>5. q \in Board
      <4> HIDE DEF q
      <4> QED
        BY <3>1, <3>2, <3>3, <3>4 DEF Board
    <3> QED
      BY <2>1, <2>3, <3>3, <3>4, <3>5
  <2> HIDE DEF q
  <2>6. BeforeCode' => BeforeCode /\ t.at < CODE
    <3>1. BeforeCode' <=> PointsBack /\ ~ (tried \/ t.at = CODE)
      BY <2>1 DEF BeforeCode
    <3>2. t.at \in Nat /\ CODE \in Nat
      BY <1>3, Places, Numbers
    <3> QED
      BY <1>3, <3>1, <3>2 DEF BeforeCode
  <2>7. BeforeCode' => Early(q.step, q.tickets)
    <3> SUFFICES ASSUME BeforeCode' PROVE Early(q.step, q.tickets)
      OBVIOUS
    <3>1. Early(p.step, p.tickets) /\ t.at < CODE
      BY <2>4, <2>6 DEF OnBoard
    <3>2. q.tickets = p.tickets
      BY <2>1, <2>3, <2>5
    <3>3. t.at \in Nat /\ CODE \in Nat
      BY <1>3, Places, Numbers
    <3>4. ASSUME NEW s \in Steps, s >= CODE PROVE q.step[s] \notin Advanced
      <4>1. s # t.at
        BY <3>1, <3>3, <3>4
      <4> QED
        BY <2>5, <3>1, <3>4, <4>1 DEF Early
    <3> QED
      BY <3>1, <3>2, <3>4 DEF Early
  <2>8. Both' \in Board /\ OnBoard(Both)'
    <3>1. Both' = [step |-> step', tickets |-> tickets']
      BY DEF Both
    <3>2. Both' = q
      BY <2>5, <3>1, TicketsOf
    <3>3. OnBoard(Both)' <=> Links(tickets') /\ (BeforeCode' => Early(step', tickets'))
      BY DEF OnBoard, Both
    <3>4. Links(tickets')
      BY <2>1, <2>3, <2>4 DEF OnBoard
    <3> QED
      BY <2>5, <2>7, <3>2, <3>3, <3>4
  <2>9. work' \in 0..Len(tickets') /\ tickets'[work'].at = t.at
    BY <1>3, <2>1, <2>3, <2>4 DEF SameTicket
  <2> QED
    BY <1>1, <1>3, <2>1, <2>6, <2>8, <2>9, NothingDue
<1> QED
  BY <1>2, <1>4, <1>5

\* A run that stops, and one that is resumed, leave the board as it is.
LEMMA StillHolds ==
    ASSUME GatesInv, NEW q \in Board, OnBoard(q), step' = q.step, tickets' = q.tickets,
           tried' = tried, work' = 0, result' = NoResult, up' \in BOOLEAN
    PROVE  GatesInv'
<1>1. Both' \in Board /\ OnBoard(Both)'
  BY BoardIs
<1>2. tried' \in BOOLEAN
  BY Held
<1>3. work' \in 0..Len(tickets')
  BY TicketsOf
<1> QED
  BY <1>1, <1>2, <1>3, NothingDue

LEMMA StopsHold ==
    ASSUME GatesInv, Finish \/ Crash
    PROVE  GatesInv'
<1>1. /\ Both \in Board /\ OnBoard(Both) /\ Both.step = step /\ Both.tickets = tickets
      /\ work = 0 => result = NoResult
  BY Held DEF AtWork
<1>2. CASE Finish
  <2>1. /\ step' = Both.step /\ tickets' = Both.tickets /\ tried' = tried /\ work' = 0
        /\ result' = NoResult /\ up' \in BOOLEAN
    BY <1>1, <1>2 DEF Finish, Idle
  <2> QED
    BY <1>1, <2>1, StillHolds
<1>3. CASE Crash
  <2>1. /\ step' = Both.step /\ tickets' = Both.tickets /\ tried' = tried /\ work' = 0
        /\ result' = NoResult /\ up' \in BOOLEAN
    BY <1>1, <1>3 DEF Crash
  <2> QED
    BY <1>1, <2>1, StillHolds
<1> QED
  BY <1>2, <1>3

\* Ticket i goes back behind the others, with the attempt it was promised.
LEMMA DeferredHolds ==
    ASSUME TypeOK, OnBoard(Both), NEW i \in 1..Len(tickets)
    PROVE  Deferred(i) \in Board /\ OnBoard(Deferred(i))
<1> DEFINE t == tickets[i]
           u == [t EXCEPT !.left = @ + 1, !.state = "pending"]
           p == [Both EXCEPT !.tickets[i] = u]
<1>1. /\ Both \in Board /\ Both.tickets = tickets /\ Both.step = step /\ t \in Ticket /\ t.at \in Steps
      /\ Len(tickets) \in Nat
  BY TheBoard, TicketHas DEF TypeOK
<1>2. u \in Ticket /\ SameTicket(t, u)
  <2>1. t.left + 1 \in Nat
    BY <1>1, TicketHas
  <2> QED
    BY <1>1, <2>1 DEF Ticket, SameTicket, TicketStates
<1>3. Deferred(i) = [p EXCEPT !.step[t.at] = "pending"]
  BY <1>1 DEF Deferred
<1> HIDE DEF u
<1>4. Keeps(Both, p) /\ p \in Board
  <2>1. Keeps(Both, p)
    BY <1>1, <1>2, StandKeeps
  <2> QED
    BY <2>1 DEF Keeps
<1> HIDE DEF p
<1>5. Keeps(p, Deferred(i))
  BY <1>1, <1>3, <1>4, StepKeeps DEF StepStates, Advanced
<1> QED
  BY <1>1, <1>4, <1>5, KeepsOnKeeping, KeepsLeads DEF Leads

LEMMA CancelledHolds ==
    ASSUME GatesInv, Cancelled
    PROVE  GatesInv'
<1>1. /\ TypeOK /\ OnBoard(Both) /\ work \in 1..Len(tickets) /\ result = NoResult
      /\ Both.tickets = tickets /\ Both.step = step /\ Len(tickets) \in Nat
  BY Held DEF Cancelled, Works
<1>2. Deferred(work).step = step' /\ Deferred(work).tickets = tickets'
  BY <1>1 DEF Deferred, Cancelled, Both
<1>3. Deferred(work) \in Board /\ OnBoard(Deferred(work))
  BY <1>1, DeferredHolds
<1>4. tried' = tried /\ work' = 0 /\ result' = NoResult /\ up' \in BOOLEAN
  BY <1>1 DEF Cancelled
<1> QED
  BY <1>2, <1>3, <1>4, StillHolds

LEMMA ResumeHolds ==
    ASSUME GatesInv, Resume
    PROVE  GatesInv'
<1> DEFINE T == [i \in All |-> IF Done(tickets[i]) THEN tickets[i]
                               ELSE [tickets[i] EXCEPT !.log = Aged(@)]]
           q == Changed(Both, T)
<1>1. /\ Both \in Board /\ OnBoard(Both) /\ Both.step = step /\ Both.tickets = tickets
      /\ Len(tickets) \in Nat /\ \A i \in 1..Len(tickets) : tickets[i] \in Ticket
      /\ step' = step /\ work' = work /\ result' = result /\ tried' = tried /\ up' = TRUE
      /\ tickets' \in {T, tickets}
  BY Held, TheBoard DEF Resume
<1>2. OnBoard(q) /\ q \in Board /\ q.step = step /\ q.tickets = T /\ Len(T) = Len(tickets)
      /\ \A i \in 1..Len(tickets) : SameTicket(tickets[i], T[i])
  <2>1. T = [i \in DOMAIN Both.tickets |-> T[i]]
    BY <1>1, TicketsOf DEF All
  <2>2. \A t \in Ticket : /\ [t EXCEPT !.log = Aged(@)] \in Ticket
                          /\ SameTicket(t, [t EXCEPT !.log = Aged(@)])
    <3> TAKE t \in Ticket
    <3>1. Aged(t.log) \in [old : BOOLEAN, count : [Codes -> Nat]]
      BY TicketHas DEF Aged
    <3> QED
      BY <3>1 DEF Ticket, SameTicket
  <2>3. \A i \in 1..Len(tickets) : T[i] \in Ticket /\ SameTicket(tickets[i], T[i])
    BY <1>1, <2>2 DEF All, SameTicket
  <2>4. Keeps(Both, q) /\ q.step = step /\ q.tickets = T
    <3> HIDE DEF T
    <3>1. Keeps(Both, q)
      BY <1>1, <2>1, <2>3, EachTicket
    <3> QED
      BY <3>1 DEF Changed, Both
  <2> HIDE DEF q, T
  <2> QED
    BY <1>1, <2>4, KeepsLeads DEF Leads, Keeps, Same
<1> HIDE DEF q, T
<1>3. PICK r \in Board : OnBoard(r) /\ step' = r.step /\ tickets' = r.tickets
  BY <1>1, <1>2
<1>4. work = 0 /\ result = NoResult
  BY Held DEF AtWork, Resume
<1> QED
  BY <1>1, <1>3, <1>4, StillHolds

\* What was asked of the tests was asked for the tickets there are now.
LEMMA BaselineKept ==
    ASSUME GatesInv, work # 0, work' = work, Grows(tickets, tickets'),
           \/ result # NoResult /\ result'.gate = result.gate
           \/ result'.gate = Gate(work)
    PROVE  BaselineHeld'
<1> SUFFICES ASSUME tickets'[work'].at \in Development,
                    NEW j \in Causes(work)', MetAt(tickets'[j]) >= CODE
             PROVE  result'.gate = "execute"
  BY DEF BaselineHeld
<1>1. /\ work \in 1..Len(tickets) /\ tickets \in Seq(Ticket) /\ Links(tickets) /\ Len(tickets) \in Nat
  BY Held, TicketsOf DEF Works, OnBoard
<1>2. Causes(work)' = AllBehind(tickets', work)
  BY DEF Causes, AllBehind, Behind, All
<1>3. j \in AllBehind(tickets, work)
  BY <1>1, <1>2, BehindStays
<1>4. SameTicket(tickets[j], tickets'[j]) /\ SameTicket(tickets[work], tickets'[work])
  BY <1>1, <1>3 DEF Grows, AllBehind
<1>5. MetAt(tickets[j]) >= CODE /\ tickets[work].at \in Development
  BY <1>4 DEF SameTicket, MetAt, IsRequest
<1>6. CASE result # NoResult /\ result'.gate = result.gate
  <2>1. j \in Causes(work)
    BY <1>3, CausesAre
  <2> QED
    BY <1>5, <1>6, <2>1 DEF GatesInv, BaselineHeld
<1>7. CASE result'.gate = Gate(work)
  BY <1>1, <1>3, <1>5, <1>7, GateKnows DEF Gate
<1> QED
  BY <1>6, <1>7

LEMMA CodeKept ==
    ASSUME GatesInv, work # 0, tried' = tried,
           \/ result # NoResult /\ result'.gate = result.gate
           \/ result'.gate = Gate(work)
    PROVE  PointsBack => CodeIsThere'
<1>1. CASE result # NoResult /\ result'.gate = result.gate
  BY <1>1 DEF GatesInv, CodeIsThere
<1>2. CASE result'.gate = Gate(work)
  <2>1. ASSUME BeforeCode PROVE Gate(work) # "execute"
    <3>1. /\ work \in 1..Len(tickets) /\ tickets \in Seq(Ticket) /\ Links(tickets)
          /\ tickets[work].at < CODE
      BY <2>1, Held, TicketsOf DEF Works, OnBoard
    <3>2. \A i \in 1..Len(tickets) : EarlyTicket(tickets[i])
      BY <2>1, Held, TheBoard
    <3> QED
      BY <3>1, <3>2, GateWaits DEF Gate
  <2> QED
    BY <1>2, <2>1 DEF BeforeCode, CodeIsThere
<1> QED
  BY <1>1, <1>2

\* An attempt leaves the board as it is, but for the evidence.
LEMMA AttemptIs ==
    ASSUME GatesInv, work # 0, up, step' = step, work' = work, up' = up, tried' = tried,
           tickets' \in Seq(Ticket), Same(tickets, tickets'),
           result' \in Result, result'.gate = Gate(work), ~ result'.routing,
           PointsBack => \A f \in result'.found : f.target <= CODE \/ f.target = tickets[work].at
    PROVE  GatesInv'
<1> DEFINE q == [step |-> step, tickets |-> tickets']
<1>1. /\ Both \in Board /\ OnBoard(Both) /\ Both.step = step /\ Both.tickets = tickets
      /\ work \in 1..Len(tickets) /\ (BeforeCode => tickets[work].at < CODE) /\ Len(tickets) \in Nat
      /\ work \in Nat /\ up \in BOOLEAN /\ tried \in BOOLEAN
  BY Held DEF Works
<1>2. q \in Board /\ q.step = step /\ q.tickets = tickets'
  BY <1>1, TicketsOf DEF Board
<1> HIDE DEF q
<1>3. Keeps(Both, q)
  BY <1>1, <1>2 DEF Keeps
<1>4. OnBoard(q) /\ Grows(tickets, tickets') /\ SameTicket(tickets[work], tickets'[work])
      /\ Len(tickets') = Len(tickets)
  BY <1>1, <1>2, <1>3, KeepsLeads DEF Leads, Same
<1>5. Both' \in Board /\ OnBoard(Both)'
  BY <1>2, <1>4, BoardIs
<1>6. TypeOK'
  BY <1>1, <1>5 DEF TypeOK
<1>7. AtWork'
  <2>1. BeforeCode' <=> BeforeCode
    BY DEF BeforeCode
  <2> QED
    BY <1>1, <1>4, <2>1 DEF AtWork, SameTicket
<1>8. Routing'
  BY DEF Routing
<1> QED
  BY <1>4, <1>5, <1>6, <1>7, <1>8, BaselineKept, CodeKept DEF GatesInv

LEMMA AttemptHolds ==
    ASSUME GatesInv, Attempt
    PROVE  GatesInv'
<1>1. /\ up /\ work # 0 /\ result = NoResult /\ step' = step /\ work' = work /\ up' = up /\ tried' = tried
  BY DEF Attempt, Fail, Succeed
<1>2. /\ Both \in Board /\ Both.tickets = tickets /\ tickets \in Seq(Ticket) /\ work \in 1..Len(tickets)
      /\ DOMAIN tickets = 1..Len(tickets) /\ Len(tickets) \in Nat /\ tickets[work] \in Ticket
  BY <1>1, Held, TicketsOf DEF Works
<1>3. /\ NoResult \in Result /\ ~ NoResult.routing /\ NoResult.found = {}
      /\ DOMAIN NoResult = {"code", "ok", "found", "gap", "defect", "asks", "gate", "testsOnly", "routing", "queued"}
  <2>1. <<>> \in Seq(Nat)
    OBVIOUS
  <2> QED
    BY <2>1 DEF NoResult, Result, AllCodes, GateSays
<1>4. Gate(work) \in GateSays
  BY GateIs DEF Gate
<1>5. CASE Fail
  <2>1. PICK o \in Happens :
        /\ o.at = tickets[work].at
        /\ result' = [NoResult EXCEPT !.code = o.code, !.ok = o.code = "not replayed", !.found = o.found,
                          !.gap = o.gap, !.defect = o.defect, !.asks = o.asks, !.gate = Gate(work)]
        /\ tickets' = [tickets EXCEPT ![work].log = Logged(@, o.code)]
    BY <1>5 DEF Fail, Can
  <2>2. /\ o.code \in Codes /\ o.found \subseteq Findings /\ o.gap \in BOOLEAN
        /\ o.defect \in {"none", "role", "rendered"} /\ o.asks \in BOOLEAN
    BY GatesAssumption
  <2>3. /\ result' \in Result /\ result'.gate = Gate(work) /\ ~ result'.routing
        /\ result'.found = o.found
    BY <1>3, <1>4, <2>1, <2>2 DEF Result, AllCodes
  <2> DEFINE u == [tickets[work] EXCEPT !.log = Logged(@, o.code)]
  <2>4. u \in Ticket /\ SameTicket(tickets[work], u) /\ tickets' = [tickets EXCEPT ![work] = u]
    <3>1. Logged(tickets[work].log, o.code) \in [old : BOOLEAN, count : [Codes -> Nat]]
      BY <1>2, <2>2, TicketHas, LoggedIs
    <3> QED
      BY <1>2, <2>1, <3>1 DEF Ticket, SameTicket
  <2> HIDE DEF u
  <2>5. tickets' \in Seq(Ticket) /\ Same(tickets, tickets')
    <3> HIDE DEF Ticket
    <3>1. /\ tickets' \in Seq(Ticket) /\ Len(tickets') = Len(tickets)
          /\ \A i \in 1..Len(tickets) : tickets'[i] = IF i = work THEN u ELSE tickets[i]
      BY <1>2, <2>4
    <3> QED
      BY <2>4, <3>1 DEF Same, SameTicket
  <2>6. PointsBack => \A f \in result'.found : f.target <= CODE \/ f.target = tickets[work].at
    BY <2>1, <2>3 DEF PointsBack
  <2> QED
    BY <1>1, <2>3, <2>5, <2>6, AttemptIs
<1>6. CASE Succeed
  <2>1. PICK testsOnly \in BOOLEAN :
            result' = [NoResult EXCEPT !.code = "passed", !.ok = TRUE, !.gate = Gate(work),
                                       !.testsOnly = testsOnly]
    BY <1>6 DEF Succeed
  <2>2. result' \in Result /\ result'.gate = Gate(work) /\ ~ result'.routing /\ result'.found = {}
    BY <1>3, <1>4, <2>1 DEF Result, AllCodes
  <2>3. tickets' = tickets /\ Same(tickets, tickets')
    BY <1>6 DEF Succeed, Same, SameTicket
  <2> QED
    BY <1>1, <1>2, <2>2, <2>3, AttemptIs
<1> QED
  BY <1>5, <1>6 DEF Attempt

\* What is made of an attempt that passed.
LEMMA PassedHolds ==
    ASSUME GatesInv, Due, ~ result.routing, ProcessPassed
    PROVE  GatesInv'
<1> DEFINE t == tickets[work]
           s == t.at
           affected == Propagation(step, s, result.testsOnly)
<1>1. /\ TypeOK /\ OnBoard(Both) /\ Both \in Board /\ Both.step = step /\ Both.tickets = tickets
      /\ Works(work) /\ t \in Ticket /\ s \in Steps /\ t.kind \in Kinds
      /\ Linked(t, work, Len(tickets)) /\ up \in BOOLEAN
  BY Held, TheBoard, TicketHas DEF Due, Works
<1>2. \A p, runs : p \in Board /\ OnBoard(p) /\ runs \in BOOLEAN /\ Becomes(p, runs) => GatesInv'
  BY <1>1, BecomesHolds
<1>3. Becomes(Both, up) \/ Becomes(Both, FALSE) => GatesInv'
  BY <1>1, <1>2
<1>4. CASE t.kind = "story"
  <2> DEFINE p == [Both EXCEPT !.step[s] = "closed"]
             q == [p EXCEPT !.tickets[work].state = "closed"]
  <2>1. work \in Steps /\ s = work
    BY <1>1, <1>4 DEF Linked
  <2>2. \/ Becomes([Both EXCEPT !.step[s] = "closed", !.tickets[work].state = "closed"], FALSE)
        \/ Becomes(DeliverNormal(work), up)
    BY <1>4 DEF ProcessPassed, StopWith, Outcome
  <2>3. DeliverNormal(work) \in Board /\ OnBoard(DeliverNormal(work))
    BY <1>1, <2>1, DeliverNormalLeads DEF Leads
  <2>4. p \in Board /\ OnBoard(p) /\ p.tickets = tickets
    BY <1>1, StepLeads DEF StepStates, Leads, Works
  <2>5. [Both EXCEPT !.step[s] = "closed", !.tickets[work].state = "closed"] = q
    OBVIOUS
  <2> HIDE DEF p
  <2>6. q \in Board /\ OnBoard(q)
    <3>1. Keeps(p, q)
      BY <1>1, <2>4, StateKeeps DEF TicketStates, Works
    <3> HIDE DEF q
    <3> QED
      BY <2>4, <3>1, KeepsLeads DEF Leads
  <2> HIDE DEF q
  <2> QED
    BY <1>1, <1>2, <2>2, <2>3, <2>5, <2>6
<1>5. CASE t.kind \in {"bug", "enhancement"}
  <2>1. IF affected = {} THEN Becomes(Both, FALSE) ELSE Becomes(Propagate(work, affected), up)
    BY <1>5 DEF ProcessPassed, StopWith, Outcome
  <2>2. affected \subseteq Steps
    BY <1>1, Places DEF Propagation, Downstream
  <2>3. BeforeCode => affected = Downstream(s)
    <3> SUFFICES ASSUME BeforeCode, ~ Verifies(s),
                        \A d \in Steps : s < d /\ d < Paired(s) => step[d] \in Satisfied
                 PROVE  FALSE
      BY DEF Propagation
    <3>1. s < CODE /\ CODE < Paired(s)
      <4>1. s < CODE
        BY <1>1 DEF Works
      <4>2. s \in Nat /\ Pairs \in Nat
        BY <1>1, Places, Numbers
      <4> QED
        BY <4>1, <4>2 DEF CODE, Paired
    <3>2. step[CODE] \in Satisfied
      BY <3>1, Places
    <3>3. step[CODE] \notin Advanced
      <4>1. CODE \in Steps /\ CODE >= CODE
        BY Places, Numbers
      <4>2. Early(step, tickets)
        BY <1>1 DEF OnBoard
      <4> QED
        BY <4>1, <4>2 DEF Early
    <3> QED
      BY <3>2, <3>3 DEF Satisfied, Advanced
  <2> HIDE DEF affected
  <2>4. CASE affected = {}
    BY <1>3, <2>1, <2>4
  <2>5. CASE affected # {}
    <3>1. Leads(Both, Propagate(work, affected))
      BY <1>1, <1>5, <2>2, <2>3, <2>5, PropagateLeads
    <3>2. Propagate(work, affected) \in Board /\ OnBoard(Propagate(work, affected))
      BY <3>1 DEF Leads
    <3> QED
      BY <1>1, <1>2, <2>1, <2>5, <3>2
  <2> QED
    BY <2>4, <2>5
<1>6. CASE t.kind \notin {"story", "bug", "enhancement"}
  <2>1. Becomes(Both, up) \/ Becomes(Apply(work), up)
    BY <1>6 DEF ProcessPassed, Outcome
  <2>2. IsRequest(t)
    BY <1>1, <1>6 DEF Kinds, IsRequest
  <2>3. Apply(work) \in Board /\ OnBoard(Apply(work))
    BY <1>1, <2>2, ApplyHolds
  <2> QED
    BY <1>1, <1>2, <1>3, <2>1, <2>3
<1> QED
  BY <1>4, <1>5, <1>6

\* What is made of an attempt that failed.
LEMMA FailedHolds ==
    ASSUME GatesInv, Due, ~ result.routing, ProcessFailed
    PROVE  GatesInv'
<1> DEFINE i == work
           t == tickets[i]
           s == t.at
           routable == Routable(Mode(t), s, result.found)
           source == IF Verifies(s) THEN Paired(s) ELSE s
           gap == RouteGap(Both, i, s, source, ParentOf(i), 0, result.code)
           carries == Mode(t) \in {"normal", "change-request"}
           Corrected(failed) == RouteFailure(Both, i, failed, IF Verifies(failed) THEN Paired(failed) ELSE failed,
                                             i, "contradicted")
           Blamed(g) == RouteFailure(Both, i, s, g, ParentOf(i), result.code)
<1>1. /\ TypeOK /\ OnBoard(Both) /\ Both \in Board /\ Both.step = step /\ Both.tickets = tickets
      /\ Works(i) /\ t \in Ticket /\ s \in Steps /\ t.kind \in Kinds
      /\ Linked(t, i, Len(tickets)) /\ up \in BOOLEAN /\ Len(tickets) \in Nat /\ i \in 1..Len(tickets)
      /\ BeforeCode => EarlyTicket(t)
  BY Held, TheBoard, TicketHas DEF Due, Works
<1>2. ParentOf(i) \in {0, i} /\ ParentOf(i) \in 0..Len(tickets) /\ result.code \in AllCodes
      /\ i \in 0..Len(tickets)
  BY <1>1 DEF ParentOf, TypeOK, Result
<1>3. s \in Nat /\ CODE \in Nat
  BY <1>1, Places, Numbers
<1>4. source \in Steps /\ (BeforeCode => s < CODE /\ source = s)
  <2>1. Paired(s) \in Steps /\ (Verifies(s) <=> s > CODE)
    BY <1>1, Places
  <2>2. BeforeCode => s < CODE
    BY <1>1 DEF Works
  <2> QED
    BY <1>1, <1>3, <2>1, <2>2
<1>5. \A p, runs : p \in Board /\ OnBoard(p) /\ runs \in BOOLEAN /\ Becomes(p, runs) => GatesInv'
  BY <1>1, BecomesHolds
<1>6. /\ Both \in Board /\ OnBoard(Both)
      /\ Deferred(i) \in Board /\ OnBoard(Deferred(i))
      /\ RouteDependency(Both, i, s) \in Board /\ OnBoard(RouteDependency(Both, i, s))
  BY <1>1, <1>4, DeferredHolds, RouteDependencyLeads DEF Leads
<1>7. gap \in Board /\ OnBoard(gap)
  <2>1. BeforeCode => s < CODE /\ source <= CODE
    BY <1>4, <1>3
  <2>2. Leads(Both, gap)
    BY <1>1, <1>2, <1>4, <2>1, RouteGapLeads
  <2> QED
    BY <2>2 DEF Leads
<1>8. ASSUME NEW failed \in t.origins, Mode(t) = "change-request"
      PROVE  Corrected(failed) \in Board /\ OnBoard(Corrected(failed))
  <2> DEFINE g == IF Verifies(failed) THEN Paired(failed) ELSE failed
  <2>1. failed \in Steps /\ failed = t.trigger /\ IsRequest(t)
    BY <1>1, <1>8, TicketHas DEF Linked, Mode, Kinds, IsRequest
  <2>2. BeforeCode => failed < CODE /\ failed \in Nat
    BY <1>1, <2>1, Numbers DEF EarlyTicket
  <2>3. g \in Steps /\ (BeforeCode => g <= CODE)
    <3>1. g \in Steps
      BY <2>1, Places
    <3>2. ASSUME BeforeCode PROVE g = failed
      BY <1>3, <2>1, <2>2, <3>2, Places
    <3> QED
      BY <1>3, <2>2, <3>1, <3>2
  <2>4. "contradicted" \in AllCodes
    BY DEF AllCodes
  <2> HIDE DEF g
  <2>5. Leads(Both, RouteFailure(Both, i, failed, g, i, "contradicted"))
    BY <1>1, <1>2, <2>1, <2>2, <2>3, <2>4, RouteFailureLeads
  <2> QED
    BY <2>5 DEF Leads, g
<1>9. ASSUME NEW g \in {s, source}, carries
      PROVE  Blamed(g) \in Board /\ OnBoard(Blamed(g))
  <2>1. i \in Steps \/ ParentOf(i) = i
    <3>1. t.kind = "story" \/ IsRequest(t)
      BY <1>1, <1>9 DEF Mode, Kinds, IsRequest
    <3> QED
      BY <1>1, <3>1 DEF Linked, ParentOf
  <2>2. g \in Steps /\ (BeforeCode => s < CODE /\ g <= CODE)
    BY <1>1, <1>4, <1>3
  <2>3. Leads(Both, Blamed(g))
    BY <1>1, <1>2, <2>1, <2>2, RouteFailureLeads
  <2> QED
    BY <2>3 DEF Leads
<1>10. \/ \E p \in {Both, Deferred(i), RouteDependency(Both, i, s), gap} : \E runs \in {up, FALSE} : Becomes(p, runs)
       \/ Mode(t) = "change-request" /\ \E failed \in t.origins : Becomes(Corrected(failed), up)
       \/ carries /\ \E g \in {s, source} : Becomes(Blamed(g), up)
       \/ /\ result' = [result EXCEPT !.routing = TRUE, !.found = routable]
          /\ UNCHANGED <<step, tickets, work, up, tried>>
  <2> HIDE DEF gap, routable
  <2> QED
    BY DEF ProcessFailed, StopWith, Outcome, gap, routable
<1> HIDE DEF gap, Corrected, Blamed, carries
<1>11. CASE \E p \in {Both, Deferred(i), RouteDependency(Both, i, s), gap} : \E runs \in {up, FALSE} : Becomes(p, runs)
  BY <1>1, <1>5, <1>6, <1>7, <1>11
<1>12. CASE Mode(t) = "change-request" /\ \E failed \in t.origins : Becomes(Corrected(failed), up)
  BY <1>1, <1>5, <1>8, <1>12
<1>13. CASE carries /\ \E g \in {s, source} : Becomes(Blamed(g), up)
  BY <1>1, <1>5, <1>9, <1>13
<1>14. CASE /\ result' = [result EXCEPT !.routing = TRUE, !.found = routable]
            /\ UNCHANGED <<step, tickets, work, up, tried>>
  <2>1. /\ result \in Result /\ work # 0 /\ result # NoResult /\ up
    BY Held DEF Due
  <2>2. routable \subseteq result.found /\ result.found \subseteq Findings
    BY <2>1 DEF Routable, Result
  <2>3. Mode(t) \in {"debug", "enhancement"} => \A f \in routable : QualityGap(f)
    BY DEF Routable
  <2> HIDE DEF routable
  <2>4. result' \in Result /\ result'.found = routable /\ result'.gate = result.gate
    BY <1>14, <2>1, <2>2 DEF Result
  <2>5. Both' \in Board /\ OnBoard(Both)'
    BY <1>1, <1>14, BoardIs
  <2>6. TypeOK'
    BY <1>1, <1>14, <2>4, <2>5 DEF TypeOK
  <2>7. AtWork'
    <3>1. BeforeCode' <=> BeforeCode
      BY <1>14 DEF BeforeCode
    <3>2. AtWork
      BY DEF GatesInv
    <3> QED
      BY <1>14, <2>1, <2>2, <2>4, <3>1, <3>2 DEF AtWork
  <2>8. Routing'
    BY <1>14, <2>3, <2>4 DEF Routing
  <2>9. Grows(tickets, tickets')
    BY <1>1, <1>14 DEF Grows, SameTicket
  <2> QED
    BY <1>14, <2>1, <2>4, <2>5, <2>6, <2>7, <2>8, <2>9, BaselineKept, CodeKept DEF GatesInv
<1> QED
  BY <1>10, <1>11, <1>12, <1>13, <1>14

\* A finding of the result is routed, and the attempt is still at work.
LEMMA RouteNextHolds ==
    ASSUME GatesInv, RouteNext
    PROVE  GatesInv'
<1>1. PICK f \in result.found : \E q \in {RouteFinding(Both, work, f)} :
            /\ step' = q.step /\ tickets' = q.tickets
            /\ \E i \in {Routed(q, work, f)} :
                   result' = [result EXCEPT !.found = @ \ {f},
                                            !.queued = IF \E n \in DOMAIN @ : @[n] = i THEN @ ELSE Append(@, i)]
  BY DEF RouteNext
<1> DEFINE q == RouteFinding(Both, work, f)
           i == Routed(q, work, f)
           queued == IF \E n \in DOMAIN result.queued : result.queued[n] = i THEN result.queued
                     ELSE Append(result.queued, i)
<1>2. /\ step' = q.step /\ tickets' = q.tickets
      /\ result' = [result EXCEPT !.found = @ \ {f}, !.queued = queued]
  BY <1>1
<1>3. /\ up /\ work # 0 /\ result # NoResult /\ result.routing
      /\ work' = work /\ up' = up /\ tried' = tried
  BY DEF RouteNext, Due
<1>4. /\ TypeOK /\ OnBoard(Both) /\ AtWork /\ Routing /\ Works(work) /\ result \in Result
      /\ Both.tickets = tickets /\ Len(tickets) \in Nat /\ up \in BOOLEAN /\ tried \in BOOLEAN
  BY <1>3, Held
<1>5. /\ result.queued \in Seq(Nat) /\ result.found \subseteq Findings /\ f \in Findings
  BY <1>4 DEF Result
<1>6. Leads(Both, q) /\ i \in Nat
  <2>1. PointsBack => f.target <= CODE \/ f.target = tickets[work].at
    BY <1>4 DEF AtWork
  <2>2. Mode(tickets[work]) \in {"debug", "enhancement"} => QualityGap(f)
    BY <1>3, <1>4 DEF Routing
  <2> QED
    BY <1>4, <1>5, <2>1, <2>2, RouteFindingLeads
<1> HIDE DEF q, i
<1>7. queued \in Seq(Nat)
  BY <1>5, <1>6
<1> HIDE DEF queued
<1>8. result' \in Result /\ result'.found \subseteq result.found /\ result'.gate = result.gate
      /\ result'.routing = result.routing
  BY <1>2, <1>4, <1>5, <1>7 DEF Result
<1>9. q \in Board /\ OnBoard(q) /\ Grows(tickets, tickets') /\ Len(tickets') \in Nat
  BY <1>2, <1>4, <1>6 DEF Leads, Grows
<1>10. Both' \in Board /\ OnBoard(Both)'
  BY <1>2, <1>3, <1>9, BoardIs
<1>11. work \in 1..Len(tickets) /\ SameTicket(tickets[work], tickets'[work]) /\ work \in 0..Len(tickets')
  BY <1>4, <1>9 DEF Works, Grows
<1>12. TypeOK'
  BY <1>3, <1>4, <1>8, <1>10 DEF TypeOK
<1>13. AtWork'
  <2>1. BeforeCode' <=> BeforeCode
    BY <1>3 DEF BeforeCode
  <2> QED
    BY <1>3, <1>4, <1>8, <1>11, <2>1 DEF AtWork, SameTicket
<1>14. Routing'
  <2>1. Mode(tickets'[work]) = Mode(tickets[work])
    BY <1>11 DEF SameTicket, Mode
  <2> QED
    BY <1>3, <1>4, <1>8, <2>1 DEF Routing
<1> QED
  BY <1>3, <1>8, <1>9, <1>10, <1>12, <1>13, <1>14, BaselineKept, CodeKept DEF GatesInv

LEMMA WaitingTicket ==
    ASSUME NEW t \in Ticket, NEW S \in SUBSET Nat, NEW u, u = [t EXCEPT !.after = @ \cup S]
    PROVE  u \in Ticket /\ SameTicket(t, u)
BY DEF Ticket, SameTicket

LEMMA BatchHolds ==
    ASSUME GatesInv, Batch
    PROVE  GatesInv'
<1> DEFINE T == Batched(result.queued)
           q == [step |-> step, tickets |-> T]
<1>1. Becomes(q, up)
  BY DEF Batch, Outcome
<1>2. /\ TypeOK /\ OnBoard(Both) /\ Both \in Board /\ Both.step = step /\ Both.tickets = tickets
      /\ result \in Result /\ up \in BOOLEAN /\ Len(tickets) \in Nat
      /\ \A i \in 1..Len(tickets) : tickets[i] \in Ticket
  BY Held, TheBoard
<1>3. result.queued \in Seq(Nat)
  BY <1>2 DEF Result
<1> DEFINE Before(i) == {result.queued[k] : k \in {n \in DOMAIN result.queued :
                            n + 1 \in DOMAIN result.queued /\ result.queued[n + 1] = i}}
<1>4. T = [i \in DOMAIN tickets |-> [tickets[i] EXCEPT !.after = @ \cup Before(i)]]
  BY DEF Batched
<1>5. \A i : Before(i) \in SUBSET Nat
  BY <1>3
<1> HIDE DEF Before
<1>6. /\ T = [i \in DOMAIN Both.tickets |-> T[i]]
      /\ \A i \in 1..Len(Both.tickets) : T[i] \in Ticket /\ SameTicket(Both.tickets[i], T[i])
  <2>1. DOMAIN tickets = 1..Len(tickets)
    BY <1>2, TicketsOf
  <2>2. T = [i \in DOMAIN tickets |-> T[i]]
    BY <1>4
  <2>3. ASSUME NEW i \in 1..Len(tickets) PROVE T[i] \in Ticket /\ SameTicket(tickets[i], T[i])
    <3>1. T[i] = [tickets[i] EXCEPT !.after = @ \cup Before(i)]
      BY <1>4, <2>1
    <3> HIDE DEF T
    <3> QED
      BY <1>2, <1>5, <3>1, WaitingTicket
  <2> HIDE DEF T
  <2> QED
    BY <1>2, <2>2, <2>3
<1>7. q = Changed(Both, T)
  BY DEF Changed, Both
<1> HIDE DEF T, q
<1>8. Keeps(Both, q)
  BY <1>2, <1>6, <1>7, EachTicket
<1>9. q \in Board /\ OnBoard(q)
  BY <1>2, <1>8, KeepsLeads DEF Leads
<1> QED
  BY <1>1, <1>2, <1>9, BecomesHolds

-----------------------------------------------------------------------------
(* The theorems.                                                            *)

LEMMA StepHolds == GatesInv /\ [Next]_vars => GatesInv'
<1> SUFFICES ASSUME GatesInv, [Next]_vars PROVE GatesInv'
  OBVIOUS
<1>1. CASE Start
  BY <1>1, StartHolds
<1>2. CASE Finish \/ Crash
  BY <1>2, StopsHold
<1>3. CASE Attempt
  BY <1>3, AttemptHolds
<1>4. CASE Process
  <2>1. Due /\ ~ result.routing /\ (ProcessPassed \/ ProcessFailed)
    BY <1>4 DEF Process
  <2> QED
    BY <2>1, PassedHolds, FailedHolds
<1>5. CASE RouteNext
  BY <1>5, RouteNextHolds
<1>6. CASE Batch
  BY <1>6, BatchHolds
<1>7. CASE Cancelled
  BY <1>7, CancelledHolds
<1>8. CASE Resume
  BY <1>8, ResumeHolds
<1>9. CASE UNCHANGED vars
  <2>1. /\ step' = step /\ tickets' = tickets /\ work' = work /\ result' = result /\ up' = up
        /\ tried' = tried
    BY <1>9 DEF vars
  <2>2. Both' = Both
    BY <2>1 DEF Both
  <2>3. TypeOK' /\ AtWork' /\ Routing'
    BY <2>1, <2>2, Held DEF TypeOK, AtWork, Routing, BeforeCode
  <2>4. OnBoard(Both)'
    BY <2>1, Held, BoardIs
  <2>5. BaselineHeld'
    BY <2>1 DEF GatesInv, BaselineHeld, Causes, All
  <2>6. PointsBack => CodeIsThere'
    BY <2>1 DEF GatesInv, CodeIsThere
  <2> QED
    BY <2>3, <2>4, <2>5, <2>6 DEF GatesInv
<1> QED
  BY <1>1, <1>2, <1>3, <1>4, <1>5, <1>6, <1>7, <1>8, <1>9 DEF Next, Run

\* Every ticket says truly what it is there because of, and until there is an attempt at CODE no
\* Step from CODE on has begun and nothing was met there: the board as the services of a Phase
\* leave it, whatever an attempt comes to (attempt_result_processor.ts, ticket_workflow.ts).
THEOREM BoardHolds == Spec => []GatesInv
BY InitHolds, StepHolds, PTL DEF Spec

\* A development Step that is corrected because of what was met at CODE or later runs the tests it
\* wrote before it delivers again, however many corrections are in between
\* (resolveCorrectionChainOrigin, resolveBaselineGateExecution).
THEOREM BaselineIsHeld == Spec => []BaselineHeld
<1>1. GatesInv => BaselineHeld
  BY DEF GatesInv
<1> QED
  BY <1>1, BoardHolds, PTL

\* A development Step before CODE is made to run its tests only when there was an attempt at the
\* code they test, as long as a Step finds fault with itself or with a development Step.
THEOREM CodeComesFirst == PointsBack => (Spec => []CodeIsThere)
<1> SUFFICES ASSUME PointsBack PROVE Spec => []CodeIsThere
  OBVIOUS
<1>1. GatesInv => CodeIsThere
  BY DEF GatesInv
<1> QED
  BY <1>1, BoardHolds, PTL

=============================================================================
