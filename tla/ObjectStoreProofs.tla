-------------------------- MODULE ObjectStoreProofs --------------------------
(***************************************************************************)
(* The registry survives every crash, has no orphans and is the store its  *)
(* callers were promised, for any objects, batches, callers and bounds.    *)
(***************************************************************************)
EXTENDS ObjectStore, FiniteSetTheorems, SequenceTheorems, TLAPS

Event == [object : Objects, entry : Entry]

-----------------------------------------------------------------------------
(* The least and the greatest of a set of numbers.                          *)

LEMMA LeastOf ==
    ASSUME NEW S, S \subseteq Nat, S # {}
    PROVE  \E x \in S : \A y \in S : x <= y
<1> DEFINE T == {1..x : x \in S}
<1>1. T \subseteq FiniteSubsetsOf(Nat)
  <2> SUFFICES ASSUME NEW x \in S PROVE 1..x \in FiniteSubsetsOf(Nat)
    OBVIOUS
  <2>1. IsFiniteSet(1..x)
    BY FS_Interval
  <2> QED
    BY <2>1 DEF FiniteSubsetsOf
<1>2. PICK t \in T : \A u \in T : <<u, t>> \notin StrictSubsetOrdering(Nat)
  <2>1. T # {}
    OBVIOUS
  <2>2. IsWellFoundedOn(StrictSubsetOrdering(Nat), FiniteSubsetsOf(Nat))
    BY FS_StrictSubsetOrderingWellFounded
  <2> HIDE DEF T
  <2> QED
    BY <1>1, <2>1, <2>2, WFMin
<1>3. PICK x \in S : t = 1..x
  OBVIOUS
<1>4. ASSUME NEW y \in S, y < x PROVE FALSE
  <2>1. x \in 1..x /\ x \notin 1..y
    BY <1>4
  <2>2. 1..y \subseteq 1..x /\ 1..y # 1..x
    BY <1>4, <2>1
  <2>3. <<1..y, 1..x>> \in StrictSubsetOrdering(Nat)
    BY <2>2 DEF StrictSubsetOrdering
  <2> QED
    BY <1>2, <1>3, <2>3
<1> QED
  BY <1>4

LEMMA GreatestOf ==
    ASSUME NEW n \in Nat, NEW S, S \subseteq 1..n, S # {}
    PROVE  Max(S) \in S /\ \A y \in S : y <= Max(S)
<1> DEFINE T == {n - x : x \in S}
<1>1. T \subseteq Nat
  <2> SUFFICES ASSUME NEW x \in S PROVE n - x \in Nat
    OBVIOUS
  <2> QED
    BY x \in 1..n
<1>2. T # {}
  OBVIOUS
<1>3. PICK t \in T : \A u \in T : t <= u
  BY <1>1, <1>2, LeastOf
<1>4. PICK x \in S : t = n - x
  OBVIOUS
<1>5. ASSUME NEW y \in S PROVE x >= y
  <2>1. n - x <= n - y
    BY <1>3, <1>4
  <2>2. x \in 1..n /\ y \in 1..n
    OBVIOUS
  <2> HIDE DEF T
  <2> QED
    BY <2>1, <2>2
<1> QED
  BY <1>5 DEF Max

-----------------------------------------------------------------------------
(* What events leave of an object.                                          *)

\* The i-th event is the last one of object o.
LastAt(es, o, i) ==
    /\ i \in 1..Len(es) /\ es[i].object = o
    /\ \A j \in 1..Len(es) : j > i => es[j].object # o

LEMMA LastOfIts ==
    ASSUME NEW T, NEW es \in Seq(T), NEW o, NEW e, NEW i, LastAt(es, o, i)
    PROVE  LastEntry(es, o, e) = es[i].entry
<1> DEFINE at == {k \in DOMAIN es : es[k].object = o}
<1>1. at \subseteq 1..Len(es) /\ i \in at /\ Len(es) \in Nat
  BY DEF LastAt
<1>2. Max(at) \in at /\ \A y \in at : y <= Max(at)
  BY <1>1, GreatestOf
<1>3. PICK k : k = Max(at)
  OBVIOUS
<1>4. k \in 1..Len(es) /\ es[k].object = o /\ i <= k
  BY <1>1, <1>2, <1>3
<1>5. k = i
  BY <1>1, <1>4 DEF LastAt
<1> QED
  BY <1>1, <1>3, <1>5 DEF LastEntry

LEMMA NoneOfIts ==
    ASSUME NEW T, NEW es \in Seq(T), NEW o, NEW e, \A i \in 1..Len(es) : es[i].object # o
    PROVE  LastEntry(es, o, e) = e
<1>1. DOMAIN es = 1..Len(es)
  OBVIOUS
<1> QED
  BY <1>1 DEF LastEntry

LEMMA SomeOrNone ==
    ASSUME NEW T, NEW es \in Seq(T), NEW o
    PROVE  (\A i \in 1..Len(es) : es[i].object # o) \/ \E i : LastAt(es, o, i)
<1> SUFFICES ASSUME NEW k \in 1..Len(es), es[k].object = o PROVE \E i : LastAt(es, o, i)
  OBVIOUS
<1> DEFINE at == {j \in 1..Len(es) : es[j].object = o}
<1>1. at \subseteq 1..Len(es) /\ k \in at /\ Len(es) \in Nat
  OBVIOUS
<1>2. Max(at) \in at /\ \A y \in at : y <= Max(at)
  BY <1>1, GreatestOf
<1>3. PICK i \in at : \A y \in at : y <= i
  BY <1>2
<1>4. i \in 1..Len(es) /\ es[i].object = o /\ i \in Int
  BY <1>1, <1>3
<1>5. \A j \in 1..Len(es) : j > i => es[j].object # o
  BY <1>1, <1>3, <1>4
<1> QED
  BY <1>4, <1>5 DEF LastAt

LEMMA NothingLeft ==
    ASSUME NEW o, NEW e
    PROVE  LastEntry(<<>>, o, e) = e
<1>1. \A i \in DOMAIN <<>> : FALSE
  OBVIOUS
<1> QED
  BY <1>1 DEF LastEntry

\* Events that follow others are applied to what those have left.
LEMMA Followed ==
    ASSUME NEW T, NEW es \in Seq(T), NEW fs \in Seq(T), NEW o, NEW e
    PROVE  LastEntry(es \o fs, o, e) = LastEntry(fs, o, LastEntry(es, o, e))
<1>1. PICK gs \in Seq(T) : gs = es \o fs
  <2>1. es \o fs \in Seq(T)
    BY ConcatProperties
  <2> QED
    BY <2>1
<1>2. PICK n \in Nat, m \in Nat : n = Len(es) /\ m = Len(fs)
  OBVIOUS
<1>3. /\ Len(gs) = n + m
      /\ \A i \in 1..n : gs[i] = es[i] /\ i \in 1..Len(gs)
      /\ \A i \in 1..m : gs[n + i] = fs[i] /\ n + i \in 1..Len(gs)
  BY <1>1, <1>2
<1>4. \A i \in 1..Len(gs) : i \in 1..n \/ (i - n \in 1..m /\ i = n + (i - n))
  BY <1>3
<1>5. ASSUME NEW i, LastAt(fs, o, i)
      PROVE  LastEntry(gs, o, e) = fs[i].entry
  <2>1. i \in 1..m /\ fs[i].object = o /\ \A j \in 1..m : j > i => fs[j].object # o
    BY <1>2, <1>5 DEF LastAt
  <2>2. ASSUME NEW j \in 1..Len(gs), j > n + i PROVE gs[j].object # o
    <3>1. j - n \in 1..m /\ j = n + (j - n) /\ j - n > i
      BY <1>2, <1>4, <2>1, <2>2
    <3>2. gs[j] = fs[j - n]
      BY <1>3, <3>1
    <3> QED
      BY <2>1, <3>1, <3>2
  <2>3. LastAt(gs, o, n + i)
    BY <1>3, <2>1, <2>2 DEF LastAt
  <2> QED
    BY <1>3, <2>1, <2>3, LastOfIts
<1>6. ASSUME NEW i, LastAt(es, o, i), \A j \in 1..m : fs[j].object # o
      PROVE  LastEntry(gs, o, e) = es[i].entry
  <2>1. i \in 1..n /\ es[i].object = o /\ \A j \in 1..n : j > i => es[j].object # o
    BY <1>2, <1>6 DEF LastAt
  <2>2. ASSUME NEW j \in 1..Len(gs), j > i PROVE gs[j].object # o
    <3>1. CASE j \in 1..n
      BY <1>3, <2>1, <2>2, <3>1
    <3>2. CASE j - n \in 1..m /\ j = n + (j - n)
      <4>1. gs[j] = fs[j - n]
        BY <1>3, <3>2
      <4> QED
        BY <1>6, <3>2, <4>1
    <3> QED
      BY <1>4, <3>1, <3>2
  <2>3. LastAt(gs, o, i)
    BY <1>3, <2>1, <2>2 DEF LastAt
  <2> QED
    BY <1>3, <2>1, <2>3, LastOfIts
<1>7. ASSUME \A i \in 1..n : es[i].object # o, \A i \in 1..m : fs[i].object # o
      PROVE  LastEntry(gs, o, e) = e
  <2>1. ASSUME NEW j \in 1..Len(gs) PROVE gs[j].object # o
    <3>1. CASE j \in 1..n
      BY <1>3, <1>7, <3>1
    <3>2. CASE j - n \in 1..m /\ j = n + (j - n)
      <4>1. gs[j] = fs[j - n]
        BY <1>3, <3>2
      <4> QED
        BY <1>7, <3>2, <4>1
    <3> QED
      BY <1>4, <3>1, <3>2
  <2> QED
    BY <2>1, NoneOfIts
<1>8. CASE \E i : LastAt(fs, o, i)
  BY <1>1, <1>5, <1>8, LastOfIts
<1>9. CASE \A i \in 1..m : fs[i].object # o
  <2>1. LastEntry(fs, o, LastEntry(es, o, e)) = LastEntry(es, o, e)
    BY <1>2, <1>9, NoneOfIts
  <2>2. CASE \E i : LastAt(es, o, i)
    BY <1>1, <1>6, <1>9, <2>1, <2>2, LastOfIts
  <2>3. CASE \A i \in 1..n : es[i].object # o
    <3>1. LastEntry(es, o, e) = e
      BY <1>2, <2>3, NoneOfIts
    <3> QED
      BY <1>1, <1>7, <1>9, <2>1, <2>3, <3>1
  <2> QED
    BY <1>2, <2>2, <2>3, SomeOrNone
<1> QED
  BY <1>2, <1>8, <1>9, SomeOrNone

LEMMA OneMore ==
    ASSUME NEW T, NEW es \in Seq(T), NEW x \in T, NEW o, NEW e
    PROVE  LastEntry(Append(es, x), o, e) =
               IF x.object = o THEN x.entry ELSE LastEntry(es, o, e)
<1>1. <<x>> \in Seq(T) /\ Append(es, x) = es \o <<x>> /\ Len(<<x>>) = 1 /\ <<x>>[1] = x
  OBVIOUS
<1>2. LastEntry(Append(es, x), o, e) = LastEntry(<<x>>, o, LastEntry(es, o, e))
  <2>1. PICK fs \in Seq(T) : fs = <<x>>
    BY <1>1
  <2>2. LastEntry(es \o fs, o, e) = LastEntry(fs, o, LastEntry(es, o, e))
    BY Followed
  <2> QED
    BY <1>1, <2>1, <2>2
<1>3. x.object = o => LastAt(<<x>>, o, 1)
  BY <1>1 DEF LastAt
<1>4. x.object = o => LastEntry(<<x>>, o, LastEntry(es, o, e)) = x.entry
  BY <1>1, <1>3, LastOfIts
<1>5. x.object # o => LastEntry(<<x>>, o, LastEntry(es, o, e)) = LastEntry(es, o, e)
  <2>1. PICK fs \in Seq(T) : fs = <<x>>
    BY <1>1
  <2>2. x.object # o => \A i \in 1..Len(fs) : fs[i].object # o
    BY <1>1, <2>1
  <2> QED
    BY <2>1, <2>2, NoneOfIts
<1> QED
  BY <1>2, <1>4, <1>5

\* A sequence that grows at its end does so after each of its beginnings.
LEMMA RestGrows ==
    ASSUME NEW T, NEW es \in Seq(T), NEW fs \in Seq(T), NEW k \in 0..Len(es)
    PROVE  /\ SubSeq(es, k + 1, Len(es)) \in Seq(T)
           /\ SubSeq(es \o fs, k + 1, Len(es \o fs)) = SubSeq(es, k + 1, Len(es)) \o fs
<1>1. PICK n \in Nat, m \in Nat : n = Len(es) /\ m = Len(fs) /\ k \in Nat /\ k <= n
  OBVIOUS
<1>2. PICK gs \in Seq(T) : gs = es \o fs
  <2>1. es \o fs \in Seq(T)
    BY ConcatProperties
  <2> QED
    BY <2>1
<1>3. /\ Len(gs) = n + m
      /\ \A i \in 1..n : gs[i] = es[i]
      /\ \A i \in 1..m : gs[n + i] = fs[i]
  BY <1>1, <1>2
<1>4. PICK rest \in Seq(T) :
          /\ rest = SubSeq(es, k + 1, n)
          /\ Len(rest) = n - k /\ \A i \in 1..(n - k) : rest[i] = es[k + i]
  <2>1. \A i \in (k + 1)..n : es[i] \in T
    BY <1>1
  <2>2. SubSeq(es, k + 1, n) \in Seq(T) /\ Len(SubSeq(es, k + 1, n)) = n - k
    BY <1>1, <2>1, SubSeqProperties
  <2>3. ASSUME NEW i \in 1..(n - k) PROVE SubSeq(es, k + 1, n)[i] = es[k + i]
    <3>1. i \in 1..(1 + n - (k + 1)) /\ i + (k + 1) - 1 = k + i
      BY <1>1
    <3> QED
      BY <3>1
  <2> QED
    BY <2>2, <2>3
<1>5. PICK more \in Seq(T) :
          /\ more = SubSeq(gs, k + 1, n + m)
          /\ Len(more) = n + m - k /\ \A i \in 1..(n + m - k) : more[i] = gs[k + i]
  <2>1. \A i \in (k + 1)..(n + m) : gs[i] \in T
    BY <1>1, <1>3
  <2>2. SubSeq(gs, k + 1, n + m) \in Seq(T) /\ Len(SubSeq(gs, k + 1, n + m)) = n + m - k
    BY <1>1, <2>1, SubSeqProperties
  <2>3. ASSUME NEW i \in 1..(n + m - k) PROVE SubSeq(gs, k + 1, n + m)[i] = gs[k + i]
    <3>1. i \in 1..(1 + (n + m) - (k + 1)) /\ i + (k + 1) - 1 = k + i
      BY <1>1
    <3>2. n + m \in Int /\ k + 1 \in Int
      BY <1>1
    <3> QED
      BY <3>1, <3>2
  <2> QED
    BY <2>2, <2>3
<1>6. PICK both \in Seq(T) :
          /\ both = rest \o fs
          /\ Len(both) = n - k + m
          /\ \A i \in 1..(n - k) : both[i] = rest[i]
          /\ \A i \in 1..m : both[n - k + i] = fs[i]
  <2>0. rest \o fs \in Seq(T) /\ Len(rest \o fs) = Len(rest) + Len(fs)
    BY ConcatProperties
  <2>1. rest \o fs \in Seq(T) /\ Len(rest \o fs) = n - k + m
    BY <1>1, <1>4, <2>0
  <2>2. \A i \in 1..(n - k) : (rest \o fs)[i] = rest[i]
    BY <1>1, <1>4
  <2>3. ASSUME NEW i \in 1..m PROVE (rest \o fs)[n - k + i] = fs[i]
    <3>1. (rest \o fs)[Len(rest) + i] = fs[i]
      BY <1>1
    <3> QED
      BY <1>4, <3>1
  <2> QED
    BY <2>1, <2>2, <2>3
<1>7. ASSUME NEW i \in 1..(n + m - k) PROVE more[i] = both[i]
  <2>1. CASE i \in 1..(n - k)
    <3>1. k + i \in 1..n
      BY <1>1, <2>1
    <3> QED
      BY <1>3, <1>4, <1>5, <1>6, <2>1, <3>1
  <2>2. CASE i - (n - k) \in 1..m
    <3>1. PICK j \in 1..m : j = i - (n - k)
      BY <2>2
    <3>2. i = n - k + j /\ k + i = n + j
      BY <1>1, <3>1
    <3> QED
      BY <1>3, <1>5, <1>6, <3>2
  <2> QED
    BY <1>1, <2>1, <2>2
<1>8. more = both
  <2>1. Len(more) = Len(both) /\ Len(more) = n + m - k
    BY <1>1, <1>5, <1>6
  <2>2. \A i \in 1..Len(more) : more[i] = both[i]
    BY <1>7, <2>1
  <2> QED
    BY <2>1, <2>2, SeqEqual
<1> QED
  BY <1>1, <1>2, <1>3, <1>4, <1>5, <1>6, <1>8

LEMMA EntryTypes ==
    ASSUME NEW es \in Seq(Event), NEW o, NEW e \in Entry
    PROVE  LastEntry(es, o, e) \in Entry
<1>1. CASE \E i : LastAt(es, o, i)
  <2>1. PICK i : LastAt(es, o, i)
    BY <1>1
  <2>2. es[i] \in Event
    BY <2>1 DEF LastAt
  <2> QED
    BY <2>1, <2>2, LastOfIts DEF Event
<1>2. CASE \A i \in 1..Len(es) : es[i].object # o
  BY <1>2, NoneOfIts
<1> QED
  BY <1>1, <1>2, SomeOrNone

-----------------------------------------------------------------------------
(* The invariant.                                                           *)

\* The commits that wait are of different callers, and each has something to commit.
Turn ==
    /\ \A i, j \in 1..Len(queue) : queue[i] = queue[j] => i = j
    /\ \A i \in 1..Len(queue) : batch[queue[i]] # <<>>
    /\ stage = "idle" <=> queue = <<>>
    /\ ~ up => queue = <<>>
    /\ stage = "files" => written < Len(batch[Running])
    /\ stage = "idle" => written = 0

\* An object has no more revisions than there are events.
Counted ==
    /\ Len(log) <= MaxEvents
    /\ \A o \in Objects : Replay(log)[o].revision <= Len(log)

\* Before an object's event there is one of what it hangs under.
Ordered ==
    \A i \in 1..Len(log) : log[i].object # Root =>
        \E j \in 1..(i - 1) : log[j].object = Parent[log[i].object]

\* Between its append and its apply, a commit is the end of the log and memory is what was
\* there before it.
Ahead ==
    stage = "apply" =>
        \E before \in Seq(Event) :
            /\ Events \in Seq(Event)
            /\ log = before \o Events
            /\ entries = Replay(before) /\ sequence = Len(before)

StoreInv == TypeOK /\ Turn /\ Counted /\ Ordered /\ Ahead /\ Recoverable /\ NoOrphans

-----------------------------------------------------------------------------
LEMMA AbsentIsAnEntry == Absent \in Entry
BY ObjectStoreAssumption DEF Absent, Entry, Revisions

LEMMA ReplayTypes ==
    ASSUME NEW es \in Seq(Event)
    PROVE  Replay(es) \in [Objects -> Entry]
BY AbsentIsAnEntry, EntryTypes DEF Replay

\* What was active before is so by an event.
LEMMA ActiveHasEvent ==
    ASSUME NEW es \in Seq(Event), NEW o \in Objects, Replay(es)[o].revision > 0
    PROVE  \E i \in 1..Len(es) : es[i].object = o
<1> SUFFICES ASSUME \A i \in 1..Len(es) : es[i].object # o PROVE FALSE
  OBVIOUS
<1>1. Replay(es)[o] = Absent
  BY NoneOfIts DEF Replay
<1> QED
  BY <1>1 DEF Absent

LEMMA InitInv == Init => StoreInv
<1> SUFFICES ASSUME Init PROVE StoreInv
  OBVIOUS
<1>1. /\ log = <<>> /\ Len(log) = 0 /\ log \in Seq(Event)
      /\ index = [sequence |-> 0, entries |-> Replay(<<>>)]
      /\ entries = Replay(<<>>) /\ sequence = 0 /\ queue = <<>> /\ Len(queue) = 0 /\ stage = "idle"
  BY DEF Init
<1>2. \A o \in Objects : Replay(<<>>)[o] = Absent
  BY NothingLeft DEF Replay
<1>3. TypeOK
  <2>1. NoFiles \in [Objects -> [1..MaxEvents -> Callers \cup {{}}]]
    BY DEF NoFiles
  <2>2. index \in [sequence : 0..MaxEvents, entries : [Objects -> Entry]]
    <3>1. Replay(<<>>) \in [Objects -> Entry]
      BY <1>1, ReplayTypes
    <3> QED
      BY <1>1, <3>1, ObjectStoreAssumption
  <2>3. seen \in [Callers -> [Objects -> Revisions]]
    BY ObjectStoreAssumption DEF Init, Revisions
  <2>4. batch \in [Callers -> Batches \cup {<<>>}]
    BY DEF Init
  <2> QED
    BY <1>1, <2>1, <2>2, <2>3, <2>4, ReplayTypes, ObjectStoreAssumption DEF Init, TypeOK, Event, Stages
<1>4. Turn
  BY <1>1 DEF Turn, Init
<1>5. Counted /\ Ordered /\ NoOrphans
  <2>1. \A o \in DOMAIN Parent : o \in Objects
    BY DEF Objects
  <2> QED
    BY <1>1, <1>2, <2>1, ObjectStoreAssumption DEF Counted, Ordered, NoOrphans, Absent
<1>6. Recoverable
  <2>1. Unindexed = <<>>
    BY <1>1, SubSeqEmpty DEF Unindexed
  <2>2. \A o \in Objects : LastEntry(<<>>, o, index.entries[o]) = index.entries[o]
    BY NothingLeft
  <2>3. index.entries = Replay(log) /\ Replay(log) = [o \in Objects |-> Replay(log)[o]]
    BY <1>1 DEF Replay
  <2>4. Loaded = Replay(log)
    BY <2>1, <2>2, <2>3 DEF Loaded
  <2> QED
    BY <1>1, <2>4 DEF Recoverable
<1> QED
  BY <1>1, <1>3, <1>4, <1>5, <1>6 DEF StoreInv, Ahead

-----------------------------------------------------------------------------
(* The parts of the invariant, as the actions disturb them.                 *)

OnDisk == index.sequence <= Len(log) /\ Loaded = Replay(log)
InMemory == up /\ stage # "apply" => entries = Replay(log) /\ sequence = Len(log)

LEMMA Parts == Recoverable <=> OnDisk /\ InMemory
BY DEF Recoverable, OnDisk, InMemory

LEMMA SameDisk ==
    ASSUME Counted, Ordered, NoOrphans, OnDisk, UNCHANGED <<log, index>>
    PROVE  Counted' /\ Ordered' /\ NoOrphans' /\ OnDisk'
<1>1. Replay(log)' = Replay(log)
  BY DEF Replay, LastEntry
<1>2. Loaded' = Loaded
  BY DEF Loaded, Unindexed, LastEntry
<1> QED
  BY <1>1, <1>2 DEF Counted, Ordered, NoOrphans, OnDisk

\* Who commits, and what, when a step leaves the running commit alone.
LEMMA SameEvents ==
    ASSUME Running' = Running, batch'[Running] = batch[Running], seen'[Running] = seen[Running]
    PROVE  Events' = Events
BY DEF Events, NextRevision

LEMMA RunningIs ==
    ASSUME TypeOK, Turn, stage # "idle"
    PROVE  /\ Len(queue) \in Nat \ {0} /\ Running = queue[1] /\ Running \in Callers
           /\ batch[Running] \in Batches /\ batch[Running] \in Seq(Objects)
           /\ Len(batch[Running]) \in Nat \ {0}
<1>1. queue \in Seq(Callers) /\ queue # <<>>
  BY DEF TypeOK, Turn
<1>2. Len(queue) \in Nat \ {0} /\ Running = queue[1] /\ Running \in Callers
  BY <1>1 DEF Running
<1>3. batch[Running] # <<>> /\ batch[Running] \in Batches
  BY <1>2 DEF TypeOK, Turn
<1>4. batch[Running] \in Seq(Objects)
  BY <1>3, ObjectStoreAssumption
<1> QED
  BY <1>2, <1>3, <1>4, EmptySeq

LEMMA SettleKeeps ==
    ASSUME TypeOK, Turn, stage # "idle", Settle, up' = up
    PROVE  /\ Turn' /\ stage' \in {"files", "idle"} /\ written' = 0
           /\ queue' \in Seq(Callers) /\ batch' \in [Callers -> Batches \cup {<<>>}]
           /\ seen' \in [Callers -> [Objects -> Revisions]]
<1>1. /\ queue \in Seq(Callers) /\ queue # <<>> /\ Len(queue) \in Nat \ {0}
      /\ Running = queue[1] /\ Running \in Callers
  BY RunningIs DEF TypeOK, Turn
<1>2. /\ queue' \in Seq(Callers) /\ Len(queue') = Len(queue) - 1
      /\ \A i \in 1..Len(queue') : queue'[i] = queue[i + 1]
  BY <1>1 DEF Settle
<1>3. batch' \in [Callers -> Batches \cup {<<>>}] /\ \A c \in Callers \ {Running} : batch'[c] = batch[c]
  BY <1>1 DEF Settle, TypeOK
<1>4. seen' \in [Callers -> [Objects -> Revisions]]
  BY <1>1, ObjectStoreAssumption DEF Settle, TypeOK, Revisions
<1>5. \A i \in 1..Len(queue') : i + 1 \in 1..Len(queue) /\ i + 1 # 1
  BY <1>1, <1>2
<1>6. \A i \in 1..Len(queue') : queue'[i] # Running /\ queue'[i] \in Callers
  BY <1>1, <1>2, <1>5 DEF Turn
<1>7. \A i \in 1..Len(queue') : batch'[queue'[i]] # <<>>
  BY <1>2, <1>3, <1>5, <1>6 DEF Turn
<1>8. \A i, j \in 1..Len(queue') : queue'[i] = queue'[j] => i = j
  <2> SUFFICES ASSUME NEW i \in 1..Len(queue'), NEW j \in 1..Len(queue'), queue'[i] = queue'[j]
               PROVE  i = j
    OBVIOUS
  <2>1. i + 1 = j + 1
    BY <1>2, <1>5 DEF Turn
  <2> QED
    BY <1>2, <2>1
<1>9. stage' = (IF Len(queue) > 1 THEN "files" ELSE "idle") /\ written' = 0
  BY DEF Settle
<1>10. stage' = "idle" <=> queue' = <<>>
  BY <1>1, <1>2, <1>9
<1>11. ~ up' => queue' = <<>>
  BY <1>1 DEF Turn
<1>12. stage' = "files" => written' < Len(batch'[Running'])
  <2> SUFFICES ASSUME stage' = "files" PROVE 0 < Len(batch'[Running'])
    BY <1>9
  <2>1. 1 \in 1..Len(queue') /\ Running' = queue'[1]
    BY <1>1, <1>2, <1>9 DEF Running
  <2>2. batch'[Running'] \in Batches /\ batch'[Running'] # <<>>
    BY <1>3, <1>6, <1>7, <2>1
  <2>3. batch'[Running'] \in Seq(Objects)
    BY <2>2, ObjectStoreAssumption
  <2> QED
    BY <2>2, <2>3, EmptySeq
<1> QED
  BY <1>2, <1>3, <1>4, <1>7, <1>8, <1>9, <1>10, <1>11, <1>12 DEF Turn
-----------------------------------------------------------------------------
(* The log grows by some events.                                            *)

LEMMA LogGrows ==
    ASSUME log \in Seq(Event), index.sequence \in Nat, NEW es \in Seq(Event), log' = log \o es
    PROVE  /\ log' \in Seq(Event) /\ Len(log') = Len(log) + Len(es)
           /\ \A i \in 1..Len(log) : log'[i] = log[i]
           /\ \A i \in 1..Len(es) : log'[Len(log) + i] = es[i]
           /\ \A i \in 1..Len(log') : i \in 1..Len(log) \/ \E k \in 1..Len(es) : i = Len(log) + k
           /\ \A o \in Objects : Replay(log')[o] = LastEntry(es, o, Replay(log)[o])
           /\ OnDisk /\ index' = index => OnDisk'
<1>1. /\ log' \in Seq(Event) /\ Len(log') = Len(log) + Len(es)
      /\ \A i \in 1..Len(log) : log'[i] = log[i]
      /\ \A i \in 1..Len(es) : log'[Len(log) + i] = es[i]
  OBVIOUS
<1>2. Len(log) \in Nat /\ Len(es) \in Nat
  OBVIOUS
<1>3. ASSUME NEW i \in 1..Len(log'), i \notin 1..Len(log)
      PROVE  \E k \in 1..Len(es) : i = Len(log) + k
  <2>1. i - Len(log) \in 1..Len(es) /\ i = Len(log) + (i - Len(log))
    BY <1>1, <1>2, <1>3
  <2> QED
    BY <2>1
<1>4. \A o \in Objects : Replay(log')[o] = LastEntry(es, o, Replay(log)[o])
  BY Followed DEF Replay
<1>5. ASSUME OnDisk, index' = index
      PROVE  OnDisk'
  <2>1. index.sequence \in 0..Len(log) /\ index'.sequence <= Len(log')
    BY <1>1, <1>2, <1>5 DEF OnDisk
  <2>2. Unindexed \in Seq(Event) /\ Unindexed' = Unindexed \o es
    BY <1>5, <2>1, RestGrows DEF Unindexed
  <2>3. \A o \in Objects : Loaded'[o] = LastEntry(es, o, Loaded[o])
    BY <1>5, <2>2, Followed DEF Loaded
  <2>4. \A o \in Objects : Loaded'[o] = Replay(log')[o]
    BY <1>4, <1>5, <2>3 DEF OnDisk
  <2>5. Loaded' = Replay(log')
    BY <2>4 DEF Loaded, Replay
  <2> QED
    BY <2>1, <2>5 DEF OnDisk
<1> QED
  BY <1>1, <1>3, <1>4, <1>5

\* A commit that is accepted writes what an entry can be, one revision on.
LEMMA AcceptedEvents ==
    ASSUME StoreInv, up, stage = "append", Acceptable, Len(log) + Len(Events) <= MaxEvents
    PROVE  LET b == batch[Running] IN
           /\ b \in Seq(Objects) /\ Len(b) \in Nat \ {0}
           /\ Events \in Seq(Event) /\ Len(Events) = Len(b)
           /\ \A i \in 1..Len(b) :
                  /\ b[i] \in Objects /\ Events[i].object = b[i]
                  /\ Events[i].entry = [revision |-> entries[b[i]].revision + 1,
                                        value |-> Running, retired |-> FALSE]
                  /\ ~ entries[b[i]].retired /\ UnderActiveParent(b, i)
<1> DEFINE b == batch[Running]
<1>1. /\ Running \in Callers /\ b \in Seq(Objects) /\ Len(b) \in Nat \ {0} /\ DOMAIN b = 1..Len(b)
      /\ \A i \in 1..Len(b) : b[i] \in Objects
  BY RunningIs DEF StoreInv
<1>2. \A i \in 1..Len(b) :
          /\ ~ entries[b[i]].retired /\ UnderActiveParent(b, i)
          /\ NextRevision(Running, b[i]) = entries[b[i]].revision + 1
  BY <1>1 DEF Acceptable
<1>3. /\ Len(log) \in Nat /\ entries \in [Objects -> Entry]
      /\ \A o \in Objects : entries[o].revision <= Len(log)
  BY DEF StoreInv, TypeOK, Counted, Recoverable
<1> HIDE DEF b
<1>4. Events = [i \in 1..Len(b) |->
                   [object |-> b[i], entry |-> [revision |-> NextRevision(Running, b[i]),
                                                value |-> Running, retired |-> FALSE]]]
  BY <1>1 DEF Events, b
<1>5. Len(Events) = Len(b)
  BY <1>1, <1>4
<1>6. ASSUME NEW i \in 1..Len(b)
      PROVE  Events[i] \in Event
  <2>1. entries[b[i]].revision + 1 \in 0..MaxEvents
    BY <1>1, <1>3, <1>5, ObjectStoreAssumption DEF Entry, Revisions
  <2>2. Events[i] = [object |-> b[i], entry |-> [revision |-> entries[b[i]].revision + 1,
                                                 value |-> Running, retired |-> FALSE]]
    BY <1>2, <1>4
  <2> QED
    BY <1>1, <2>1, <2>2 DEF Event, Entry, Revisions
<1>7. Events \in Seq(Event)
  <2>1. Events \in [1..Len(b) -> Event]
    BY <1>4, <1>6
  <2> QED
    BY <1>1, <2>1
<1> QED
  BY <1>1, <1>2, <1>4, <1>5, <1>7 DEF b

\* What events that each follow what is there, or each other, do to the registry.
LEMMA AcceptedStep ==
    ASSUME StoreInv, AppendBatch, Acceptable
    PROVE  StoreInv'
<1> DEFINE b == batch[Running]
<1>1. /\ up /\ stage = "append" /\ Len(log) + Len(Events) <= MaxEvents
      /\ log' = log \o Events /\ stage' = "apply"
      /\ UNCHANGED <<queue, written, batch, seen, index, files, up, entries, sequence, cache, failures>>
  BY DEF AppendBatch
<1>2. /\ b \in Seq(Objects) /\ Len(b) \in Nat \ {0}
      /\ Events \in Seq(Event) /\ Len(Events) = Len(b)
      /\ \A i \in 1..Len(b) :
             /\ b[i] \in Objects /\ Events[i].object = b[i]
             /\ Events[i].entry = [revision |-> entries[b[i]].revision + 1,
                                   value |-> Running, retired |-> FALSE]
             /\ ~ entries[b[i]].retired /\ UnderActiveParent(b, i)
  BY <1>1, AcceptedEvents
<1> HIDE DEF b
<1>3. log \in Seq(Event) /\ index.sequence \in Nat /\ Len(log) \in Nat
  BY DEF StoreInv, TypeOK, Event
<1>4. entries = Replay(log) /\ sequence = Len(log)
  BY <1>1 DEF StoreInv, Recoverable
<1>5. /\ log' \in Seq(Event) /\ Len(log') = Len(log) + Len(b)
      /\ \A i \in 1..Len(log) : log'[i] = log[i]
      /\ \A i \in 1..Len(b) : log'[Len(log) + i] = Events[i]
      /\ \A i \in 1..Len(log') : i \in 1..Len(log) \/ \E k \in 1..Len(b) : i = Len(log) + k
      /\ \A o \in Objects : Replay(log')[o] = LastEntry(Events, o, entries[o])
      /\ OnDisk'
  <2>1. OnDisk /\ index' = index
    BY <1>1, Parts DEF StoreInv
  <2>2. log' = log \o Events /\ Events \in Seq(Event) /\ Len(Events) = Len(b)
    BY <1>1, <1>2
  <2>3. PICK es \in Seq(Event) : es = Events
    BY <2>2
  <2>4. /\ log' \in Seq(Event) /\ Len(log') = Len(log) + Len(es)
        /\ \A i \in 1..Len(log) : log'[i] = log[i]
        /\ \A i \in 1..Len(es) : log'[Len(log) + i] = es[i]
        /\ \A i \in 1..Len(log') : i \in 1..Len(log) \/ \E k \in 1..Len(es) : i = Len(log) + k
        /\ \A o \in Objects : Replay(log')[o] = LastEntry(es, o, Replay(log)[o])
        /\ OnDisk'
    BY <1>3, <2>1, <2>2, <2>3, LogGrows
  <2> QED
    BY <1>4, <2>2, <2>3, <2>4
\* each object of the batch is one revision on, and the others are as they were
<1>6. ASSUME NEW o \in Objects, \E i \in 1..Len(b) : b[i] = o
      PROVE  /\ Replay(log')[o] = [revision |-> entries[o].revision + 1,
                                   value |-> Running, retired |-> FALSE]
             /\ Replay(log')[o].revision = entries[o].revision + 1
             /\ ~ Replay(log')[o].retired
  <2>1. PICK k : LastAt(Events, o, k)
    BY <1>2, <1>6, SomeOrNone
  <2>2. LastEntry(Events, o, entries[o]) = Events[k].entry
    BY <1>2, <2>1, LastOfIts
  <2>3. k \in 1..Len(b) /\ b[k] = o
    BY <1>2, <2>1 DEF LastAt
  <2>4. Replay(log')[o] = [revision |-> entries[o].revision + 1,
                           value |-> Running, retired |-> FALSE]
    BY <1>2, <1>5, <2>2, <2>3
  <2> QED
    BY <2>4
<1>7. ASSUME NEW o \in Objects, \A i \in 1..Len(b) : b[i] # o
      PROVE  Replay(log')[o] = entries[o]
  <2>1. \A i \in 1..Len(Events) : Events[i].object # o
    BY <1>2, <1>7
  <2>2. LastEntry(Events, o, entries[o]) = entries[o]
    BY <1>2, <2>1, NoneOfIts
  <2> QED
    BY <1>5, <2>2
<1>8. entries \in [Objects -> Entry] /\ \A o \in Objects : entries[o].revision \in Nat
  BY ObjectStoreAssumption DEF StoreInv, TypeOK, Entry, Revisions
<1>9. \A o \in Objects : entries[o].revision <= Len(log)
  BY <1>4 DEF StoreInv, Counted
<1>10. TypeOK'
  <2>1. log' \in Seq([object : Objects, entry : Entry])
    BY <1>5 DEF Event
  <2> QED
    BY <1>1, <2>1 DEF StoreInv, TypeOK, Stages
<1>11. Turn'
  BY <1>1 DEF StoreInv, Turn, Running
<1>12. Counted'
  <2> SUFFICES ASSUME NEW o \in Objects PROVE Replay(log')[o].revision <= Len(log')
    BY <1>1, <1>2, <1>5 DEF Counted
  <2>1. CASE \A i \in 1..Len(b) : b[i] # o
    BY <1>2, <1>3, <1>5, <1>7, <1>8, <1>9, <2>1
  <2>2. CASE \E i \in 1..Len(b) : b[i] = o
    <3>1. Replay(log')[o].revision = entries[o].revision + 1
      BY <1>6, <2>2, Zenon
    <3> QED
      BY <1>2, <1>3, <1>5, <1>8, <1>9, <3>1
  <2> QED
    BY <2>1, <2>2
\* what the commit found active has an event in the log
<1>13. ASSUME NEW o \in Objects, Active(o)
       PROVE  \E j \in 1..Len(log) : log[j].object = o
  BY <1>3, <1>4, <1>13, ActiveHasEvent DEF Active
<1>14. Ordered'
  <2> SUFFICES ASSUME NEW i \in 1..Len(log'), log'[i].object # Root
               PROVE  \E j \in 1..(i - 1) : log'[j].object = Parent[log'[i].object]
    BY DEF Ordered
  <2>1. CASE i \in 1..Len(log)
    <3>1. PICK j \in 1..(i - 1) : log[j].object = Parent[log[i].object]
      BY <1>5, <2>1 DEF StoreInv, Ordered
    <3>2. j \in 1..Len(log)
      BY <1>3, <2>1
    <3> QED
      BY <1>5, <2>1, <3>1, <3>2
  <2>2. ASSUME NEW k \in 1..Len(b), i = Len(log) + k
        PROVE  \E j \in 1..(i - 1) : log'[j].object = Parent[log'[i].object]
    <3>1. log'[i].object = b[k] /\ b[k] # Root
      BY <1>2, <1>5, <2>2
    <3>2. CASE \E j \in 1..(k - 1) : b[j] = Parent[b[k]]
      <4>1. PICK j \in 1..(k - 1) : b[j] = Parent[b[k]]
        BY <3>2
      <4>2. j \in 1..Len(b) /\ Len(log) + j \in 1..(i - 1)
        BY <1>2, <1>3, <2>2
      <4>3. log'[Len(log) + j].object = Parent[b[k]]
        BY <1>2, <1>5, <4>1, <4>2
      <4> QED
        BY <3>1, <4>2, <4>3
    <3>3. CASE Parent[b[k]] \in Objects /\ Active(Parent[b[k]])
      <4>1. PICK j \in 1..Len(log) : log[j].object = Parent[b[k]]
        BY <1>13, <3>3
      <4>2. j \in 1..(i - 1)
        BY <1>2, <1>3, <2>2
      <4> QED
        BY <1>5, <3>1, <4>1, <4>2
    <3> QED
      BY <1>2, <3>1, <3>2, <3>3 DEF UnderActiveParent
  <2> QED
    BY <1>5, <2>1, <2>2
<1>15. NoOrphans'
  <2> DEFINE live(o) == Replay(log')[o].revision > 0 /\ ~ Replay(log')[o].retired
  <2>1. ASSUME NEW o \in Objects, Active(o) \/ \E j \in 1..Len(b) : b[j] = o
        PROVE  live(o)
    <3>1. CASE \E j \in 1..Len(b) : b[j] = o
      <4>1. Replay(log')[o].revision = entries[o].revision + 1 /\ ~ Replay(log')[o].retired
        BY <1>6, <3>1, Zenon
      <4> QED
        BY <1>8, <4>1
    <3>2. CASE \A j \in 1..Len(b) : b[j] # o
      BY <1>7, <2>1, <3>2 DEF Active
    <3> QED
      BY <3>1, <3>2
  <2>2. ASSUME NEW o \in DOMAIN Parent, live(o)
        PROVE  live(Root) /\ live(Parent[o])
    <3>1. o \in Objects /\ Root \in Objects /\ Parent[o] \in Objects /\ o # Root
      BY ObjectStoreAssumption DEF Objects
    <3>2. CASE \E i \in 1..Len(b) : b[i] = o
      <4>1. PICK i \in 1..Len(b) : b[i] = o
        BY <3>2
      <4>2. \A p \in {Root, Parent[o]} : Active(p) \/ \E j \in 1..(i - 1) : b[j] = p
        <5>1. UnderActiveParent(b, i) /\ b[i] # Root /\ Parent[b[i]] = Parent[o]
          BY <1>2, <3>1, <4>1
        <5>2. \A p \in {Root, Parent[o]} : p \in {q \in Objects : Active(q)} \cup {b[j] : j \in 1..(i - 1)}
          BY <5>1 DEF UnderActiveParent
        <5> QED
          BY <5>2
      <4>3. \A j \in 1..(i - 1) : j \in 1..Len(b)
        BY <1>2
      <4> QED
        BY <2>1, <3>1, <4>2, <4>3
    <3>3. CASE \A i \in 1..Len(b) : b[i] # o
      <4>1. Active(o)
        BY <1>7, <2>2, <3>1, <3>3 DEF Active
      <4>2. Active(Root) /\ Active(Parent[o])
        BY <1>4, <4>1 DEF StoreInv, NoOrphans, Active
      <4> QED
        BY <2>1, <3>1, <4>2
    <3> QED
      BY <3>2, <3>3
  <2> QED
    BY <2>2 DEF NoOrphans
<1>16. Ahead'
  <2>1. Events' = Events
    BY <1>1 DEF Events, NextRevision, Running
  <2> QED
    BY <1>1, <1>2, <1>3, <1>4, <2>1 DEF Ahead
<1>17. InMemory'
  BY <1>1 DEF InMemory
<1>18. Recoverable'
  <2>1. Recoverable' <=> OnDisk' /\ InMemory'
    BY DEF Recoverable, OnDisk, InMemory
  <2> QED
    BY <1>5, <1>17, <2>1
<1> QED
  BY <1>10, <1>11, <1>12, <1>14, <1>15, <1>16, <1>18 DEF StoreInv

\* Of the objects that are there, one hangs under nothing else: if it is not under the project,
\* the project alone is there.
LEMMA RootIsLast ==
    ASSUME log \in Seq(Event), Ordered, NoOrphans,
           NEW live, live = {o \in Objects : Replay(log)[o].revision > 0 /\ ~ Replay(log)[o].retired},
           \A o \in DOMAIN Parent : Parent[o] = Root => o \notin live
    PROVE  \A o \in DOMAIN Parent : o \notin live
<1> SUFFICES ASSUME NEW o \in DOMAIN Parent, o \in live PROVE FALSE
  OBVIOUS
<1> DEFINE S == {i \in 1..Len(log) : log[i].object \in live \ {Root}}
<1>1. o \in Objects /\ o # Root
  BY ObjectStoreAssumption DEF Objects
<1>2. PICK i \in 1..Len(log) : log[i].object = o
  BY <1>1, ActiveHasEvent
<1>3. S \subseteq Nat /\ i \in S
  BY <1>1, <1>2
<1>4. PICK first \in S : \A j \in S : first <= j
  BY <1>3, LeastOf
<1>5. PICK p : p = log[first].object /\ p \in live /\ p # Root /\ p \in DOMAIN Parent
  BY <1>4 DEF Objects
<1>6. Parent[p] \in live \ {Root}
  <2>1. Parent[p] \in Objects
    BY <1>5, ObjectStoreAssumption
  <2> QED
    BY <1>5, <2>1 DEF NoOrphans
<1>7. PICK j \in 1..(first - 1) : log[j].object = Parent[p]
  BY <1>4, <1>5 DEF Ordered
<1>8. first \in 1..Len(log) /\ Len(log) \in Nat
  BY <1>4
<1>9. j \in S /\ j < first
  BY <1>6, <1>7, <1>8
<1> QED
  BY <1>4, <1>8, <1>9

LEMMA TombstoneStep ==
    ASSUME StoreInv, NEW o \in Objects, NEW saved \in BOOLEAN, Tombstone(o, saved)
    PROVE  StoreInv'
<1> DEFINE e == [entries[o] EXCEPT !.revision = @ + 1, !.retired = TRUE]
           x == [object |-> o, entry |-> e]
<1>1. /\ up /\ stage \notin {"apply", "index"} /\ Active(o) /\ Len(log) < MaxEvents
      /\ \A p \in DOMAIN Parent : Parent[p] = o => ~ Active(p)
      /\ log' = Append(log, x) /\ entries' = [entries EXCEPT ![o] = e]
      /\ sequence' = sequence + 1
      /\ UNCHANGED <<files, up, cache, queue, stage, written, batch, seen>>
      /\ \/ index' = [sequence |-> sequence', entries |-> entries'] /\ UNCHANGED failures
         \/ index' = index /\ failures < MaxFailures /\ failures' = failures + 1
  BY DEF Tombstone
<1>2. log \in Seq(Event) /\ index.sequence \in Nat /\ Len(log) \in Nat
  BY DEF StoreInv, TypeOK, Event
<1>3. entries = Replay(log) /\ sequence = Len(log)
  BY <1>1 DEF StoreInv, Recoverable
<1>4. entries \in [Objects -> Entry] /\ \A p \in Objects : entries[p].revision \in Nat
  BY ObjectStoreAssumption DEF StoreInv, TypeOK, Entry, Revisions
<1>5. \A p \in Objects : entries[p].revision <= Len(log)
  BY <1>3 DEF StoreInv, Counted
<1>6. /\ e.revision = entries[o].revision + 1 /\ e.retired /\ e \in Entry
  <2>1. entries[o] \in Entry /\ entries[o].revision + 1 \in 0..MaxEvents
    BY <1>1, <1>2, <1>4, <1>5, ObjectStoreAssumption
  <2> QED
    BY <2>1 DEF Entry, Revisions
<1>7. x \in Event /\ x.object = o /\ x.entry = e
  BY <1>6 DEF Event
<1> HIDE DEF e, x
<1>8. /\ <<x>> \in Seq(Event) /\ Len(<<x>>) = 1 /\ log' = log \o <<x>>
      /\ log' \in Seq(Event) /\ Len(log') = Len(log) + 1
      /\ log'[Len(log) + 1] = x /\ \A i \in 1..Len(log) : log'[i] = log[i]
  BY <1>1, <1>2, <1>7
<1>9. \A p \in Objects : Replay(log')[p] = IF p = o THEN e ELSE entries[p]
  <2> SUFFICES ASSUME NEW p \in Objects PROVE Replay(log')[p] = IF p = o THEN e ELSE entries[p]
    OBVIOUS
  <2>1. LastEntry(log', p, Absent) = IF x.object = p THEN x.entry ELSE LastEntry(log, p, Absent)
    BY <1>1, <1>2, <1>7, OneMore
  <2> QED
    BY <1>3, <1>7, <2>1 DEF Replay
<1>10. entries' = Replay(log') /\ sequence' = Len(log')
  <2>1. entries' \in [Objects -> Entry] /\ \A p \in Objects : entries'[p] = Replay(log')[p]
    BY <1>1, <1>4, <1>6, <1>9
  <2>2. entries' = Replay(log')
    BY <2>1 DEF Replay
  <2> QED
    BY <1>1, <1>3, <1>8, <2>2
<1>11. OnDisk'
  <2>1. CASE index' = index
    BY <1>2, <1>8, <2>1, LogGrows, Parts DEF StoreInv
  <2>2. CASE index' = [sequence |-> sequence', entries |-> entries']
    <3>1. index'.sequence = Len(log') /\ index'.entries = Replay(log')
      BY <1>10, <2>2
    <3>2. Unindexed' = <<>>
      BY <1>2, <1>8, <3>1, SubSeqEmpty DEF Unindexed
    <3>3. Loaded' = Replay(log')
      BY <3>1, <3>2, NothingLeft DEF Loaded, Replay
    <3> QED
      BY <1>8, <3>1, <3>3 DEF OnDisk
  <2> QED
    BY <1>1, <2>1, <2>2
<1>12. TypeOK'
  <2>1. log' \in Seq([object : Objects, entry : Entry])
    BY <1>8 DEF Event
  <2>2. entries' \in [Objects -> Entry] /\ sequence' \in 0..MaxEvents
    BY <1>1, <1>2, <1>3, <1>4, <1>6, ObjectStoreAssumption
  <2>3. index' \in [sequence : 0..MaxEvents, entries : [Objects -> Entry]]
    <3>1. index \in [sequence : 0..MaxEvents, entries : [Objects -> Entry]]
      BY DEF StoreInv, TypeOK
    <3> QED
      BY <1>1, <2>2, <3>1
  <2>4. failures' \in 0..MaxFailures
    BY <1>1, ObjectStoreAssumption DEF StoreInv, TypeOK
  <2> QED
    BY <1>1, <2>1, <2>2, <2>3, <2>4 DEF StoreInv, TypeOK
<1>13. Turn'
  BY <1>1 DEF StoreInv, Turn, Running
<1>14. Counted'
  <2> SUFFICES ASSUME NEW p \in Objects PROVE Replay(log')[p].revision <= Len(log')
    BY <1>1, <1>2, <1>8, ObjectStoreAssumption DEF Counted
  <2>1. entries[p].revision + 1 <= Len(log')
    BY <1>2, <1>4, <1>5, <1>8
  <2>2. Replay(log')[p].revision \in {entries[p].revision, entries[p].revision + 1}
    BY <1>6, <1>9
  <2> QED
    BY <1>2, <1>4, <1>8, <2>1, <2>2
<1>15. Ordered'
  <2> SUFFICES ASSUME NEW i \in 1..Len(log'), log'[i].object # Root
               PROVE  \E j \in 1..(i - 1) : log'[j].object = Parent[log'[i].object]
    BY DEF Ordered
  <2>1. PICK k \in 1..Len(log) : k <= i /\ log[k].object = log'[i].object
    <3>1. CASE i \in 1..Len(log)
      BY <1>8, <3>1
    <3>2. CASE i = Len(log) + 1
      <4>1. PICK k \in 1..Len(log) : log[k].object = o
        BY <1>1, <1>2, <1>3, ActiveHasEvent DEF Active
      <4> QED
        BY <1>2, <1>7, <1>8, <3>2, <4>1
    <3> QED
      BY <1>2, <1>8, <3>1, <3>2
  <2>2. PICK j \in 1..(k - 1) : log[j].object = Parent[log[k].object]
    BY <2>1 DEF StoreInv, Ordered
  <2>3. j \in 1..Len(log) /\ j \in 1..(i - 1)
    BY <1>2, <1>8, <2>1
  <2> QED
    BY <1>8, <2>1, <2>2, <2>3
<1>16. NoOrphans'
  <2> DEFINE live == {p \in Objects : Replay(log)[p].revision > 0 /\ ~ Replay(log)[p].retired}
             live2 == {p \in Objects : Replay(log')[p].revision > 0 /\ ~ Replay(log')[p].retired}
  <2>1. live2 = live \ {o} /\ o \in live
    BY <1>1, <1>3, <1>6, <1>9 DEF Active
  <2>2. \A p \in DOMAIN Parent : p \in Objects /\ Parent[p] \in Objects
    BY ObjectStoreAssumption DEF Objects
  <2>3. \A p \in DOMAIN Parent : p \in live => Root \in live /\ Parent[p] \in live
    BY <2>2 DEF StoreInv, NoOrphans, Objects
  <2>4. \A p \in DOMAIN Parent : Parent[p] = o => p \notin live
    BY <1>1, <1>3, <2>2 DEF Active
  <2>5. o = Root => \A p \in DOMAIN Parent : p \notin live
    <3> HIDE DEF live2
    <3>1. ASSUME o = Root PROVE \A p \in DOMAIN Parent : p \notin live
      BY <1>2, <2>4, <3>1, RootIsLast DEF StoreInv
    <3> QED
      BY <3>1
  <2>6. \A p \in DOMAIN Parent : p \in live2 => Root \in live2 /\ Parent[p] \in live2
    <3> HIDE DEF live, live2
    <3> QED
      BY <2>1, <2>3, <2>4, <2>5
  <2> QED
    BY <2>2, <2>6 DEF NoOrphans
<1>17. Ahead'
  BY <1>1 DEF Ahead
<1>18. Recoverable'
  BY <1>10, <1>11 DEF OnDisk, Recoverable
<1> QED
  BY <1>12, <1>13, <1>14, <1>15, <1>16, <1>17, <1>18 DEF StoreInv

\* The steps that leave the log and the index alone.
LEMMA OtherSteps ==
    ASSUME StoreInv,
           \/ \E c \in Callers : Read(c) \/ Commit(c)
           \/ WriteObject \/ ApplyBatch \/ IoFailure \/ Crash \/ Boot
           \/ AppendBatch /\ ~ Acceptable
           \/ UNCHANGED vars
    PROVE  StoreInv'
<1>1. UNCHANGED <<log, index>>
  BY DEF Read, Commit, WriteObject, ApplyBatch, IoFailure, Crash, Boot, AppendBatch, vars, disk
<1>2. Counted' /\ Ordered' /\ NoOrphans' /\ OnDisk'
  BY <1>1, Parts, SameDisk DEF StoreInv
<1>3. SUFFICES TypeOK' /\ Turn' /\ Ahead' /\ InMemory'
  <2>1. Recoverable' <=> OnDisk' /\ InMemory'
    BY DEF Recoverable, OnDisk, InMemory
  <2> QED
    BY <1>2, <2>1 DEF StoreInv
<1>4. log \in Seq(Event) /\ Len(log) \in 0..MaxEvents
  <2>1. log \in Seq(Event)
    BY DEF StoreInv, TypeOK, Event
  <2> QED
    BY <2>1, ObjectStoreAssumption DEF StoreInv, Counted
<1>5. ASSUME NEW c \in Callers, Read(c)
      PROVE  TypeOK' /\ Turn' /\ Ahead' /\ InMemory'
  <2>1. /\ batch[c] = <<>>
        /\ UNCHANGED <<disk, up, entries, sequence, cache, queue, stage, written, failures>>
    BY <1>5 DEF Read
  <2>2. PICK b \in Batches :
            /\ batch' = [batch EXCEPT ![c] = b]
            /\ seen' = [seen EXCEPT ![c] = [o \in Objects |->
                          IF o \in Range(b) THEN entries[o].revision ELSE 0]]
    BY <1>5 DEF Read
  <2>3. batch' \in [Callers -> Batches \cup {<<>>}] /\ b # <<>>
    BY <2>2, ObjectStoreAssumption DEF StoreInv, TypeOK
  <2>4. seen' \in [Callers -> [Objects -> Revisions]]
    <3>1. [o \in Objects |-> IF o \in Range(b) THEN entries[o].revision ELSE 0] \in [Objects -> Revisions]
      BY ObjectStoreAssumption DEF StoreInv, TypeOK, Entry, Revisions
    <3> QED
      BY <2>2, <3>1 DEF StoreInv, TypeOK
  <2>5. \A i \in 1..Len(queue) : queue[i] # c /\ queue[i] \in Callers /\ batch'[queue[i]] = batch[queue[i]]
    BY <2>1, <2>2 DEF StoreInv, Turn, TypeOK
  <2>6. stage # "idle" => /\ Running' = Running /\ Running # c /\ batch'[Running] = batch[Running]
                          /\ seen'[Running] = seen[Running]
    BY <2>1, <2>2, <2>5, RunningIs DEF StoreInv, Running, TypeOK
  <2>7. Turn'
    BY <2>1, <2>5, <2>6 DEF StoreInv, Turn
  <2>8. Ahead'
    BY <1>1, <2>1, <2>6, SameEvents DEF StoreInv, Ahead
  <2> QED
    BY <1>1, <2>1, <2>3, <2>4, <2>7, <2>8, Parts DEF StoreInv, TypeOK, InMemory, disk
<1>6. ASSUME NEW c \in Callers, Commit(c)
      PROVE  TypeOK' /\ Turn' /\ Ahead' /\ InMemory'
  <2>1. /\ up /\ batch[c] # <<>> /\ c \notin Range(queue)
        /\ queue' = Append(queue, c) /\ stage' = (IF queue = <<>> THEN "files" ELSE stage)
        /\ UNCHANGED <<disk, up, entries, sequence, cache, written, batch, seen, failures>>
    BY <1>6 DEF Commit
  <2>2. /\ queue \in Seq(Callers) /\ queue' \in Seq(Callers) /\ Len(queue) \in Nat
        /\ Len(queue') = Len(queue) + 1 /\ queue'[Len(queue) + 1] = c
        /\ \A i \in 1..Len(queue) : queue'[i] = queue[i] /\ queue[i] # c
    <3>1. queue \in Seq(Callers) /\ Range(queue) = {queue[i] : i \in 1..Len(queue)}
      BY DEF StoreInv, TypeOK, Range
    <3> QED
      BY <2>1, <3>1
  <2>3. queue # <<>> => Running' = Running
    BY <2>2 DEF Running
  <2>4. Turn'
    <3>1. \A i, j \in 1..Len(queue') : queue'[i] = queue'[j] => i = j
      BY <2>2 DEF StoreInv, Turn
    <3>2. \A i \in 1..Len(queue') : batch'[queue'[i]] # <<>>
      BY <2>1, <2>2 DEF StoreInv, Turn
    <3>3. stage' # "idle" /\ queue' # <<>>
      BY <2>1, <2>2 DEF StoreInv, Turn
    <3>4. stage' = "files" => written' < Len(batch'[Running'])
      <4>1. CASE queue = <<>>
        <5>1. Running' = c /\ batch[c] \in Seq(Objects)
          BY <2>1, <2>2, <4>1, ObjectStoreAssumption DEF StoreInv, TypeOK, Running
        <5>2. written = 0
          BY <4>1 DEF StoreInv, Turn
        <5> QED
          BY <2>1, <5>1, <5>2, EmptySeq
      <4>2. CASE queue # <<>>
        BY <2>1, <2>3, <4>2 DEF StoreInv, Turn
      <4> QED
        BY <4>1, <4>2
    <3> QED
      BY <2>1, <3>1, <3>2, <3>3, <3>4 DEF StoreInv, Turn
  <2>5. Ahead'
    <3>1. stage' = "apply" => stage = "apply" /\ Running' = Running
      BY <2>1, <2>3
    <3> QED
      BY <1>1, <2>1, <3>1, SameEvents DEF StoreInv, Ahead
  <2>6. TypeOK'
    BY <1>1, <2>1, <2>2 DEF StoreInv, TypeOK, disk, Stages
  <2>7. InMemory'
    <3>1. stage' # "apply" => stage # "apply"
      BY <2>1 DEF StoreInv, Turn
    <3> QED
      BY <1>1, <2>1, <3>1, Parts DEF StoreInv, InMemory, Replay, LastEntry
  <2> QED
    BY <2>4, <2>5, <2>6, <2>7
<1>7. ASSUME WriteObject
      PROVE  TypeOK' /\ Turn' /\ Ahead' /\ InMemory'
  <2> DEFINE o == batch[Running][written + 1]
             r == NextRevision(Running, o)
  <2>1. /\ up /\ stage = "files" /\ written' = written + 1
        /\ files' = [files EXCEPT ![o][r] = Running] /\ cache' = [cache EXCEPT ![o][r] = Running]
        /\ stage' = (IF written' = Len(batch[Running]) THEN "append" ELSE "files")
        /\ UNCHANGED <<log, index, up, entries, sequence, queue, batch, seen, failures>>
    BY <1>7 DEF WriteObject
  <2>2. Running \in Callers /\ batch[Running] \in Seq(Objects) /\ written \in Nat /\ written < Len(batch[Running])
    BY <2>1, RunningIs DEF StoreInv, Turn, TypeOK
  <2>3. o \in Objects /\ Len(batch[Running]) \in Nat
    BY <2>2
  <2> HIDE DEF o, r
  <2>4. files' \in [Objects -> [1..MaxEvents -> Callers \cup {{}}]]
    BY <2>1, <2>2, <2>3 DEF StoreInv, TypeOK
  <2>5. cache' \in [Objects -> [1..MaxEvents -> Callers \cup {{}}]]
    BY <2>1, <2>2, <2>3 DEF StoreInv, TypeOK
  <2>6. TypeOK'
    BY <2>1, <2>2, <2>4, <2>5 DEF StoreInv, TypeOK, Stages
  <2>7. Running' = Running
    BY <2>1 DEF Running
  <2>8. Turn'
    BY <2>1, <2>2, <2>3, <2>7 DEF StoreInv, Turn
  <2> QED
    BY <1>1, <2>1, <2>6, <2>8, Parts DEF StoreInv, Ahead, InMemory, Replay, LastEntry
<1>8. ASSUME ApplyBatch
      PROVE  TypeOK' /\ Turn' /\ Ahead' /\ InMemory'
  <2>1. /\ up /\ stage = "apply" /\ stage' = "index"
        /\ entries' = [o \in Objects |-> LastEntry(Events, o, entries[o])]
        /\ sequence' = sequence + Len(Events)
        /\ UNCHANGED <<disk, up, cache, queue, written, batch, seen, failures>>
    BY <1>8 DEF ApplyBatch
  <2>2. PICK before \in Seq(Event) :
            /\ Events \in Seq(Event) /\ log = before \o Events
            /\ entries = Replay(before) /\ sequence = Len(before)
    BY <2>1 DEF StoreInv, Ahead
  <2>3. \A o \in Objects : Replay(log)[o] = LastEntry(Events, o, entries[o])
    BY <2>2, Followed DEF Replay
  <2>4. entries' = Replay(log) /\ sequence' = Len(log)
    <3>1. Len(log) = Len(before) + Len(Events)
      BY <2>2
    <3>2. entries' = Replay(log)
      BY <2>1, <2>3 DEF Replay
    <3> QED
      BY <2>1, <2>2, <3>1, <3>2
  <2>5. entries' \in [Objects -> Entry] /\ sequence' \in 0..MaxEvents
    BY <1>4, <2>4, ReplayTypes
  <2>6. TypeOK'
    BY <1>1, <2>1, <2>5 DEF StoreInv, TypeOK, disk, Stages
  <2>7. Turn'
    BY <2>1 DEF StoreInv, Turn, Running
  <2> QED
    <3>1. Replay(log)' = Replay(log) /\ log' = log
      BY <1>1 DEF Replay, LastEntry
    <3> HIDE DEF InMemory
    <3>2. Ahead'
      BY <2>1 DEF Ahead
    <3>3. InMemory'
      BY <2>4, <3>1 DEF InMemory
    <3> QED
      BY <2>6, <2>7, <3>2, <3>3
<1>9. ASSUME IoFailure \/ (AppendBatch /\ ~ Acceptable)
      PROVE  TypeOK' /\ Turn' /\ Ahead' /\ InMemory'
  <2>1. /\ up /\ stage \in {"files", "append", "index"} /\ Settle
        /\ failures' = failures \/ (failures < MaxFailures /\ failures' = failures + 1)
        /\ UNCHANGED <<log, index, files, up, entries, sequence, cache>>
    BY <1>9 DEF IoFailure, AppendBatch, disk
  <2>2. /\ Turn' /\ stage' \in {"files", "idle"} /\ written' = 0
        /\ queue' \in Seq(Callers) /\ batch' \in [Callers -> Batches \cup {<<>>}]
        /\ seen' \in [Callers -> [Objects -> Revisions]]
    BY <2>1, SettleKeeps DEF StoreInv
  <2>3. failures' \in 0..MaxFailures
    BY <2>1, ObjectStoreAssumption DEF StoreInv, TypeOK
  <2>4. TypeOK'
    BY <2>1, <2>2, <2>3 DEF StoreInv, TypeOK, Stages
  <2>5. Ahead'
    BY <2>2 DEF Ahead
  <2>6. InMemory
    BY Parts DEF StoreInv
  <2>7. Replay(log)' = Replay(log)
    BY <2>1 DEF Replay, LastEntry
  <2>8. InMemory'
    BY <2>1, <2>6, <2>7 DEF InMemory
  <2> QED
    BY <2>2, <2>4, <2>5, <2>8
<1>10. ASSUME Crash
       PROVE  TypeOK' /\ Turn' /\ Ahead' /\ InMemory'
  <2>1. /\ failures < MaxFailures /\ failures' = failures + 1
        /\ up' = FALSE /\ entries' = Replay(<<>>) /\ sequence' = 0 /\ cache' = NoFiles
        /\ queue' = <<>> /\ stage' = "idle" /\ written' = 0
        /\ batch' = [c \in Callers |-> <<>>] /\ seen' = [c \in Callers |-> [o \in Objects |-> 0]]
        /\ UNCHANGED disk
    BY <1>10 DEF Crash
  <2>2. NoFiles \in [Objects -> [1..MaxEvents -> Callers \cup {{}}]]
    BY DEF NoFiles
  <2>3. entries' \in [Objects -> Entry]
    <3>1. <<>> \in Seq(Event)
      OBVIOUS
    <3>2. Replay(<<>>) \in [Objects -> Entry]
      BY <3>1, ReplayTypes
    <3> QED
      BY <2>1, <3>2
  <2>4. seen' \in [Callers -> [Objects -> Revisions]] /\ failures' \in 0..MaxFailures
    BY <2>1, ObjectStoreAssumption DEF StoreInv, TypeOK, Revisions
  <2>5. TypeOK'
    <3>1. queue' \in Seq(Callers) /\ stage' \in Stages /\ written' \in Nat
      BY <2>1 DEF Stages
    <3>2. batch' \in [Callers -> Batches \cup {<<>>}]
      BY <2>1
    <3>3. sequence' \in 0..MaxEvents
      BY <2>1, ObjectStoreAssumption
    <3>6. up' \in BOOLEAN
      BY <2>1
    <3>4. cache' \in [Objects -> [1..MaxEvents -> Callers \cup {{}}]]
      BY <2>1, <2>2
    <3>5. UNCHANGED <<log, index, files>>
      BY <2>1 DEF disk
    <3> QED
      BY <2>3, <2>4, <3>1, <3>2, <3>3, <3>4, <3>5, <3>6 DEF StoreInv, TypeOK
  <2>6. Turn'
    <3>1. Len(queue') = 0
      BY <2>1
    <3> QED
      BY <2>1, <3>1 DEF Turn
  <2> QED
    BY <2>1, <2>5, <2>6 DEF Ahead, InMemory
<1>11. ASSUME Boot
       PROVE  TypeOK' /\ Turn' /\ Ahead' /\ InMemory'
  <2>1. /\ ~ up /\ up' = TRUE /\ entries' = Loaded /\ sequence' = Len(log)
        /\ UNCHANGED <<disk, cache, queue, stage, written, batch, seen, failures>>
    BY <1>11 DEF Boot
  <2>2. entries' = Replay(log) /\ entries' \in [Objects -> Entry] /\ sequence' \in 0..MaxEvents
    BY <1>4, <2>1, ReplayTypes DEF StoreInv, Recoverable
  <2>3. TypeOK'
    BY <1>1, <2>1, <2>2 DEF StoreInv, TypeOK, disk
  <2>4. Turn' /\ stage' = "idle"
    BY <2>1 DEF StoreInv, Turn, Running
  <2> QED
    BY <1>1, <2>1, <2>2, <2>3, <2>4 DEF Ahead, InMemory, Replay, LastEntry
<1>12. ASSUME UNCHANGED vars
       PROVE  TypeOK' /\ Turn' /\ Ahead' /\ InMemory'
  <2>1. UNCHANGED <<log, index, files, up, entries, sequence, cache, queue, stage, written,
                    batch, seen, failures>>
    BY <1>12 DEF vars, disk, memory
  <2>2. TypeOK'
    BY <2>1 DEF StoreInv, TypeOK
  <2>3. Running' = Running
    BY <2>1 DEF Running
  <2>4. Turn'
    BY <2>1, <2>3 DEF StoreInv, Turn
  <2>5. Ahead'
    BY <2>1, <2>3, SameEvents DEF StoreInv, Ahead
  <2> QED
    BY <2>1, <2>2, <2>4, <2>5, Parts DEF StoreInv, InMemory, Replay, LastEntry
<1>13. CASE \E c \in Callers : Read(c) \/ Commit(c)
  BY <1>5, <1>6, <1>13
<1>14. CASE WriteObject \/ ApplyBatch \/ Crash \/ Boot
  BY <1>7, <1>8, <1>10, <1>11, <1>14
<1>15. CASE IoFailure \/ (AppendBatch /\ ~ Acceptable)
  BY <1>9, <1>15
<1> HIDE DEF vars
<1>16. CASE UNCHANGED vars
  BY <1>12, <1>16
<1> QED
  BY <1>13, <1>14, <1>15, <1>16

LEMMA WriteIndexStep ==
    ASSUME StoreInv, WriteIndex
    PROVE  StoreInv'
<1>1. /\ up /\ stage = "index" /\ Settle
      /\ index' = [sequence |-> sequence, entries |-> entries]
      /\ UNCHANGED <<log, files, up, entries, sequence, cache, failures>>
  BY DEF WriteIndex
<1>2. log \in Seq(Event) /\ Len(log) \in Nat
  BY DEF StoreInv, TypeOK, Event
<1>3. entries = Replay(log) /\ sequence = Len(log)
  BY <1>1 DEF StoreInv, Recoverable
<1>4. Replay(log)' = Replay(log)
  BY <1>1 DEF Replay, LastEntry
<1>5. /\ Turn' /\ stage' \in {"files", "idle"} /\ written' = 0
      /\ queue' \in Seq(Callers) /\ batch' \in [Callers -> Batches \cup {<<>>}]
      /\ seen' \in [Callers -> [Objects -> Revisions]]
  BY <1>1, SettleKeeps DEF StoreInv
<1>6. TypeOK'
  <2>1. index' \in [sequence : 0..MaxEvents, entries : [Objects -> Entry]]
    BY <1>1 DEF StoreInv, TypeOK
  <2> QED
    BY <1>1, <1>5, <2>1 DEF StoreInv, TypeOK, Stages
<1>7. Counted' /\ Ordered' /\ NoOrphans'
  BY <1>1, <1>4 DEF StoreInv, Counted, Ordered, NoOrphans
<1>8. Ahead'
  BY <1>5 DEF Ahead
<1>9. OnDisk'
  <2>1. index'.sequence = Len(log') /\ index'.entries = Replay(log')
    BY <1>1, <1>3, <1>4
  <2>2. Unindexed' = <<>>
    BY <1>1, <1>2, <2>1, SubSeqEmpty DEF Unindexed
  <2>3. Loaded' = Replay(log')
    BY <2>1, <2>2, NothingLeft DEF Loaded, Replay
  <2> QED
    BY <1>1, <1>2, <2>1, <2>3 DEF OnDisk
<1>10. InMemory'
  <2>1. entries' = Replay(log') /\ sequence' = Len(log')
    BY <1>1, <1>3, <1>4
  <2> QED
    BY <2>1 DEF InMemory
<1>11. Recoverable'
  <2>1. Recoverable' <=> OnDisk' /\ InMemory'
    BY DEF Recoverable, OnDisk, InMemory
  <2> QED
    BY <1>9, <1>10, <2>1
<1> QED
  BY <1>5, <1>6, <1>7, <1>8, <1>11 DEF StoreInv

LEMMA StepInv == StoreInv /\ [Next]_vars => StoreInv'
<1> SUFFICES ASSUME StoreInv, [Next]_vars PROVE StoreInv'
  OBVIOUS
<1>1. CASE AppendBatch /\ Acceptable
  BY <1>1, AcceptedStep
<1>2. CASE WriteIndex
  BY <1>2, WriteIndexStep
<1>3. CASE \E o \in Objects, saved \in BOOLEAN : Tombstone(o, saved)
  BY <1>3, TombstoneStep
<1>4. CASE \/ \E c \in Callers : Read(c) \/ Commit(c)
           \/ WriteObject \/ ApplyBatch \/ IoFailure \/ Crash \/ Boot
           \/ AppendBatch /\ ~ Acceptable
           \/ UNCHANGED vars
  BY <1>4, OtherSteps
<1> QED
  BY <1>1, <1>2, <1>3, <1>4 DEF Next

LEMMA Kept == Spec => []StoreInv
BY InitInv, StepInv, PTL DEF Spec

\* Every variable keeps its type.
THEOREM StoreTypes == Spec => []TypeOK
BY Kept, PTL DEF StoreInv

\* Whatever moment the process dies at, and whatever call fails, load() finds in the index and the
\* events after it what all the events say, and a running process has the same in memory.
THEOREM RegistryRecovers == Spec => []Recoverable
BY Kept, PTL DEF StoreInv

\* verifyIntegrity never finds an object that is there and whose project or parent is not:
\* batches, retirements, failures and restarts come in any order.
THEOREM NothingIsOrphaned == Spec => []NoOrphans
BY Kept, PTL DEF StoreInv

-----------------------------------------------------------------------------
(* The log is the store the callers were promised.                          *)

LEMMA InitStore == Init => Store!Init
BY NothingLeft DEF Init, Store!Init, Absent, Store!Absent, Replay

\* Of the steps of the store only these two change it.
LEMMA StoreChanges ==
    ASSUME StoreInv, [Next]_vars
    PROVE  \/ AppendBatch /\ Acceptable
           \/ \E o \in Objects, saved \in BOOLEAN : Tombstone(o, saved)
           \/ log' = log
BY DEF Next, Read, Commit, WriteObject, AppendBatch, ApplyBatch, WriteIndex, IoFailure, Crash, Boot,
       vars, disk

LEMMA AppendCommits ==
    ASSUME StoreInv, AppendBatch, Acceptable
    PROVE  Store!Commit(Range(batch[Running]), Running)
<1> DEFINE b == batch[Running]
<1>1. /\ log' = log \o Events /\ entries = Replay(log) /\ log \in Seq(Event)
      /\ up /\ stage = "append" /\ Len(log) + Len(Events) <= MaxEvents /\ index.sequence \in Nat
  BY DEF StoreInv, TypeOK, Event, Recoverable, AppendBatch
<1>2. /\ b \in Seq(Objects) /\ Len(b) \in Nat \ {0}
      /\ Events \in Seq(Event) /\ Len(Events) = Len(b)
      /\ \A i \in 1..Len(b) :
             /\ b[i] \in Objects /\ Events[i].object = b[i]
             /\ Events[i].entry = [revision |-> entries[b[i]].revision + 1,
                                   value |-> Running, retired |-> FALSE]
             /\ ~ entries[b[i]].retired /\ UnderActiveParent(b, i)
  BY <1>1, AcceptedEvents
<1>3. Range(b) = {b[i] : i \in 1..Len(b)}
  BY <1>2 DEF Range
<1> HIDE DEF b
<1>4. ASSUME NEW o \in Objects
      PROVE  Replay(log')[o] = IF o \in Range(b)
                               THEN [revision |-> Replay(log)[o].revision + 1,
                                     value |-> Running, retired |-> FALSE]
                               ELSE Replay(log)[o]
  <2>1. Replay(log')[o] = LastEntry(Events, o, entries[o])
    BY <1>1, <1>2, LogGrows
  <2>2. CASE \E k : LastAt(Events, o, k)
    <3>1. PICK k : LastAt(Events, o, k)
      BY <2>2
    <3>2. k \in 1..Len(b) /\ b[k] = o
      BY <1>2, <3>1 DEF LastAt
    <3>3. LastEntry(Events, o, entries[o]) = Events[k].entry
      BY <1>2, <3>1, LastOfIts
    <3> QED
      BY <1>1, <1>2, <1>3, <2>1, <3>2, <3>3
  <2>3. CASE \A i \in 1..Len(Events) : Events[i].object # o
    <3>1. LastEntry(Events, o, entries[o]) = entries[o]
      BY <1>2, <2>3, NoneOfIts
    <3>2. \A i \in 1..Len(b) : b[i] # o
      BY <1>2, <2>3
    <3> QED
      BY <1>1, <1>3, <2>1, <3>1, <3>2
  <2> QED
    BY <1>2, <2>2, <2>3, SomeOrNone
<1>5. Replay(log)' = [o \in Objects |-> IF o \in Range(b)
                                        THEN [revision |-> Replay(log)[o].revision + 1,
                                              value |-> Running, retired |-> FALSE]
                                        ELSE Replay(log)[o]]
  BY <1>4 DEF Replay
<1>6. ASSUME NEW o \in Range(b)
      PROVE  /\ ~ Replay(log)[o].retired
             /\ (Replay(log)[Root].revision > 0 /\ ~ Replay(log)[Root].retired) \/ Root \in Range(b)
  <2>1. PICK i \in 1..Len(b) : b[i] = o
    BY <1>3
  <2>2. CASE o = Root
    BY <1>1, <1>2, <2>1, <2>2
  <2>3. CASE o # Root
    <3>1. Root \in {p \in Objects : Active(p)} \cup {b[j] : j \in 1..(i - 1)}
      BY <1>2, <2>1, <2>3 DEF UnderActiveParent
    <3>2. \A j \in 1..(i - 1) : j \in 1..Len(b)
      BY <1>2
    <3>3. Active(Root) \/ Root \in Range(b)
      BY <1>3, <3>1, <3>2
    <3> QED
      BY <1>1, <1>2, <2>1, <3>3 DEF Active
  <2> QED
    BY <2>2, <2>3
<1> QED
  BY <1>5, <1>6 DEF Store!Commit, Store!Active, b

LEMMA TombstoneRetires ==
    ASSUME StoreInv, NEW o \in Objects, NEW saved \in BOOLEAN, Tombstone(o, saved)
    PROVE  Store!Retire(o)
<1> DEFINE e == [entries[o] EXCEPT !.revision = @ + 1, !.retired = TRUE]
           x == [object |-> o, entry |-> e]
<1>1. /\ up /\ stage \notin {"apply", "index"} /\ Active(o) /\ Len(log) < MaxEvents
      /\ log' = Append(log, x)
  BY DEF Tombstone
<1>2. log \in Seq(Event) /\ entries \in [Objects -> Entry]
  BY DEF StoreInv, TypeOK, Event
<1>3. entries = Replay(log)
  BY <1>1 DEF StoreInv, Recoverable
<1>4. x \in Event
  <2>1. /\ Len(log) \in Nat /\ entries[o].revision \in Nat /\ entries[o].revision <= Len(log)
        /\ entries[o] \in Entry
    BY <1>2, <1>3, ObjectStoreAssumption DEF StoreInv, Counted, Entry, Revisions
  <2>2. entries[o].revision + 1 \in Revisions
    BY <1>1, <2>1, ObjectStoreAssumption DEF Revisions
  <2> QED
    BY <2>1, <2>2 DEF Event, Entry
<1>5. x.object = o /\ x.entry = e
  OBVIOUS
<1> HIDE DEF x
<1>6. ASSUME NEW p \in Objects PROVE Replay(log')[p] = IF p = o THEN e ELSE entries[p]
  <2>1. LastEntry(log', p, Absent) = IF x.object = p THEN x.entry ELSE LastEntry(log, p, Absent)
    BY <1>1, <1>2, <1>4, OneMore
  <2> QED
    BY <1>3, <1>5, <2>1 DEF Replay
<1>7. Replay(log)' = [Replay(log) EXCEPT ![o] = e]
  BY <1>2, <1>3, <1>6 DEF Replay
<1>8. Replay(log)' = [Replay(log) EXCEPT ![o].revision = @ + 1, ![o].retired = TRUE]
  BY <1>2, <1>3, <1>7
<1> QED
  BY <1>1, <1>3, <1>8 DEF Active, Store!Retire, Store!Active

\* Read at the log, the store moves every object of a commit one revision on, from the revision its
\* caller read, all together or not at all; a retirement ends an object for good; and nothing else
\* changes it: no rejection, no failed call, no crash and no load.
THEOREM StoreIsKept == Spec => Implements
<1>1. StoreInv /\ [Next]_vars => [Store!Next]_(Replay(log))
  <2> SUFFICES ASSUME StoreInv, [Next]_vars PROVE [Store!Next]_(Replay(log))
    OBVIOUS
  <2>1. CASE AppendBatch /\ Acceptable
    <3>1. Store!Commit(Range(batch[Running]), Running)
      BY <2>1, AppendCommits
    <3>2. Range(batch[Running]) \in (SUBSET Objects) \ {{}} /\ Running \in Callers
      <4>1. /\ Running \in Callers /\ batch[Running] \in Seq(Objects)
            /\ Len(batch[Running]) \in Nat \ {0}
        BY <2>1, RunningIs DEF StoreInv, AppendBatch
      <4>2. Range(batch[Running]) = {batch[Running][i] : i \in 1..Len(batch[Running])}
        BY <4>1 DEF Range
      <4>3. 1 \in 1..Len(batch[Running]) /\ \A i \in 1..Len(batch[Running]) : batch[Running][i] \in Objects
        BY <4>1
      <4>4. Range(batch[Running]) \subseteq Objects /\ Range(batch[Running]) # {}
        BY <4>2, <4>3
      <4> QED
        BY <4>1, <4>4
    <3> QED
      BY <3>1, <3>2 DEF Store!Next
  <2>2. CASE \E o \in Objects, saved \in BOOLEAN : Tombstone(o, saved)
    BY <2>2, TombstoneRetires DEF Store!Next
  <2>3. CASE log' = log
    BY <2>3 DEF Replay, LastEntry
  <2> QED
    BY <2>1, <2>2, <2>3, StoreChanges
<1> QED
  BY <1>1, InitStore, Kept, PTL DEF Spec, Implements, Store!Spec
=============================================================================
