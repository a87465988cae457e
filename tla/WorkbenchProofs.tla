--------------------------- MODULE WorkbenchProofs ---------------------------
(* The lock excludes and forgets nobody, the index of the working copy is    *)
(* true and says it is HEAD's only when it is, and a signature is put on     *)
(* file over what it names: for every set of files, of callers and of        *)
(* bounds.  What goes by the lock or the index assumes that callers of the   *)
(* lock only arrive from I/O and timer events (Barging = FALSE).             *)
EXTENDS Workbench, FiniteSetTheorems, TLAPS

-----------------------------------------------------------------------------
(* The lock, for every finite set of readers and writers. *)

\* One batch at a time is on its way in; while it is, nobody is inside; and it is
\* one writer or a cohort of readers.  It is what the continuations, which take
\* the lock without looking, rely on.
OneBatch ==
    /\ Len(woken) <= 1
    /\ woken # <<>> =>
          /\ Inside(Calls) = {}
          /\ woken[1] # {}
          /\ \/ woken[1] \subseteq Readers
             \/ \E w \in Writers : woken[1] = {w}

\* The counter and the flag say who is inside.
Counted ==
    /\ activeReaders = Cardinality(Inside(Readers))
    /\ writing <=> Inside(Writers) # {}

IInv == TypeOK /\ Counted /\ OneBatch /\ Exclusive /\ NoLostWakeup

LEMMA InsideFinite ==
    /\ IsFiniteSet(Inside(Readers))
    /\ Cardinality(Inside(Readers)) \in Nat
    /\ Cardinality(Inside(Readers)) = 0 <=> Inside(Readers) = {}
<1>1. Inside(Readers) \subseteq Readers
    BY DEF Inside
<1>2. IsFiniteSet(Inside(Readers))
    BY <1>1, FS_Subset, RWLockAssumption
<1> QED
    BY <1>2, FS_CardinalityType, FS_EmptySet

LEMMA InitInvariant == Init => IInv
<1> SUFFICES ASSUME Init PROVE IInv
    OBVIOUS
<1>1. Inside(Calls) = {} /\ Inside(Readers) = {} /\ Inside(Writers) = {}
    BY DEF Init, Inside, Calls
<1>2. TypeOK
  <2>1. pc \in [Calls -> {"out", "queued", "woken", "in"}]
    BY DEF Init
  <2>2. <<>> \in Seq(Writers) /\ <<>> \in Seq(SUBSET Calls)
    OBVIOUS
  <2> QED
    BY <2>1, <2>2 DEF Init, TypeOK
<1>3. Counted
    BY <1>1, FS_EmptySet DEF Init, Counted
<1> QED
    BY <1>1, <1>2, <1>3 DEF Init, IInv, OneBatch, Exclusive, NoLostWakeup

-----------------------------------------------------------------------------
\* What leaving does to the set of calls inside.
LEMMA Leave ==
    ASSUME IInv, NEW c \in Calls, pc[c] = "in", woken = <<>>,
           AdmitNext(c), Inside(Calls) = {c}
    PROVE  /\ Inside(Calls)' = {}
           /\ woken' \in Seq(SUBSET Calls)
           /\ pc' \in [Calls -> {"out", "queued", "woken", "in"}]
           /\ writerQueue' \in Seq(Writers)
           /\ readerQueue' \in SUBSET Readers
           /\ OneBatch'
           /\ NoLostWakeup'
<1>1. Admitted \subseteq Calls
    BY DEF Admitted, IInv, TypeOK, Calls
<1>2. Inside(Calls)' = {}
    BY DEF AdmitNext, Inside, IInv, TypeOK
<1>3. pc' \in [Calls -> {"out", "queued", "woken", "in"}]
    BY DEF AdmitNext, IInv, TypeOK
<1>4. writerQueue' \in Seq(Writers) /\ readerQueue' \in SUBSET Readers
    BY DEF AdmitNext, IInv, TypeOK
<1>5. CASE Admitted = {}
  <2>1. woken' = <<>>
    BY <1>5 DEF AdmitNext
  <2>2. writerQueue = <<>> /\ readerQueue = {}
    BY <1>5 DEF Admitted
  <2>3. writerQueue' = <<>> /\ readerQueue' = {}
    BY <2>2 DEF AdmitNext
  <2> QED
    BY <1>2, <1>3, <1>4, <2>1, <2>3 DEF OneBatch, NoLostWakeup
<1>6. CASE Admitted # {}
  <2>1. woken' = <<Admitted>>
    BY <1>6 DEF AdmitNext
  <2>2. woken' \in Seq(SUBSET Calls) /\ Len(woken') = 1 /\ woken'[1] = Admitted
    BY <1>1, <2>1
  <2>3. Admitted \subseteq Readers \/ \E w \in Writers : Admitted = {w}
    BY DEF Admitted, IInv, TypeOK
  <2>4. OneBatch'
    BY <1>2, <1>6, <2>2, <2>3 DEF OneBatch
  <2>5. NoLostWakeup'
    BY <2>1 DEF NoLostWakeup
  <2> QED
    BY <1>2, <1>3, <1>4, <2>2, <2>4, <2>5
<1> QED
    BY <1>5, <1>6

\* Every action preserves the invariant.
LEMMA StepInvariant ==
    ASSUME Barging = FALSE, IInv, [Next]_vars
    PROVE  IInv'
<1> USE DEF IInv
<1>1. ASSUME NEW r \in Readers, AcquireRead(r)
      PROVE  IInv'
  <2>1. woken = <<>> /\ woken' = <<>>
    BY <1>1 DEF AcquireRead, MayRun
  <2>2. r \in Calls /\ r \notin Writers
    BY RWLockAssumption DEF Calls
  <2>3. CASE ~writing /\ writerQueue = <<>>
    <3>1. pc' = [pc EXCEPT ![r] = "in"] /\ activeReaders' = activeReaders + 1
          /\ UNCHANGED <<readerQueue, writing, writerQueue, woken>>
      BY <1>1, <2>3 DEF AcquireRead
    <3>2. Inside(Readers)' = Inside(Readers) \cup {r} /\ r \notin Inside(Readers)
      BY <1>1, <2>2, <3>1 DEF AcquireRead, Inside, TypeOK, Calls
    <3>3. Inside(Writers)' = {} /\ Inside(Writers) = {}
      BY <2>2, <2>3, <3>1 DEF Inside, TypeOK, Calls, Counted
    <3>4. Cardinality(Inside(Readers)') = Cardinality(Inside(Readers)) + 1
      BY <3>2, InsideFinite, FS_AddElement
    <3>5. Counted'
      BY <2>3, <3>1, <3>3, <3>4 DEF Counted
    <3>6. TypeOK'
      BY <2>2, <3>1 DEF TypeOK
    <3> QED
      BY <2>1, <2>3, <3>1, <3>3, <3>5, <3>6 DEF OneBatch, Exclusive, NoLostWakeup, Inside, Calls
  <2>4. CASE ~(~writing /\ writerQueue = <<>>)
    <3>1. pc' = [pc EXCEPT ![r] = "queued"] /\ readerQueue' = readerQueue \cup {r}
          /\ UNCHANGED <<activeReaders, writing, writerQueue, woken>>
      BY <1>1, <2>4 DEF AcquireRead
    <3>2. \A S \in SUBSET Calls : Inside(S)' = Inside(S)
      BY <1>1, <2>2, <3>1 DEF AcquireRead, Inside, TypeOK
    <3>3. TypeOK'
      BY <2>2, <3>1 DEF TypeOK
    <3>4. Counted'
      BY <3>1, <3>2 DEF Counted, Calls
    <3>5. Exclusive'
      BY <3>2 DEF Exclusive, Calls
    <3>6. Inside(Calls) # {}
      BY <2>1, <2>4 DEF Counted, NoLostWakeup, Inside, Calls
    <3>7. OneBatch' /\ NoLostWakeup'
      BY <2>1, <3>2, <3>6 DEF OneBatch, NoLostWakeup, Calls
    <3> QED
      BY <3>3, <3>4, <3>5, <3>7
  <2> QED
    BY <2>3, <2>4
<1>2. ASSUME NEW w \in Writers, AcquireWrite(w)
      PROVE  IInv'
  <2>1. woken = <<>> /\ woken' = <<>>
    BY <1>2 DEF AcquireWrite, MayRun
  <2>2. w \in Calls /\ w \notin Readers
    BY RWLockAssumption DEF Calls
  <2>3. CASE ~writing /\ activeReaders = 0
    <3>1. pc' = [pc EXCEPT ![w] = "in"] /\ writing' = TRUE
          /\ UNCHANGED <<activeReaders, readerQueue, writerQueue, woken>>
      BY <1>2, <2>3 DEF AcquireWrite
    <3>2. Inside(Readers) = {} /\ Inside(Writers) = {}
      BY <2>3, InsideFinite DEF Counted
    <3>3. Inside(Readers)' = {} /\ Inside(Writers)' = {w} /\ Inside(Calls)' = {w}
      BY <2>2, <3>1, <3>2 DEF Inside, TypeOK, Calls
    <3>4. TypeOK'
      BY <2>2, <3>1 DEF TypeOK
    <3>5. Counted'
      BY <2>3, <3>1, <3>3, FS_EmptySet DEF Counted
    <3> QED
      BY <2>1, <3>3, <3>4, <3>5 DEF OneBatch, Exclusive, NoLostWakeup
  <2>4. CASE ~(~writing /\ activeReaders = 0)
    <3>1. pc' = [pc EXCEPT ![w] = "queued"] /\ writerQueue' = Append(writerQueue, w)
          /\ UNCHANGED <<activeReaders, writing, readerQueue, woken>>
      BY <1>2, <2>4 DEF AcquireWrite
    <3>2. \A S \in SUBSET Calls : Inside(S)' = Inside(S)
      BY <1>2, <2>2, <3>1 DEF AcquireWrite, Inside, TypeOK
    <3>3. TypeOK'
      BY <2>2, <3>1 DEF TypeOK
    <3>4. Counted'
      BY <3>1, <3>2 DEF Counted, Calls
    <3>5. Exclusive'
      BY <3>2 DEF Exclusive, Calls
    <3>6. Inside(Calls) # {}
      BY <2>4, InsideFinite DEF Counted, Inside, Calls
    <3>7. OneBatch' /\ NoLostWakeup'
      BY <2>1, <3>2, <3>6 DEF OneBatch, NoLostWakeup, Calls
    <3> QED
      BY <3>3, <3>4, <3>5, <3>7
  <2> QED
    BY <2>3, <2>4
<1>3. ASSUME NEW r \in Readers, ReleaseRead(r)
      PROVE  IInv'
  <2>1. woken = <<>> /\ pc[r] = "in" /\ activeReaders' = activeReaders - 1
        /\ writing' = writing
    BY <1>3 DEF ReleaseRead, MayRun
  <2>2. r \in Calls /\ r \notin Writers /\ r \in Inside(Readers) /\ r \in Inside(Calls)
    BY <2>1, RWLockAssumption DEF Calls, Inside
  <2>3. Inside(Writers) = {} /\ ~writing
    BY <2>2 DEF Exclusive, Inside, Counted
  <2>4. /\ IsFiniteSet(Inside(Readers) \ {r})
        /\ Cardinality(Inside(Readers) \ {r}) = Cardinality(Inside(Readers)) - 1
        /\ Cardinality(Inside(Readers) \ {r}) \in Nat
        /\ Cardinality(Inside(Readers) \ {r}) = 0 <=> Inside(Readers) \ {r} = {}
    BY <2>2, InsideFinite, FS_RemoveElement, FS_CardinalityType, FS_EmptySet
  <2>5. activeReaders' \in Nat /\ activeReaders' = Cardinality(Inside(Readers) \ {r})
    BY <2>1, <2>4 DEF Counted
  <2>6. CASE activeReaders = 1
    <3>1. AdmitNext(r)
      BY <1>3, <2>6 DEF ReleaseRead
    <3>2. Inside(Readers) = {r}
      BY <2>2, <2>4, <2>6 DEF Counted
    <3>3. Inside(Calls) = {r}
      BY <2>3, <3>2 DEF Inside, Calls
    <3>4. /\ Inside(Calls)' = {}
          /\ woken' \in Seq(SUBSET Calls)
          /\ pc' \in [Calls -> {"out", "queued", "woken", "in"}]
          /\ writerQueue' \in Seq(Writers)
          /\ readerQueue' \in SUBSET Readers
          /\ OneBatch' /\ NoLostWakeup'
      BY <2>1, <2>2, <3>1, <3>3, Leave
    <3>5. TypeOK'
      BY <2>1, <2>5, <3>4 DEF TypeOK
    <3>6. Inside(Readers)' = {} /\ Inside(Writers)' = {}
      BY <3>4 DEF Inside, Calls
    <3>7. Counted'
      BY <2>1, <2>3, <2>6, <3>6, FS_EmptySet DEF Counted
    <3> QED
      BY <3>4, <3>5, <3>6, <3>7 DEF Exclusive
  <2>7. CASE activeReaders # 1
    <3>1. pc' = [pc EXCEPT ![r] = "out"] /\ UNCHANGED <<readerQueue, writerQueue, woken>>
      BY <1>3, <2>7 DEF ReleaseRead
    <3>2. Inside(Readers)' = Inside(Readers) \ {r} /\ Inside(Writers)' = {}
      BY <2>2, <2>3, <3>1 DEF Inside, TypeOK, Calls
    <3>3. Inside(Calls)' # {}
      BY <2>4, <2>7, <3>2 DEF Counted, Inside, Calls
    <3>4. TypeOK'
      BY <2>1, <2>2, <2>5, <3>1 DEF TypeOK
    <3>5. Counted'
      BY <2>1, <2>3, <2>5, <3>2 DEF Counted
    <3> QED
      BY <2>1, <3>1, <3>2, <3>3, <3>4, <3>5 DEF OneBatch, Exclusive, NoLostWakeup
  <2> QED
    BY <2>6, <2>7
<1>4. ASSUME NEW w \in Writers, ReleaseWrite(w)
      PROVE  IInv'
  <2>1. woken = <<>> /\ pc[w] = "in" /\ writing' = FALSE /\ AdmitNext(w)
        /\ activeReaders' = activeReaders
    BY <1>4 DEF ReleaseWrite, MayRun
  <2>2. w \in Calls /\ w \notin Readers /\ w \in Inside(Writers)
    BY <2>1, RWLockAssumption DEF Calls, Inside
  <2>3. Inside(Calls) = {w}
    BY <2>2 DEF Exclusive
  <2>4. Inside(Readers) = {} /\ activeReaders = 0
    BY <2>2, <2>3, InsideFinite DEF Inside, Calls, Counted
  <2>5. /\ Inside(Calls)' = {}
        /\ woken' \in Seq(SUBSET Calls)
        /\ pc' \in [Calls -> {"out", "queued", "woken", "in"}]
        /\ writerQueue' \in Seq(Writers)
        /\ readerQueue' \in SUBSET Readers
        /\ OneBatch' /\ NoLostWakeup'
    BY <2>1, <2>2, <2>3, Leave
  <2>6. TypeOK'
    BY <2>1, <2>5 DEF TypeOK
  <2>7. Inside(Readers)' = {} /\ Inside(Writers)' = {}
    BY <2>5 DEF Inside, Calls
  <2>8. Counted'
    BY <2>1, <2>4, <2>7, FS_EmptySet DEF Counted
  <2> QED
    BY <2>5, <2>6, <2>7, <2>8 DEF Exclusive
<1>5. ASSUME Resume
      PROVE  IInv'
  <2> DEFINE batch == woken[1]
  <2>1. woken # <<>> /\ Head(woken) = batch /\ woken' = <<>> /\ batch \in SUBSET Calls
    BY <1>5 DEF Resume, OneBatch, TypeOK
  <2>2. /\ activeReaders' = activeReaders + Cardinality(batch \cap Readers)
        /\ writing' = (writing \/ batch \cap Writers # {})
        /\ pc' = [c \in Calls |-> IF c \in batch THEN "in" ELSE pc[c]]
        /\ UNCHANGED <<readerQueue, writerQueue>>
    BY <1>5, <2>1 DEF Resume
  <2>3. /\ Inside(Calls) = {} /\ batch # {}
        /\ \/ batch \subseteq Readers
           \/ \E w \in Writers : batch = {w}
    BY <2>1 DEF OneBatch
  <2>4. /\ Inside(Calls)' = batch
        /\ Inside(Readers)' = batch \cap Readers
        /\ Inside(Writers)' = batch \cap Writers
    BY <2>1, <2>2, <2>3 DEF Inside, Calls
  <2>5. Inside(Readers) = {} /\ Inside(Writers) = {} /\ activeReaders = 0 /\ writing = FALSE
    BY <2>3, InsideFinite DEF Inside, Calls, Counted, TypeOK
  <2>6. IsFiniteSet(batch \cap Readers) /\ Cardinality(batch \cap Readers) \in Nat
    BY RWLockAssumption, FS_Subset, FS_CardinalityType
  <2>7. TypeOK'
    <3>1. activeReaders' \in Nat /\ writing' \in BOOLEAN
      BY <2>2, <2>5, <2>6
    <3>2. pc' \in [Calls -> {"out", "queued", "woken", "in"}]
      BY <2>2 DEF TypeOK
    <3> QED
      BY <2>1, <2>2, <3>1, <3>2 DEF TypeOK
  <2>8. Counted'
    <3> HIDE DEF batch
    <3>1. activeReaders' = Cardinality(Inside(Readers)')
      BY <2>2, <2>4, <2>5, <2>6
    <3>2. writing' <=> Inside(Writers)' # {}
      BY <2>2, <2>4, <2>5
    <3> QED
      BY <3>1, <3>2 DEF Counted
  <2>9. Exclusive'
    <3>1. SUFFICES ASSUME NEW w \in batch \cap Writers PROVE batch = {w}
      BY <2>4 DEF Exclusive
    <3> QED
      BY <2>3, <3>1, RWLockAssumption
  <2> QED
    BY <2>1, <2>3, <2>4, <2>7, <2>8, <2>9 DEF OneBatch, NoLostWakeup
<1>6. CASE UNCHANGED vars
  <2>1. \A S \in SUBSET Calls : Inside(S)' = Inside(S)
    BY <1>6 DEF vars, Inside
  <2>2. TypeOK'
    BY <1>6 DEF vars, TypeOK
  <2>3. Counted' /\ OneBatch' /\ Exclusive' /\ NoLostWakeup'
    BY <1>6, <2>1 DEF vars, Counted, OneBatch, Exclusive, NoLostWakeup, Calls
  <2> QED
    BY <2>2, <2>3
<1> QED
    BY <1>1, <1>2, <1>3, <1>4, <1>5, <1>6 DEF Next

\* The lock keeps its state well-typed.  (rwlock.ts, when callers arrive from
\* I/O and timer events.)
THEOREM TypeCorrect == Barging = FALSE => (Spec => []TypeOK)
<1> SUFFICES ASSUME Barging = FALSE PROVE Spec => []TypeOK
    OBVIOUS
<1>1. Init => IInv
    BY InitInvariant
<1>2. IInv /\ [Next]_vars => IInv'
    BY StepInvariant
<1>3. IInv => TypeOK
    BY DEF IInv
<1> QED
    BY <1>1, <1>2, <1>3, PTL DEF Spec

\* One exclusive writer: nobody is inside with a writer.
THEOREM MutualExclusion == Barging = FALSE => (Spec => []Exclusive)
<1> SUFFICES ASSUME Barging = FALSE PROVE Spec => []Exclusive
    OBVIOUS
<1>1. Init => IInv
    BY InitInvariant
<1>2. IInv /\ [Next]_vars => IInv'
    BY StepInvariant
<1>3. IInv => Exclusive
    BY DEF IInv
<1> QED
    BY <1>1, <1>2, <1>3, PTL DEF Spec

\* No suspended call is forgotten: somebody who will wake it is inside or on the
\* way in.
THEOREM NothingForgotten == Barging = FALSE => (Spec => []NoLostWakeup)
<1> SUFFICES ASSUME Barging = FALSE PROVE Spec => []NoLostWakeup
    OBVIOUS
<1>1. Init => IInv
    BY InitInvariant
<1>2. IInv /\ [Next]_vars => IInv'
    BY StepInvariant
<1>3. IInv => NoLostWakeup
    BY DEF IInv
<1> QED
    BY <1>1, <1>2, <1>3, PTL DEF Spec

-----------------------------------------------------------------------------
(* The working copy. *)

Labels == {"none", "record", "dirty", "scan"}
Jobs == [at : Labels, file : Files \cup {None}, of : Revisions, seen : SUBSET Files, found : SUBSET Files]

JobsOK ==
    /\ job \in [Writers -> Jobs]
    /\ tree \in [dirty : BOOLEAN, of : Revisions]
    /\ \A w \in Writers : job[w].at \in {"none", "scan"} => job[w].file = None

\* Whoever has begun to walk is inside the lock.
WalksInside == \A w \in Writers : job[w].seen # {} => At(w, "scan") /\ pc[w] = "in"

\* What a walk has passed by and does not have as it is, a tool is still to tell, or no
\* tool will.
WalksTrue ==
    \A w \in Writers : \A f \in job[w].seen \ job[w].found : Busy(f) \/ f \in missed

IndexInv == JobsOK /\ WalksInside /\ WalksTrue /\ IndexTrue
TreeInv == IInv /\ IndexInv

-----------------------------------------------------------------------------
\* Who is inside as a writer is the only one who walks, and while a reader is inside
\* nobody does.
LEMMA OneWalks ==
    ASSUME Exclusive, WalksInside, NEW c \in Calls, pc[c] = "in"
    PROVE  \A w \in Writers \ {c} : job[w].seen = {}
<1> SUFFICES ASSUME NEW w \in Writers \ {c}, job[w].seen # {} PROVE FALSE
    OBVIOUS
<1>1. pc[w] = "in"
    BY DEF WalksInside
<1>2. w \in Inside(Writers) /\ c \in Inside(Calls)
    BY <1>1 DEF Inside
<1> QED
    BY <1>2 DEF Exclusive

\* A step that leaves the files and the jobs alone, and takes nobody out of the lock who
\* walks.
LEMMA LockMoves ==
    ASSUME IndexInv, UNCHANGED <<current, missed, job>>,
           tree' \in [dirty : BOOLEAN, of : Revisions], tree'.dirty = tree.dirty,
           \A w \in Writers : job[w].seen # {} => pc'[w] = "in"
    PROVE  IndexInv'
BY DEF IndexInv, JobsOK, WalksInside, WalksTrue, IndexTrue, Busy, At

LEMMA Quiet ==
    ASSUME IndexInv, UNCHANGED <<lock, current, missed, job>>,
           tree' \in [dirty : BOOLEAN, of : Revisions], tree'.dirty = tree.dirty
    PROVE  IndexInv'
BY LockMoves DEF IndexInv, WalksInside, lock

LEMMA Still ==
    ASSUME IndexInv, UNCHANGED <<lock, current, missed, tree, job>>
    PROVE  IndexInv'
BY Quiet DEF IndexInv, JobsOK

\* Files change with nobody to tell: they are missed, and no walk has them.
LEMMA FilesChange ==
    ASSUME IndexInv, NEW gone, current' = current \ gone,
           Files \cap gone \subseteq missed', missed \subseteq missed',
           \A w \in Writers :
               job'[w].file = job[w].file /\ job'[w].seen = job[w].seen
               /\ job'[w].found = job[w].found \ gone,
           tree'.dirty = tree.dirty
    PROVE  WalksTrue' /\ IndexTrue'
<1>1. \A f : Busy(f) <=> Busy(f)'
    BY DEF Busy
<1>2. \A w \in Writers : job[w].seen \subseteq Files
    BY DEF IndexInv, JobsOK, Jobs
<1> QED
    BY <1>1, <1>2 DEF IndexInv, WalksTrue, IndexTrue

\* The job of each writer, when a walk has not seen some files.
LEMMA Forgotten ==
    ASSUME JobsOK, NEW gone
    PROVE  /\ Unseen(gone) \in [Writers -> Jobs]
           /\ \A w \in Writers :
                  /\ Unseen(gone)[w].at = job[w].at /\ Unseen(gone)[w].file = job[w].file
                  /\ Unseen(gone)[w].of = job[w].of
                  /\ Unseen(gone)[w].seen = job[w].seen
                  /\ Unseen(gone)[w].found = job[w].found \ gone
BY DEF JobsOK, Jobs, Unseen

LEMMA UntoldStep ==
    ASSUME IndexInv, NEW gone, Untold(gone)
    PROVE  IndexInv'
<1> USE DEF IndexInv
<1>1. /\ current' = current \ gone
      /\ missed' = missed \cup gone
      /\ job' = Unseen(gone)
      /\ UNCHANGED <<lock, tree>>
    BY DEF Untold, Change
<1>2. /\ job' \in [Writers -> Jobs]
      /\ \A w \in Writers :
             /\ job'[w].at = job[w].at /\ job'[w].file = job[w].file
             /\ job'[w].seen = job[w].seen /\ job'[w].found = job[w].found \ gone
    BY <1>1, Forgotten
<1>3. JobsOK' /\ WalksInside'
    BY <1>1, <1>2 DEF JobsOK, WalksInside, At, lock
<1> QED
    BY <1>1, <1>2, <1>3, FilesChange

LEMMA NewJob ==
    ASSUME NEW at \in Labels, NEW f \in Files \cup {None}, NEW of \in Revisions
    PROVE  /\ Job(at, f, of) \in Jobs
           /\ Job(at, f, of).at = at /\ Job(at, f, of).file = f /\ Job(at, f, of).seen = {}
           /\ Job(at, f, of).found = {}
BY DEF Job, Jobs

\* A caller that has nothing to tell yet is told to scan, or to mark the tree.
LEMMA TellStep ==
    ASSUME IndexInv, NEW at \in {"scan", "dirty"}, NEW of \in Revisions,
           Free(Run), Tell(at, of), UNCHANGED <<lock, current, missed>>,
           tree' \in [dirty : BOOLEAN, of : Revisions], tree'.dirty = tree.dirty
    PROVE  IndexInv'
<1> USE DEF IndexInv
<1>1. Run \in Writers /\ job[Run].at = "none" /\ job[Run].file = None /\ job[Run].seen = {}
    BY WorkbenchAssumption DEF Free, At, JobsOK, WalksInside
<1>2. PICK k \in Jobs : k = Job(at, None, of) /\ k.at = at /\ k.file = None /\ k.seen = {}
  <2>1. at \in Labels
    BY DEF Labels
  <2> QED
    BY <2>1, NewJob
<1>3. job' = [job EXCEPT ![Run] = k]
    BY <1>2 DEF Tell
<1>4. /\ job' \in [Writers -> Jobs] /\ job'[Run] = k
      /\ \A w \in Writers \ {Run} : job'[w] = job[w]
    BY <1>1, <1>3 DEF JobsOK
<1>5. JobsOK'
    BY <1>1, <1>2, <1>4 DEF JobsOK
<1>6. WalksInside'
    BY <1>1, <1>2, <1>4 DEF WalksInside, At, lock
<1>7. \A f \in Files : Busy(f) => Busy(f)'
    BY <1>1, <1>4, FilesAssumption DEF Busy
<1>8. \A w \in Writers : job[w].seen \subseteq Files
    BY DEF JobsOK, Jobs
<1>9. WalksTrue'
    BY <1>2, <1>4, <1>7, <1>8 DEF WalksTrue
<1>10. IndexTrue'
    BY <1>7 DEF IndexTrue
<1> QED
    BY <1>5, <1>6, <1>9, <1>10

LEMMA WriteStep ==
    ASSUME IndexInv, NEW w \in Writers, NEW f \in Files, NEW kept, WriteWorkspaceFile(w, f, kept)
    PROVE  IndexInv'
<1> USE DEF IndexInv
<1>1. /\ current' = current \ {f}
      /\ job' = [Unseen({f}) EXCEPT ![w] = Job("record", f, None)]
      /\ UNCHANGED <<lock, tree, missed>>
      /\ job[w].at = "none" /\ job[w].file = None /\ job[w].seen = {}
    BY DEF WriteWorkspaceFile, Change, Free, At, JobsOK, WalksInside
<1>2. /\ job' \in [Writers -> Jobs]
      /\ job'[w].at = "record" /\ job'[w].file = f /\ job'[w].seen = {}
      /\ \A v \in Writers \ {w} :
             /\ job'[v].at = job[v].at /\ job'[v].file = job[v].file
             /\ job'[v].seen = job[v].seen /\ job'[v].found = job[v].found \ {f}
  <2>1. "record" \in Labels /\ None \in Revisions
    BY DEF Labels, Revisions
  <2>2. PICK k \in Jobs : k = Job("record", f, None) /\ k.at = "record" /\ k.file = f /\ k.seen = {}
    BY <2>1, NewJob
  <2>3. PICK u \in [Writers -> Jobs] :
           /\ u = Unseen({f})
           /\ \A v \in Writers :
                  /\ u[v].at = job[v].at /\ u[v].file = job[v].file
                  /\ u[v].seen = job[v].seen /\ u[v].found = job[v].found \ {f}
    BY Forgotten
  <2>4. job' = [u EXCEPT ![w] = k]
    BY <1>1, <2>2, <2>3
  <2> QED
    BY <2>2, <2>3, <2>4
<1>3. JobsOK' /\ WalksInside'
  <2>1. JobsOK'
    BY <1>1, <1>2 DEF JobsOK
  <2>2. \A v \in Writers : job'[v].seen # {} => v # w /\ job[v].seen # {}
    BY <1>2
  <2>3. ASSUME NEW v \in Writers, job'[v].seen # {} PROVE job'[v].at = "scan" /\ pc'[v] = "in"
    <3>1. v # w /\ job[v].seen # {}
      BY <2>2, <2>3
    <3>2. job[v].at = "scan" /\ pc[v] = "in"
      BY <1>1, <3>1 DEF WalksInside, At
    <3> QED
      BY <1>1, <1>2, <3>1, <3>2 DEF lock
  <2> QED
    BY <2>1, <2>3 DEF WalksInside, At
<1>4. Busy(f)' /\ \A g \in Files : Busy(g) => Busy(g)'
    BY <1>1, <1>2, FilesAssumption DEF Busy
<1>5. \A v \in Writers : job[v].seen \subseteq Files
    BY DEF JobsOK, Jobs
<1>6. WalksTrue'
  <2> SUFFICES ASSUME NEW v \in Writers, NEW g \in job'[v].seen \ job'[v].found
               PROVE  Busy(g)' \/ g \in missed'
    BY DEF WalksTrue
  <2>1. v # w /\ g \in Files
    BY <1>2, <1>5
  <2>2. g = f \/ g \in job[v].seen \ job[v].found
    BY <1>2, <2>1
  <2> QED
    BY <1>1, <1>4, <2>1, <2>2 DEF WalksTrue
<1>7. IndexTrue'
    BY <1>1, <1>4 DEF IndexTrue
<1> QED
    BY <1>3, <1>6, <1>7

-----------------------------------------------------------------------------
\* Whoever is done leaves nobody in a walk, and takes its own file alone out of the busy
\* ones.
LEMMA DoneStep ==
    ASSUME IndexInv, Exclusive, NEW w \in Writers, Holds(w), Done(w),
           tree' \in [dirty : BOOLEAN, of : Revisions]
    PROVE  /\ JobsOK' /\ WalksInside' /\ WalksTrue'
           /\ \A f \in Files : Busy(f) => Busy(f)' \/ f = job[w].file
<1> USE DEF IndexInv
<1>1. "none" \in Labels /\ None \in Revisions
    BY DEF Labels, Revisions
<1>2. PICK k \in Jobs : k = Nothing /\ k.at = "none" /\ k.file = None /\ k.seen = {}
    BY <1>1, NewJob DEF Nothing
<1>3. job' = [job EXCEPT ![w] = k]
    BY <1>2 DEF Done
<1>4. /\ job' \in [Writers -> Jobs] /\ job'[w] = k
      /\ \A v \in Writers \ {w} : job'[v] = job[v]
    BY <1>3 DEF JobsOK
<1>5. w \in Calls /\ pc[w] = "in"
    BY DEF Calls, Holds
<1>6. \A v \in Writers \ {w} : job[v].seen = {}
    BY <1>5, OneWalks
<1>7. \A v \in Writers : job'[v].seen = {}
    BY <1>2, <1>4, <1>6
<1>8. JobsOK'
    BY <1>2, <1>4 DEF JobsOK
<1> QED
    BY <1>4, <1>7, <1>8 DEF WalksInside, WalksTrue, Busy

\* Somebody who is inside and does not walk is the only one there who may be told of.
LEMMA OnlyWalk ==
    ASSUME IndexInv, Exclusive, NEW w \in Writers, Holds(w)
    PROVE  \A v \in Writers \ {w} : job[v].seen = {}
<1>1. w \in Calls /\ pc[w] = "in"
    BY DEF Calls, Holds
<1> QED
    BY <1>1, OneWalks DEF IndexInv

LEMMA RecordStep ==
    ASSUME IndexInv, Exclusive, NEW w \in Writers, Record(w)
    PROVE  IndexInv'
<1>1. /\ Holds(w) /\ Done(w)
      /\ current' = current \cup {job[w].file}
      /\ missed' = missed \ {job[w].file}
      /\ tree' = [tree EXCEPT !.of = None]
    BY DEF Record
<1>2. tree' \in [dirty : BOOLEAN, of : Revisions] /\ tree'.dirty = tree.dirty
    BY <1>1 DEF IndexInv, JobsOK, Revisions
<1>3. /\ JobsOK' /\ WalksInside' /\ WalksTrue'
      /\ \A f \in Files : Busy(f) => Busy(f)' \/ f = job[w].file
    BY <1>1, <1>2, DoneStep
<1>4. IndexTrue'
    BY <1>1, <1>2, <1>3 DEF IndexInv, IndexTrue
<1> QED
    BY <1>3, <1>4 DEF IndexInv

LEMMA MarkStep ==
    ASSUME IndexInv, Exclusive, NEW w \in Writers, MarkDirty(w) \/ MarkDirtyFails(w)
    PROVE  IndexInv'
<1>1. /\ Holds(w) /\ Done(w) /\ current' = current
      /\ \/ missed' = missed /\ tree' = [tree EXCEPT !.dirty = TRUE]
         \/ missed' = missed \cup {job[w].file} /\ tree' = tree
    BY DEF MarkDirty, MarkDirtyFails, files
<1>2. tree' \in [dirty : BOOLEAN, of : Revisions] /\ (tree'.dirty \/ tree' = tree)
    BY <1>1 DEF IndexInv, JobsOK
<1>3. /\ JobsOK' /\ WalksInside' /\ WalksTrue'
      /\ \A f \in Files : Busy(f) => Busy(f)' \/ f = job[w].file
    BY <1>1, <1>2, DoneStep
<1>4. CASE missed' = missed \cup {job[w].file} /\ tree' = tree
    BY <1>1, <1>3, <1>4 DEF IndexInv, IndexTrue
<1>5. CASE tree' = [tree EXCEPT !.dirty = TRUE]
  <2>1. tree'.dirty
    BY <1>5 DEF IndexInv, JobsOK
  <2> QED
    BY <1>3, <2>1 DEF IndexInv, IndexTrue
<1> QED
    BY <1>1, <1>4, <1>5

LEMMA ThrowsStep ==
    ASSUME IndexInv, Exclusive, NEW w \in Writers, Throws(w)
    PROVE  IndexInv'
<1>1. Holds(w) /\ Done(w) /\ UNCHANGED <<files, tree>> /\ job[w].file = None
    BY DEF Throws, IndexInv, JobsOK, At
<1>2. /\ JobsOK' /\ WalksInside' /\ WalksTrue'
      /\ \A f \in Files : Busy(f) => Busy(f)' \/ f = job[w].file
    BY <1>1, DoneStep DEF IndexInv, JobsOK
<1> QED
    BY <1>1, <1>2, FilesAssumption DEF IndexInv, IndexTrue, files

\* The walk is over: what it has not found as it is, is busy or missed.
LEMMA RescanStep ==
    ASSUME IndexInv, Exclusive, NEW w \in Writers, Rescan(w)
    PROVE  IndexInv'
<1>1. /\ Holds(w) /\ Done(w) /\ job[w].seen = Files /\ job[w].file = None
      /\ current' = job[w].found
      /\ missed' = missed \ job[w].found
      /\ tree' = [dirty |-> FALSE, of |-> job[w].of]
    BY DEF Rescan, IndexInv, JobsOK, At
<1>2. tree' \in [dirty : BOOLEAN, of : Revisions]
    BY <1>1 DEF IndexInv, JobsOK, Jobs
<1>3. /\ JobsOK' /\ WalksInside' /\ WalksTrue'
      /\ \A f \in Files : Busy(f) => Busy(f)' \/ f = job[w].file
    BY <1>1, <1>2, DoneStep
<1>4. \A f \in Files \ job[w].found : Busy(f) \/ f \in missed
    BY <1>1 DEF IndexInv, WalksTrue
<1>5. \A f \in Files \ current' : Busy(f)' \/ f \in missed'
    BY <1>1, <1>3, <1>4, FilesAssumption
<1> QED
    BY <1>3, <1>5 DEF IndexInv, IndexTrue

LEMMA RecordFailsStep ==
    ASSUME IndexInv, Exclusive, NEW w \in Writers, RecordFails(w)
    PROVE  IndexInv'
<1> USE DEF IndexInv
<1>1. /\ Holds(w) /\ UNCHANGED <<files, tree>> /\ job[w].at = "record"
      /\ job' = [job EXCEPT ![w].at = "dirty"]
    BY DEF RecordFails, At
<1>2. /\ job' \in [Writers -> Jobs] /\ job'[w].at = "dirty"
      /\ \A v \in Writers : job'[v].file = job[v].file /\ job'[v].seen = job[v].seen
      /\ \A v \in Writers \ {w} : job'[v] = job[v]
    BY <1>1 DEF JobsOK, Jobs, Labels
<1>3. \A v \in Writers : job'[v].seen = {}
  <2>1. job[w].seen = {}
    BY <1>1 DEF WalksInside, At
  <2> QED
    BY <1>1, <1>2, <2>1, OnlyWalk
<1>4. JobsOK'
    BY <1>1, <1>2 DEF JobsOK
<1>5. WalksInside' /\ WalksTrue'
    BY <1>3 DEF WalksInside, WalksTrue
<1>6. \A f : Busy(f) <=> Busy(f)'
    BY <1>2 DEF Busy
<1> QED
    BY <1>1, <1>4, <1>5, <1>6 DEF IndexTrue, files

LEMMA WalkStep ==
    ASSUME IndexInv, NEW w \in Writers, Walk(w)
    PROVE  IndexInv'
<1> USE DEF IndexInv
<1>1. PICK f \in Files : job' = [job EXCEPT ![w].seen = @ \cup {f}, ![w].found = @ \cup {f}]
  <2>1. \E f \in Files : f \notin job[w].seen
    BY DEF Walk, JobsOK, Jobs
  <2> QED
    BY <2>1 DEF Walk, Seen
<1>2. job[w].at = "scan" /\ pc[w] = "in" /\ UNCHANGED <<lock, files, tree>>
    BY DEF Walk, At, Holds
<1>3. /\ job' \in [Writers -> Jobs]
      /\ job'[w].seen = job[w].seen \cup {f} /\ job'[w].found = job[w].found \cup {f}
      /\ \A v \in Writers : job'[v].at = job[v].at /\ job'[v].file = job[v].file
      /\ \A v \in Writers \ {w} : job'[v] = job[v]
    BY <1>1 DEF JobsOK, Jobs
<1>4. JobsOK'
    BY <1>2, <1>3 DEF JobsOK
<1>5. WalksInside'
    BY <1>2, <1>3 DEF WalksInside, At, lock
<1>6. \A g : Busy(g) <=> Busy(g)'
    BY <1>3 DEF Busy
<1>7. \A v \in Writers : job'[v].seen \ job'[v].found \subseteq job[v].seen \ job[v].found
    BY <1>3
<1>8. WalksTrue'
    BY <1>2, <1>6, <1>7 DEF WalksTrue, files
<1> QED
    BY <1>2, <1>4, <1>5, <1>6, <1>8 DEF IndexTrue, files

\* Who comes to the lock, leaves it after reading or is let in takes nobody out who walks.
LEMMA CallStep ==
    ASSUME TreeInv,
           \/ \E w \in Writers : Acquire(w)
           \/ \E r \in Readers : Read(r) \/ HasRead(r)
           \/ Continue
    PROVE  IndexInv'
<1> USE DEF TreeInv, IInv
<1>1. UNCHANGED <<files, tree, job>>
    BY DEF Acquire, Read, HasRead, Continue
<1>2. pc \in [Calls -> {"out", "queued", "woken", "in"}] /\ \A w \in Writers : w \in Calls
    BY DEF TypeOK, Calls
<1>3. ASSUME NEW w \in Writers, job[w].seen # {} PROVE pc'[w] = "in"
  <2>1. pc[w] = "in"
    BY <1>3 DEF IndexInv, WalksInside
  <2>2. CASE \E v \in Writers : Acquire(v)
    BY <1>2, <2>1, <2>2 DEF Acquire, AcquireWrite
  <2>3. CASE \E r \in Readers : Read(r)
    BY <1>2, <2>1, <2>3 DEF Read, AcquireRead
  <2>4. CASE \E r \in Readers : HasRead(r)
    <3>1. PICK r \in Readers : pc[r] = "in"
      BY <2>4 DEF HasRead, ReleaseRead
    <3>2. r \in Calls /\ w \in Writers \ {r}
      BY RWLockAssumption DEF Calls
    <3> QED
      BY <1>3, <3>1, <3>2, OneWalks DEF IndexInv
  <2>5. CASE Continue
    BY <1>2, <2>1, <2>5 DEF Continue, Resume
  <2> QED
    BY <2>2, <2>3, <2>4, <2>5
<1>4. tree' \in [dirty : BOOLEAN, of : Revisions] /\ tree'.dirty = tree.dirty
    BY <1>1 DEF IndexInv, JobsOK
<1>5. UNCHANGED <<current, missed, job>>
    BY <1>1 DEF files
<1> QED
    BY <1>3, <1>4, <1>5, LockMoves

LEMMA TreeStep ==
    ASSUME TreeInv, NEW w \in Writers, Tree(w)
    PROVE  IndexInv'
<1> USE DEF TreeInv, IInv
<1>1. CASE Acquire(w)
    BY <1>1, CallStep
<1>2. CASE Proceeds(w)
    BY <1>2, RecordStep, RecordFailsStep, MarkStep, WalkStep, RescanStep DEF Proceeds
<1> QED
    BY <1>1, <1>2 DEF Tree

-----------------------------------------------------------------------------
(* The run. *)

\* A commit takes the revision the tree stands for away from it, and nothing else.
LEMMA SnapshotTree ==
    ASSUME JobsOK, Snapshot
    PROVE  tree' \in [dirty : BOOLEAN, of : Revisions] /\ tree'.dirty = tree.dirty
BY DEF Snapshot, JobsOK, Revisions

LEMMA FilesThereAre == Run \in Writers /\ "manifest" \in Files /\ "source" \in Files
BY WorkbenchAssumption

\* The steps that do not go to the index, or take a commit only.
LEMMA ApartStep ==
    ASSUME IndexInv,
           \/ Start \/ Sync \/ Synced \/ BeginAttempt \/ Rebuild \/ Command \/ Deliver \/ Delivered
           \/ Judge \/ Prepared \/ Checked
    PROVE  IndexInv' /\ UNCHANGED lock
<1>1. UNCHANGED <<lock, current, missed, job>> /\ (UNCHANGED tree \/ Snapshot)
    BY DEF Start, Sync, Synced, BeginAttempt, Rebuild, Command, Deliver, Delivered,
           Judge, Prepared, Checked, index, files
<1>2. tree' \in [dirty : BOOLEAN, of : Revisions] /\ tree'.dirty = tree.dirty
    BY <1>1, SnapshotTree DEF IndexInv, JobsOK
<1> QED
    BY <1>1, <1>2, Quiet

\* The steps that scan the working copy, or have the tree marked.
LEMMA ScanStep ==
    ASSUME IndexInv, Built \/ Scanned \/ Publish \/ CommitDocument \/ Reconcile \/ Repair \/ Flag
    PROVE  IndexInv' /\ UNCHANGED lock
<1>1. /\ UNCHANGED <<lock, current, missed>> /\ (UNCHANGED tree \/ Snapshot)
      /\ Free(Run)
      /\ \/ UNCHANGED job
         \/ Tell("scan", "head") \/ Tell("scan", "short") \/ Tell("scan", None) \/ Tell("dirty", None)
    BY DEF Built, Scanned, Publish, CommitDocument, Reconcile, Repair, Flag, Rescans,
           CommitArtifact, Ready, files
<1>2. tree' \in [dirty : BOOLEAN, of : Revisions] /\ tree'.dirty = tree.dirty
    BY <1>1, SnapshotTree DEF IndexInv, JobsOK
<1>3. "head" \in Revisions /\ "short" \in Revisions /\ None \in Revisions
    BY DEF Revisions
<1>4. CASE UNCHANGED job
    BY <1>1, <1>2, <1>4, Quiet
<1>5. CASE Tell("scan", "head") \/ Tell("scan", "short") \/ Tell("scan", None) \/ Tell("dirty", None)
    BY <1>1, <1>2, <1>3, <1>5, TellStep
<1> QED
    BY <1>1, <1>4, <1>5

\* The steps that write files.
LEMMA ToolStep ==
    ASSUME IndexInv,
           WriteFile \/ ApplyPatch \/ PatchSecond \/ AddDependency \/ Rebuilt \/ Restore \/ WriteDocument
    PROVE  IndexInv' /\ UNCHANGED lock
<1>1. \/ UNCHANGED index
      \/ \E f \in {"manifest", "source"} : \E kept : WriteWorkspaceFile(Run, f, kept)
      \/ Untold({"source"})
  <2>1. CASE WriteFile
    BY <2>1 DEF WriteFile, WriteSource, WriteManifest, WriteProject
  <2>2. CASE ApplyPatch
    BY <2>2 DEF ApplyPatch, WriteManifest, WriteProject
  <2>3. CASE PatchSecond
    BY <2>3 DEF PatchSecond, WriteSource
  <2>4. CASE AddDependency
    BY <2>4 DEF AddDependency, WriteManifest, WriteProject
  <2>5. CASE Rebuilt
    BY <2>5 DEF Rebuilt, PutBack, WriteProject
  <2>6. CASE Restore
    BY <2>6 DEF Restore, PutBack, WriteProject
  <2>7. CASE WriteDocument
    BY <2>7 DEF WriteDocument
  <2> QED
    BY <2>1, <2>2, <2>3, <2>4, <2>5, <2>6, <2>7
<1>2. CASE UNCHANGED index
    BY <1>2, Still DEF index, files
<1>3. CASE \E f \in {"manifest", "source"} : \E kept : WriteWorkspaceFile(Run, f, kept)
    BY <1>3, WriteStep, FilesThereAre DEF WriteWorkspaceFile
<1>4. CASE Untold({"source"})
    BY <1>4, UntoldStep DEF Untold
<1> QED
    BY <1>1, <1>2, <1>3, <1>4

LEMMA FailStep ==
    ASSUME IndexInv, FailAttempt
    PROVE  IndexInv' /\ UNCHANGED lock
<1> DEFINE gone == Files \ committed
<1>1. /\ UNCHANGED <<lock, tree>>
      /\ current' = current \cap committed
      /\ missed' = missed \cup gone
      /\ job' = Unseen(gone)
    BY DEF FailAttempt
<1>2. /\ job' \in [Writers -> Jobs]
      /\ \A w \in Writers :
             /\ job'[w].at = job[w].at /\ job'[w].file = job[w].file
             /\ job'[w].seen = job[w].seen /\ job'[w].found = job[w].found \ gone
  <2>1. JobsOK
    BY DEF IndexInv
  <2> QED
    BY <1>1, <2>1, Forgotten
<1>3. JobsOK' /\ WalksInside'
    BY <1>1, <1>2 DEF IndexInv, JobsOK, WalksInside, At, lock
<1>4. \A f : Busy(f) <=> Busy(f)'
    BY <1>2 DEF Busy
<1>5. \A w \in Writers : job[w].seen \subseteq Files
    BY DEF IndexInv, JobsOK, Jobs
<1>6. WalksTrue'
    BY <1>1, <1>2, <1>4, <1>5 DEF IndexInv, WalksTrue
<1>7. IndexTrue'
    BY <1>1, <1>4 DEF IndexInv, IndexTrue
<1> QED
    BY <1>1, <1>3, <1>6, <1>7 DEF IndexInv

\* What lands is not in the index until the run has scanned the working copy.
LEMMA LandStep ==
    ASSUME IndexInv, Land
    PROVE  IndexInv' /\ UNCHANGED lock
<1> USE DEF IndexInv
<1>1. /\ UNCHANGED lock /\ job[Run].at = "none" /\ Run \in Writers
      /\ tree' \in [dirty : BOOLEAN, of : Revisions] /\ tree'.dirty = tree.dirty
    BY FilesThereAre DEF Land, Ready, Free, At, JobsOK, Revisions
<1>2. CASE UNCHANGED <<current, missed, tree, job>>
    BY <1>1, <1>2, Still
<1>3. CASE /\ current' = current \ {"source"} /\ missed' = missed \cup {"source"}
           /\ job' = [Unseen({"source"}) EXCEPT ![Run] = Job("scan", None, "head")]
  <2>1. job[Run].file = None /\ job[Run].seen = {}
    BY <1>1 DEF JobsOK, WalksInside, At
  <2>2. "scan" \in Labels /\ "head" \in Revisions
    BY DEF Labels, Revisions
  <2>3. PICK k \in Jobs :
            k = Job("scan", None, "head") /\ k.at = "scan" /\ k.file = None /\ k.seen = {} /\ k.found = {}
    BY <2>2, NewJob
  <2>4. PICK u \in [Writers -> Jobs] :
            /\ u = Unseen({"source"})
            /\ \A v \in Writers :
                   /\ u[v].at = job[v].at /\ u[v].file = job[v].file
                   /\ u[v].seen = job[v].seen /\ u[v].found = job[v].found \ {"source"}
    BY Forgotten
  <2>5. job' = [u EXCEPT ![Run] = k]
    BY <1>3, <2>3, <2>4
  <2>6. job' \in [Writers -> Jobs] /\ job'[Run] = k /\ \A v \in Writers \ {Run} : job'[v] = u[v]
    BY <1>1, <2>5
  <2>7. JobsOK'
    BY <1>1, <2>1, <2>3, <2>4, <2>6 DEF JobsOK
  <2>8. \A v \in Writers : job'[v].seen # {} => job'[v].at = "scan" /\ pc'[v] = "in"
    BY <1>1, <2>3, <2>4, <2>6 DEF WalksInside, At, lock
  <2>9. \A f \in Files : Busy(f) => Busy(f)'
    BY <1>1, <2>1, <2>4, <2>6, FilesAssumption DEF Busy
  <2>10. \A v \in Writers : job[v].seen \subseteq Files
    BY DEF JobsOK, Jobs
  <2>11. WalksTrue'
    <3> SUFFICES ASSUME NEW v \in Writers, NEW g \in job'[v].seen \ job'[v].found
                 PROVE  Busy(g)' \/ g \in missed'
      BY DEF WalksTrue
    <3>1. v # Run
      BY <2>3, <2>6
    <3>2. g = "source" \/ g \in job[v].seen \ job[v].found
      BY <2>4, <2>6, <3>1
    <3>3. g \in Files
      BY <2>4, <2>6, <2>10, <3>1
    <3> QED
      BY <1>3, <2>9, <3>2, <3>3 DEF WalksTrue
  <2>12. IndexTrue'
    BY <1>1, <1>3, <2>9 DEF IndexTrue
  <2> QED
    BY <1>1, <2>7, <2>8, <2>11, <2>12 DEF WalksInside, At
<1> QED
    BY <1>1, <1>2, <1>3 DEF Land

LEMMA RunSteps ==
    ASSUME IndexInv, RunStep
    PROVE  IndexInv' /\ UNCHANGED lock
BY ApartStep, ScanStep, ToolStep, FailStep, LandStep DEF RunStep

-----------------------------------------------------------------------------
(* Beside the run. *)

\* A restart finds the lock free, no job, and among the missed files those it was busy with.
LEMMA RestartStep ==
    ASSUME IndexInv, Restart
    PROVE  IndexInv' /\ IInv'
<1> USE DEF IndexInv
<1>1. /\ job' = [w \in Writers |-> Nothing]
      /\ tree' = tree
    BY DEF Restart
<1>2. PICK gone \in SUBSET {"manifest"} :
         /\ current' = current \ gone
         /\ missed' = missed \cup {f \in Files : Busy(f)} \cup gone
    BY DEF Restart
<1>3. "none" \in Labels /\ None \in Revisions
    BY DEF Labels, Revisions
<1>4. PICK k \in Jobs : k = Nothing /\ k.at = "none" /\ k.file = None /\ k.seen = {}
    BY <1>3, NewJob DEF Nothing
<1>5. job' \in [Writers -> Jobs] /\ \A w \in Writers : job'[w] = k
    BY <1>1, <1>4
<1>6. JobsOK' /\ WalksInside' /\ WalksTrue'
    BY <1>1, <1>4, <1>5 DEF JobsOK, WalksInside, WalksTrue
<1>7. IndexTrue'
    BY <1>1, <1>2 DEF IndexTrue
<1>8. Init'
    BY DEF Restart, Init
<1>9. IInv'
    BY <1>8, InitInvariant, PTL
<1> QED
    BY <1>6, <1>7, <1>9

\* Every other step is one of the lock, or leaves it alone.
LEMMA LockSteps ==
    ASSUME IndexInv, WNext, ~ Restart
    PROVE  [Next]_vars
<1>1. UNCHANGED lock => UNCHANGED vars
    BY DEF lock, vars
<1>2. CASE RunStep
    BY <1>1, <1>2, RunSteps
<1>3. CASE ScanThrows
    BY <1>3, FilesThereAre DEF ScanThrows, Throws, Done, Next
<1>4. CASE SandboxStep \/ Stray
    BY <1>1, <1>4 DEF SandboxStep, Stray, Untold, index
<1>5. CASE Call \/ HasLeft
    BY <1>1, <1>5 DEF Call, HasLeft, Read, HasRead, WriteWorkspaceFile, Next
<1>6. CASE \E w \in Writers : Tree(w)
    BY <1>1, <1>6 DEF Tree, Acquire, Proceeds, Record, RecordFails, MarkDirty, MarkDirtyFails,
                      Walk, Rescan, Done, Next
<1>7. CASE Continue
    BY <1>7 DEF Continue, Next
<1> QED
    BY <1>2, <1>3, <1>4, <1>5, <1>6, <1>7 DEF WNext

LEMMA IndexSteps ==
    ASSUME TreeInv, WNext, ~ Restart
    PROVE  IndexInv'
<1> USE DEF TreeInv, IInv
<1>1. CASE RunStep
    BY <1>1, RunSteps
<1>2. CASE ScanThrows
    BY <1>2, ThrowsStep, FilesThereAre DEF ScanThrows
<1>3. CASE SandboxStep \/ Stray
  <2>1. UNCHANGED index \/ Untold({"manifest"}) \/ Untold({"source"})
    BY <1>3 DEF SandboxStep, Stray
  <2>2. CASE UNCHANGED index
    BY <2>2, Still DEF index, files
  <2> QED
    BY <2>1, <2>2, UntoldStep
<1>4. CASE Call
  <2>1. CASE \E r \in Readers : Read(r)
    BY <2>1, CallStep
  <2>2. CASE \E w \in Peers : WriteWorkspaceFile(w, "source", {})
    BY <2>2, WriteStep, FilesThereAre DEF Peers
  <2> QED
    BY <1>4, <2>1, <2>2 DEF Call
<1>5. CASE HasLeft \/ Continue
    BY <1>5, CallStep DEF HasLeft
<1>6. CASE \E w \in Writers : Tree(w)
    BY <1>6, TreeStep
<1> QED
    BY <1>1, <1>2, <1>3, <1>4, <1>5, <1>6 DEF WNext

LEMMA WInitInvariant == WInit => TreeInv
<1> SUFFICES ASSUME WInit PROVE TreeInv
    OBVIOUS
<1>1. IInv
    BY InitInvariant DEF WInit, TreeInit
<1>2. /\ current = Files /\ tree = [dirty |-> FALSE, of |-> None]
      /\ job = [w \in Writers |-> Nothing]
    BY DEF WInit, TreeInit
<1>3. "none" \in Labels /\ None \in Revisions
    BY DEF Labels, Revisions
<1>4. PICK k \in Jobs : k = Nothing /\ k.at = "none" /\ k.file = None /\ k.seen = {}
    BY <1>3, NewJob DEF Nothing
<1>5. job \in [Writers -> Jobs] /\ \A w \in Writers : job[w] = k
    BY <1>2, <1>4
<1>6. JobsOK /\ WalksInside /\ WalksTrue
    BY <1>2, <1>3, <1>4, <1>5 DEF JobsOK, WalksInside, WalksTrue
<1>7. IndexTrue
    BY <1>2 DEF IndexTrue
<1> QED
    BY <1>1, <1>6, <1>7 DEF TreeInv, IndexInv

LEMMA WStepInvariant ==
    ASSUME Barging = FALSE, TreeInv, [WNext]_wvars
    PROVE  TreeInv'
<1>1. CASE UNCHANGED wvars
  <2>1. UNCHANGED <<lock, current, missed, tree, job>> /\ UNCHANGED vars
    BY <1>1 DEF wvars, index, files, lock, vars
  <2>2. IInv'
    BY <2>1, StepInvariant DEF TreeInv
  <2> QED
    BY <2>1, <2>2, Still DEF TreeInv
<1>2. CASE Restart
    BY <1>2, RestartStep DEF TreeInv
<1>3. CASE WNext /\ ~ Restart
  <2>1. IInv'
    BY <1>3, LockSteps, StepInvariant DEF TreeInv
  <2> QED
    BY <1>3, <2>1, IndexSteps DEF TreeInv
<1> QED
    BY <1>1, <1>2, <1>3

\* A file a tool changed is in the index as it is, or the tool is still telling it, or the
\* tree says of itself that it may be wrong.  (file_tree_service.ts, whoever calls it and
\* whatever changes files beside the tools, over any number of restarts.)
THEOREM IndexIsTrue == Barging = FALSE => (WSpec => []IndexTrue)
<1> SUFFICES ASSUME Barging = FALSE PROVE WSpec => []IndexTrue
    OBVIOUS
<1>1. WInit => TreeInv
    BY WInitInvariant
<1>2. TreeInv /\ [WNext]_wvars => TreeInv'
    BY WStepInvariant
<1>3. TreeInv => IndexTrue
    BY DEF TreeInv, IndexInv
<1> QED
    BY <1>1, <1>2, <1>3, PTL DEF WSpec

\* One writer at a time has the index, and no reader beside it.  (rwlock.ts, as the index
\* uses it.)
THEOREM OneWriter == Barging = FALSE => (WSpec => []Exclusive)
<1> SUFFICES ASSUME Barging = FALSE PROVE WSpec => []Exclusive
    OBVIOUS
<1>1. WInit => TreeInv
    BY WInitInvariant
<1>2. TreeInv /\ [WNext]_wvars => TreeInv'
    BY WStepInvariant
<1>3. TreeInv => Exclusive
    BY DEF TreeInv, IInv
<1> QED
    BY <1>1, <1>2, <1>3, PTL DEF WSpec

-----------------------------------------------------------------------------
(* The environment.                                                         *)

Sets == {"none", "first", "second"}
Manifests == [manifest : Sets, lockfile : Sets]
Stages == {"none", "ok", "failed", "probe", "install", "validate", "seal"}
Builds == [at : Stages, refresh : BOOLEAN, manifest : Sets]
Runs == {"none", "ci", "install", "deps", "validate", "program", "untimed", "check", "gate install"}
Ends == {"exit ok", "exit stale", "exit failed", "ok", "stale", "failed"}
Commands == [run : Runs, child : BOOLEAN, held : BOOLEAN, idle : Nat, grown : Nat, code : Ends \cup {"none"}]

SandboxTypes ==
    /\ project \in Manifests /\ base \in Manifests /\ saved \in Manifests
    /\ build \in Builds /\ cmd \in Commands
    /\ cmd = NoCommand \/ cmd.child \/ cmd.code \in Ends

\* While a build is under way the manifest is the one it began with, and an installation
\* that has succeeded has left what that names.
BuildInv ==
    /\ ~ BuildDone => build.manifest = project.manifest
    /\ build.at \in {"probe", "seal"} => cmd = NoCommand
    /\ build.at = "install" =>
           /\ cmd.run \in {"ci", "install"}
           /\ cmd.code \in {"exit ok", "ok"} => modules = build.manifest
    /\ build.at = "validate" => cmd.run = "validate"
    /\ build.at \in {"validate", "seal"} => modules = build.manifest

InstallInv == SandboxTypes /\ BuildInv

LEMMA OneOn == \A n \in Nat : n + 1 \in Nat
OBVIOUS

LEMMA CommandsAre ==
    /\ NoCommand \in Commands /\ ~ NoCommand.child /\ ~ NoCommand.held /\ NoCommand.run = "none"
    /\ \A run \in Runs : Spawn(run) \in Commands /\ Spawn(run).child /\ Spawn(run).run = run
                         /\ Spawn(run).code = "none"
<1>1. /\ "none" \in Runs /\ "none" \in Ends \cup {"none"} /\ 0 \in Nat
      /\ TRUE \in BOOLEAN /\ FALSE \in BOOLEAN
    BY DEF Runs
<1>2. /\ NoCommand \in Commands /\ ~ NoCommand.child /\ ~ NoCommand.held /\ NoCommand.run = "none"
      /\ NoCommand.code = "none"
    BY <1>1 DEF NoCommand, Commands
<1>3. ASSUME NEW run \in Runs
      PROVE  Spawn(run) \in Commands /\ Spawn(run).child /\ Spawn(run).run = run /\ Spawn(run).code = "none"
    BY <1>1, <1>2 DEF Spawn, Commands
<1> QED
    BY <1>2, <1>3

\* A step between two builds, or one that begins a build.
Apart == UNCHANGED <<project, build, cmd>>
Begins == project' = project /\ \E refresh \in BOOLEAN : StartBuild(refresh)
Between ==
    /\ build' = NoBuild \/ (BuildDone /\ build' = build)
    /\ cmd' \in {cmd, NoCommand} \cup {Spawn(run) : run \in Runs}
SandboxMove ==
    /\ UNCHANGED <<modules, key>>
    /\ project' \in Manifests /\ base' \in Manifests /\ saved' \in Manifests
    /\ Apart \/ Begins \/ Between

LEMMA NoBuildIs == NoBuild \in Builds /\ NoBuild.at = "none"
<1>1. "none" \in Stages /\ "none" \in Sets /\ FALSE \in BOOLEAN
    BY DEF Stages, Sets
<1> QED
    BY <1>1 DEF NoBuild, Builds

LEMMA SandboxMoves ==
    ASSUME InstallInv, SandboxMove
    PROVE  InstallInv'
<1> USE DEF InstallInv
<1>1. project' \in Manifests /\ base' \in Manifests /\ saved' \in Manifests /\ UNCHANGED <<modules, key>>
    BY DEF SandboxMove
<1>2. CASE Apart
  <2>1. SandboxTypes'
    BY <1>1, <1>2 DEF Apart, SandboxTypes
  <2>2. BuildInv'
    BY <1>1, <1>2 DEF Apart, BuildInv, BuildDone
  <2> QED
    BY <2>1, <2>2
<1>3. ASSUME project' = project, NEW refresh \in BOOLEAN, StartBuild(refresh)
      PROVE  InstallInv'
  <2>1. /\ build'.at = "probe" /\ build'.manifest = project.manifest
        /\ cmd' = NoCommand
    BY <1>3 DEF StartBuild
  <2>4. build' \in Builds
    <3>1. (refresh /\ TypeScript) \in BOOLEAN
      OBVIOUS
    <3>2. project.manifest \in Sets /\ "probe" \in Stages
      BY DEF SandboxTypes, Manifests, Stages
    <3> QED
      BY <1>3, <3>1, <3>2 DEF StartBuild, Builds
  <2>2. SandboxTypes'
    BY <1>1, <1>3, <2>1, <2>4, CommandsAre DEF SandboxTypes
  <2>3. BuildInv'
    BY <1>3, <2>1 DEF BuildInv
  <2> QED
    BY <2>2, <2>3
<1>4. CASE Between
  <2>1. build' \in Builds /\ build'.at \in {"none", "ok", "failed"}
    BY <1>4, NoBuildIs DEF Between, BuildDone, SandboxTypes
  <2>2. cmd' \in Commands /\ (cmd' = NoCommand \/ cmd'.child \/ cmd'.code \in Ends)
    BY <1>4, CommandsAre DEF Between, SandboxTypes
  <2>3. SandboxTypes'
    BY <1>1, <2>1, <2>2 DEF SandboxTypes
  <2>4. BuildInv'
    BY <2>1 DEF BuildInv, BuildDone
  <2> QED
    BY <2>3, <2>4
<1> QED
    BY <1>2, <1>3, <1>4 DEF SandboxMove, Begins

LEMMA NoProjectIs == NoProject \in Manifests
BY DEF NoProject, Manifests, Sets

\* The run's own steps.
LEMMA RunMoves ==
    ASSUME InstallInv, RunStep
    PROVE  SandboxMove
<1> USE NoProjectIs DEF SandboxMove
<1>1. SandboxTypes
    BY DEF InstallInv
<1>2. CASE Start \/ Sync \/ Rebuild \/ Deliver
    BY <1>1, <1>2 DEF Start, Sync, Rebuild, Deliver, Begins, Apart, Between, SandboxTypes, env, Ready
<1>3. CASE Built \/ Synced \/ Delivered
    BY <1>1, <1>3 DEF Built, Synced, Delivered, AttemptEnds, Between, SandboxTypes, env
<1>4. CASE Scanned \/ BeginAttempt \/ Checked \/ Publish \/ WriteDocument \/ CommitDocument
           \/ Reconcile \/ Repair \/ Flag
    BY <1>1, <1>4 DEF Scanned, BeginAttempt, Checked, Publish, WriteDocument, CommitDocument,
           Reconcile, Repair, Flag, Rescans, CommitArtifact, Apart, SandboxTypes, sandbox
<1>5. CASE Command \/ Judge \/ Prepared \/ Land
  <2>1. UNCHANGED env /\ UNCHANGED <<base, saved>> /\ (build' = NoBuild \/ (BuildDone /\ build' = build))
    BY <1>5 DEF Command, Judge, Prepared, Land, Ready, MayCall
  <2>2. cmd' = NoCommand \/ \E run \in Runs : cmd' = Spawn(run)
    BY <1>5 DEF Command, Judge, Prepared, Land, Runs
  <2> QED
    BY <1>1, <2>1, <2>2 DEF Between, SandboxTypes, env
<1>6. ASSUME NEW new \in Manifests, NEW kept, WriteProject(new, kept), BuildDone
      PROVE  UNCHANGED <<modules, key>> /\ project' \in Manifests /\ Between
    BY <1>6 DEF WriteProject, Between
<1>7. \A text \in Sets : [project EXCEPT !.manifest = text] \in Manifests
    BY <1>1 DEF SandboxTypes, Manifests
<1>8. ASSUME WriteManifest, BuildDone
      PROVE  UNCHANGED <<modules, key>> /\ project' \in Manifests /\ Between
  <2>1. (IF project.manifest = "first" THEN "second" ELSE "first") \in Sets
    BY DEF Sets
  <2> QED
    BY <1>6, <1>7, <1>8, <2>1 DEF WriteManifest
<1>9. CASE WriteFile
    BY <1>1, <1>8, <1>9 DEF WriteFile, MayCall, Ready, WriteSource, Apart, SandboxTypes, sandbox
<1>10. CASE ApplyPatch
    BY <1>1, <1>8, <1>10 DEF ApplyPatch, MayCall, Ready, SandboxTypes
<1>11. CASE PatchSecond
    BY <1>1, <1>11 DEF PatchSecond, WriteSource, Apart, SandboxTypes, sandbox
<1>12. CASE AddDependency
    BY <1>1, <1>8, <1>12 DEF AddDependency, MayCall, Ready, Begins, SandboxTypes, env
<1>13. CASE Rebuilt
  <2>1. [project EXCEPT !.manifest = saved.manifest] \in Manifests
    BY <1>1 DEF SandboxTypes, Manifests
  <2> QED
    BY <1>1, <1>6, <1>13, <2>1 DEF Rebuilt, PutBack, Ready, Apart, SandboxTypes, sandbox
<1>14. CASE Restore
    BY <1>1, <1>6, <1>14 DEF Restore, PutBack, Ready, Apart, SandboxTypes, sandbox
<1>15. CASE FailAttempt
    BY <1>1, <1>15 DEF FailAttempt, Ready, AttemptEnds, Between, SandboxTypes
<1> QED
    BY <1>2, <1>3, <1>4, <1>5, <1>9, <1>10, <1>11, <1>12, <1>13, <1>14, <1>15 DEF RunStep

\* An installation that succeeds leaves what the manifest names.
LEMMA FailsLeaves ==
    ASSUME Fails
    PROVE  /\ project' = project
           /\ cmd.run \notin Installs => UNCHANGED modules
BY DEF Fails, Installs

LEMMA SucceedsLeaves ==
    ASSUME Succeeds, project \in Manifests
    PROVE  /\ project' \in Manifests
           /\ cmd.run # "deps" => project'.manifest = project.manifest
           /\ cmd.run \in {"ci", "install"} => modules' = project.manifest
           /\ cmd.run \notin Installs => UNCHANGED modules
<1>1. CASE cmd.run = "ci"
  BY <1>1 DEF Succeeds, Installs
<1>2. CASE cmd.run = "install"
  <2>1. /\ modules' = project.manifest 
        /\ project' = [project EXCEPT !.lockfile = IF TypeScript THEN project.manifest ELSE @]
    BY <1>2 DEF Succeeds
  <2>2. project' \in Manifests /\ project'.manifest = project.manifest
    BY <2>1 DEF Manifests
  <2> QED
    BY <1>2, <2>1, <2>2 DEF Installs
<1>3. CASE cmd.run = "deps"
  <2>1. /\ modules' = "second" 
        /\ project' = IF TypeScript THEN [manifest |-> "second", lockfile |-> "second"] ELSE project
    BY <1>3 DEF Succeeds
  <2>2. [manifest |-> "second", lockfile |-> "second"] \in Manifests
    BY DEF Manifests, Sets
  <2> QED
    BY <1>3, <2>1, <2>2 DEF Installs
<1>4. CASE cmd.run \notin Installs
  BY <1>4 DEF Succeeds, Installs
<1> QED
  BY <1>1, <1>2, <1>3, <1>4 DEF Installs

\* What runs in the environment ends, or goes on.
LEMMA CommandInstalls ==
    ASSUME InstallInv, UNCHANGED <<base, saved>>,
           \/ ProgressCheck \/ Progress \/ TimeIsUp \/ LetGo \/ Close
           \/ \E code \in {"exit ok", "exit failed", "exit stale"} : ChildExits(code)
    PROVE  InstallInv'
<1> USE DEF InstallInv
<1>1. UNCHANGED <<build, key, base, saved>> /\ project \in Manifests
    BY DEF ProgressCheck, Progress, TimeIsUp, LetGo, Close, ChildExits, env, SandboxTypes
<1>2. Fails => /\ project' = project
               /\ cmd.run \notin Installs => UNCHANGED modules
    BY FailsLeaves
<1>3. Succeeds => /\ project' \in Manifests
                  /\ cmd.run # "deps" => project'.manifest = project.manifest
                  /\ cmd.run \in {"ci", "install"} => modules' = project.manifest
                  /\ cmd.run \notin Installs => UNCHANGED modules
    BY <1>1, SucceedsLeaves
\* the child goes on, is killed, ends, or is reported
<1>4. \/ /\ (cmd.child \/ cmd.held) /\ UNCHANGED <<project, modules>>
         /\ cmd' \in Commands /\ cmd'.run = cmd.run /\ cmd'.code = cmd.code /\ cmd'.child = cmd.child
      \/ /\ cmd.child /\ Fails
         /\ cmd' \in Commands /\ cmd'.run = cmd.run /\ cmd'.code = "exit failed"
      \/ /\ cmd.child /\ UNCHANGED <<project, modules>>
         /\ cmd' \in Commands /\ cmd'.run = cmd.run /\ cmd'.code = "exit stale"
      \/ /\ cmd.child /\ Succeeds
         /\ cmd' \in Commands /\ cmd'.run = cmd.run /\ cmd'.code = "exit ok"
      \/ Close
  <2>1. /\ cmd.idle + 1 \in Nat /\ cmd.grown + 1 \in Nat
        /\ \A idle \in Nat :
               LET c == [cmd EXCEPT !.idle = idle]
               IN  c \in Commands /\ c.run = cmd.run /\ c.code = cmd.code /\ c.child = cmd.child
        /\ \A grown \in Nat :
               LET c == [cmd EXCEPT !.idle = 0, !.grown = grown]
               IN  c \in Commands /\ c.run = cmd.run /\ c.code = cmd.code /\ c.child = cmd.child
    <3>1. cmd \in Commands
      BY DEF SandboxTypes
    <3>2. cmd.idle + 1 \in Nat /\ cmd.grown + 1 \in Nat
      <4>1. PICK i \in Nat, g \in Nat : i = cmd.idle /\ g = cmd.grown
        BY <3>1 DEF Commands
      <4>2. i + 1 \in Nat /\ g + 1 \in Nat
        BY OneOn
      <4> QED
        BY <4>1, <4>2, Zenon
    <3>3. \A c \in Commands, idle \in Nat :
              LET d == [c EXCEPT !.idle = idle]
              IN  d \in Commands /\ d.run = c.run /\ d.code = c.code /\ d.child = c.child
      BY DEF Commands
    <3>4. \A c \in Commands, grown \in Nat :
              LET d == [c EXCEPT !.grown = grown]
              IN  d \in Commands /\ d.run = c.run /\ d.code = c.code /\ d.child = c.child
      BY DEF Commands
    <3>5. PICK c \in Commands :
              /\ c = [cmd EXCEPT !.idle = 0]
              /\ c.run = cmd.run /\ c.code = cmd.code /\ c.child = cmd.child
      BY <3>1, <3>3
    <3> QED
      BY <3>1, <3>2, <3>3, <3>4, <3>5
  <2>2. \A held \in BOOLEAN, code \in Ends :
            LET c == [cmd EXCEPT !.child = FALSE, !.held = held, !.code = code]
            IN  c \in Commands /\ c.run = cmd.run /\ c.code = code
    BY DEF SandboxTypes, Commands
  <2>3. {"exit ok", "exit failed", "exit stale"} \subseteq Ends
    BY DEF Ends
  <2>4. ASSUME cmd.child, Kill
        PROVE  /\ cmd.child /\ Fails
               /\ cmd' \in Commands /\ cmd'.run = cmd.run /\ cmd'.code = "exit failed"
    <3>1. Fails /\ \E held \in BOOLEAN : cmd' = [cmd EXCEPT !.child = FALSE, !.held = held, !.code = "exit failed"]
      BY <2>4 DEF Kill
    <3>2. PICK held \in BOOLEAN : cmd' = [cmd EXCEPT !.child = FALSE, !.held = held, !.code = "exit failed"]
      BY <3>1
    <3>3. "exit failed" \in Ends
      BY <2>3
    <3>4. cmd' \in Commands /\ cmd'.run = cmd.run /\ cmd'.code = "exit failed"
      BY <2>2, <3>2, <3>3
    <3> QED
      BY <2>4, <3>1, <3>4
  <2>5. CASE ProgressCheck
    <3>1. /\ cmd.child
          /\ Kill \/ (cmd' = [cmd EXCEPT !.idle = cmd.idle + 1] /\ UNCHANGED <<project, modules>>)
      BY <2>5 DEF ProgressCheck
    <3>2. CASE cmd' = [cmd EXCEPT !.idle = cmd.idle + 1] /\ UNCHANGED <<project, modules>>
      BY <2>1, <3>1, <3>2
    <3>3. CASE Kill
      BY <2>4, <3>1, <3>3
    <3> QED
      BY <3>1, <3>2, <3>3
  <2>6. CASE Progress
    <3>1. /\ cmd' = [cmd EXCEPT !.idle = 0, !.grown = cmd.grown + 1]
          /\ cmd.child /\ UNCHANGED env
      BY <2>6 DEF Progress
    <3>2. cmd' \in Commands /\ cmd'.run = cmd.run /\ cmd'.code = cmd.code /\ cmd'.child = cmd.child
      BY <2>1, <3>1
    <3> QED
      BY <3>1, <3>2 DEF env
  <2>7. CASE TimeIsUp
    BY <2>4, <2>7 DEF TimeIsUp
  <2>8. CASE LetGo
    <3>1. cmd' = [cmd EXCEPT !.held = FALSE] /\ cmd.held /\ UNCHANGED env
      BY <2>8 DEF LetGo
    <3>2. cmd' \in Commands /\ cmd'.run = cmd.run /\ cmd'.code = cmd.code /\ cmd'.child = cmd.child
      BY <3>1 DEF SandboxTypes, Commands
    <3> QED
      BY <3>1, <3>2 DEF env
  <2>9. ASSUME NEW code \in {"exit ok", "exit failed", "exit stale"}, ChildExits(code)
        PROVE  /\ cmd.child
               /\ \/ code = "exit ok" /\ Succeeds
                  \/ code = "exit failed" /\ Fails
                  \/ code = "exit stale" /\ UNCHANGED <<project, modules>>
               /\ cmd' \in Commands /\ cmd'.run = cmd.run /\ cmd'.code = code
    <3>1. PICK held \in BOOLEAN : cmd' = [cmd EXCEPT !.child = FALSE, !.held = held, !.code = code]
      BY <2>9 DEF ChildExits
    <3>2. cmd' \in Commands /\ cmd'.run = cmd.run /\ cmd'.code = code
      BY <2>2, <2>3, <3>1
    <3>3. /\ cmd.child
          /\ \/ code = "exit ok" /\ Succeeds
             \/ code = "exit failed" /\ Fails
             \/ code = "exit stale" /\ UNCHANGED <<project, modules>>
      BY <2>9 DEF ChildExits
    <3> QED
      BY <3>2, <3>3
  <2>10. CASE \E code \in {"exit ok", "exit failed", "exit stale"} : ChildExits(code)
    BY <2>9, <2>10
  <2> QED
    BY <2>5, <2>6, <2>7, <2>8, <2>10
<1>5. /\ cmd.child \/ cmd.held \/ cmd.run # "none" => build.at \notin {"probe", "seal"}
      /\ cmd.run # "none" => cmd.child \/ cmd.code \in Ends
    BY CommandsAre DEF SandboxTypes, BuildInv
<1>6. ASSUME cmd.child, Fails, cmd' \in Commands, cmd'.run = cmd.run, cmd'.code = "exit failed"
      PROVE  InstallInv'
  <2>1. project' = project
    BY <1>2, <1>6
  <2>2. SandboxTypes'
    BY <1>1, <1>6, <2>1 DEF SandboxTypes, Ends
  <2>3. BuildInv'
    BY <1>1, <1>2, <1>5, <1>6 DEF BuildInv, BuildDone, Installs
  <2> QED
    BY <2>2, <2>3
<1>7. ASSUME cmd.child, Succeeds, cmd' \in Commands, cmd'.run = cmd.run, cmd'.code = "exit ok"
      PROVE  InstallInv'
    BY <1>1, <1>3, <1>5, <1>7 DEF SandboxTypes, BuildInv, BuildDone, Ends, Installs, Builds, Stages
<1>8. ASSUME cmd.child, UNCHANGED <<project, modules>>,
             cmd' \in Commands, cmd'.run = cmd.run, cmd'.code = "exit stale"
      PROVE  InstallInv'
    BY <1>1, <1>5, <1>8 DEF SandboxTypes, BuildInv, BuildDone, Ends
<1>9. ASSUME cmd.child \/ cmd.held, UNCHANGED <<project, modules>>,
             cmd' \in Commands, cmd'.run = cmd.run, cmd'.code = cmd.code, cmd'.child = cmd.child
      PROVE  InstallInv'
  <2>1. SandboxTypes'
    BY <1>1, <1>9, CommandsAre DEF SandboxTypes
  <2>2. BuildInv'
    BY <1>1, <1>5, <1>9 DEF BuildInv, BuildDone
  <2> QED
    BY <2>1, <2>2
<1>10. CASE Close
  <2>1. /\ UNCHANGED <<project, modules>> /\ ~ cmd.child
        /\ cmd.run # "none" /\ cmd.code \notin {"ok", "failed", "stale"}
        /\ cmd' = IF cmd.run \in ByTools THEN NoCommand
                  ELSE [NoCommand EXCEPT !.run = cmd.run, !.code = Outcome]
    BY <1>10 DEF Close, Running, env
  <2>2. cmd.code \in {"exit ok", "exit failed", "exit stale"}
    BY <1>5, <2>1 DEF Ends
  <2>3. Outcome \in {"ok", "failed", "stale"} /\ (Outcome = "ok" => cmd.code = "exit ok")
    BY <2>2 DEF Outcome
  <2>4. ASSUME cmd.run \notin ByTools
        PROVE  cmd' \in Commands /\ cmd'.run = cmd.run /\ cmd'.code = Outcome
    <3>1. Outcome \in Ends /\ cmd.run \in Runs
      BY <2>3 DEF Ends, SandboxTypes, Commands
    <3> HIDE DEF Outcome
    <3> QED
      BY <2>1, <2>4, <3>1, CommandsAre DEF Commands
  <2>5. cmd' \in Commands /\ (cmd' = NoCommand \/ cmd'.code \in Ends)
    BY <2>1, <2>3, <2>4, CommandsAre DEF Ends
  <2>6. SandboxTypes'
    BY <1>1, <2>1, <2>5 DEF SandboxTypes
  <2>7. build.at \in {"install", "validate"} => cmd.run \notin ByTools
    BY DEF BuildInv, ByTools
  <2>8. BuildInv'
    BY <1>1, <1>5, <2>1, <2>3, <2>4, <2>7 DEF BuildInv, BuildDone
  <2> QED
    BY <2>6, <2>8
<1> QED
    BY <1>4, <1>6, <1>7, <1>8, <1>9, <1>10

\* A build goes on.  It is sealed with the manifest it began with.
LEMMA BuildInstalls ==
    ASSUME InstallInv, UNCHANGED <<base, saved>>, BuildStep
    PROVE  InstallInv'
<1> USE DEF InstallInv
<1>1. project' = project /\ modules' = modules
    BY DEF BuildStep, Probe, Retry, Installed, Validated, Seal, BuildFails, env
<1>2. \A at \in Stages : LET b == [build EXCEPT !.at = at]
                         IN  b \in Builds /\ b.at = at /\ b.manifest = build.manifest
    BY DEF SandboxTypes, Builds
<1>3. \A at \in Stages : [NoBuild EXCEPT !.at = at] \in Builds /\ [NoBuild EXCEPT !.at = at].at = at
    BY NoBuildIs DEF Builds
<1>4. {"ok", "failed", "install", "validate", "seal"} \subseteq Stages
      /\ {"ci", "install", "validate"} \subseteq Runs
    BY DEF Stages, Runs
<1>5. ASSUME build' \in Builds, build'.at \in {"ok", "failed"}, cmd' \in {cmd, NoCommand}, UNCHANGED key
      PROVE  InstallInv'
    BY <1>1, <1>5, CommandsAre DEF SandboxTypes, BuildInv, BuildDone
<1>6. ASSUME build.at \in {"probe", "install"}, NEW run \in {"ci", "install"}, cmd' = Spawn(run),
             build' \in Builds, build'.at = "install", build'.manifest = build.manifest, UNCHANGED key
      PROVE  InstallInv'
  <2>1. cmd' \in Commands /\ cmd'.child /\ cmd'.run = run /\ cmd'.code = "none"
    BY <1>4, <1>6, CommandsAre
  <2> QED
    BY <1>1, <1>6, <2>1 DEF SandboxTypes, BuildInv, BuildDone
<1>7. CASE Probe
  <2>1. CASE build' = [NoBuild EXCEPT !.at = "ok"] \/ build' = [NoBuild EXCEPT !.at = "failed"]
    <3>1. cmd' \in {cmd, NoCommand} /\ UNCHANGED key
      BY <1>7, <2>1, <1>2, <1>3, <1>4 DEF Probe, env
    <3> QED
      BY <1>3, <1>4, <1>5, <2>1, <3>1
  <2>2. CASE /\ build' = [build EXCEPT !.at = "install"]
             /\ cmd' = Spawn(IF TypeScript /\ project.lockfile # "none" /\ ~ build.refresh THEN "ci" ELSE "install")
    BY <1>2, <1>4, <1>6, <1>7, <2>2 DEF Probe, env
  <2> QED
    BY <1>7, <2>1, <2>2 DEF Probe
<1>8. CASE Retry
  <2>1. build.at = "install" /\ cmd' = Spawn("install") /\ build' = build /\ UNCHANGED key
    BY <1>8 DEF Retry, env
  <2> QED
    BY <1>6, <2>1 DEF SandboxTypes
<1>9. CASE Installed
  <2>1. /\ build.at = "install" /\ cmd.code = "ok" /\ UNCHANGED key
        /\ \/ build' = [build EXCEPT !.at = "validate"] /\ cmd' = Spawn("validate")
           \/ build' = [build EXCEPT !.at = "seal"] /\ cmd' = NoCommand
    BY <1>9 DEF Installed, Ended, env
  <2>2. modules = build.manifest /\ build.manifest = project.manifest
    BY <2>1 DEF BuildInv, BuildDone
  <2>3. /\ build' \in Builds /\ build'.manifest = build.manifest
        /\ cmd' \in Commands /\ (cmd' = NoCommand \/ cmd'.child)
        /\ \/ build'.at = "validate" /\ cmd'.run = "validate"
           \/ build'.at = "seal" /\ cmd' = NoCommand
    <3>1. CASE build' = [build EXCEPT !.at = "validate"] /\ cmd' = Spawn("validate")
      <4>1. "validate" \in Stages /\ "validate" \in Runs
        BY <1>4
      <4> QED
        BY <1>2, <3>1, <4>1, CommandsAre
    <3>2. CASE build' = [build EXCEPT !.at = "seal"] /\ cmd' = NoCommand
      <4>1. "seal" \in Stages
        BY <1>4
      <4> QED
        BY <1>2, <3>2, <4>1, CommandsAre
    <3> QED
      BY <2>1, <3>1, <3>2
  <2> QED
    BY <1>1, <2>1, <2>2, <2>3 DEF SandboxTypes, BuildInv, BuildDone
<1>10. CASE Validated
  <2>1. /\ build.at = "validate" /\ UNCHANGED key
        /\ build' = [build EXCEPT !.at = "seal"] /\ cmd' = NoCommand
    BY <1>10 DEF Validated, env
  <2>2. build' \in Builds /\ build'.manifest = build.manifest /\ build'.at = "seal"
    BY <1>2, <1>4, <2>1
  <2> QED
    BY <1>1, <2>1, <2>2, CommandsAre DEF SandboxTypes, BuildInv, BuildDone
<1>11. CASE Seal
  <2>1. /\ key' = Signature(build.manifest, project.lockfile) /\ build.at = "seal"
        /\ build' = [NoBuild EXCEPT !.at = "ok"] /\ cmd' = cmd
    BY <1>11 DEF Seal
  <2>2. build' \in Builds /\ build'.at = "ok"
    BY <1>3, <1>4, <2>1
  <2>3. key'[1] = build.manifest /\ modules = build.manifest
    BY <2>1 DEF Signature, BuildInv
  <2> QED
    BY <1>1, <2>1, <2>2, <2>3 DEF SandboxTypes, BuildInv, BuildDone
<1>12. CASE BuildFails
  <2>1. build' = [NoBuild EXCEPT !.at = "failed"] /\ cmd' = NoCommand /\ UNCHANGED key
    BY <1>12 DEF BuildFails, env
  <2> QED
    BY <1>3, <1>4, <1>5, <2>1
<1> QED
    BY <1>7, <1>8, <1>9, <1>10, <1>11, <1>12 DEF BuildStep

\* A process that ends leaves no build.
LEMMA RestartInstalls ==
    ASSUME InstallInv, Restart
    PROVE  InstallInv' /\ key' = key
<1> USE DEF InstallInv
<1>1. /\ build' = NoBuild /\ cmd' = NoCommand /\ base' = NoProject /\ saved' = NoProject /\ key' = key
      /\ (cmd.child /\ (Succeeds \/ Fails)) \/ UNCHANGED <<project, modules>>
    BY DEF Restart
<1>2. project' \in Manifests
    BY <1>1, SucceedsLeaves, FailsLeaves DEF SandboxTypes
<1>3. SandboxTypes'
    BY <1>1, <1>2, CommandsAre, NoBuildIs, NoProjectIs DEF SandboxTypes
<1>4. BuildInv'
    BY <1>1, NoBuildIs DEF BuildInv, BuildDone
<1> QED
    BY <1>1, <1>3, <1>4

LEMMA InstallSteps ==
    ASSUME InstallInv, [WNext]_wvars
    PROVE  InstallInv'
<1>1. CASE UNCHANGED <<sandbox, base, saved>>
  <2>1. SandboxMove
    BY <1>1 DEF SandboxMove, Apart, sandbox, InstallInv, SandboxTypes
  <2> QED
    BY <2>1, SandboxMoves
<1>2. CASE RunStep
    BY <1>2, RunMoves, SandboxMoves
<1>3. CASE SandboxStep
    BY <1>3, CommandInstalls, BuildInstalls DEF SandboxStep, desk
<1>4. CASE Restart
    BY <1>4, RestartInstalls
<1>5. CASE UNCHANGED wvars \/ ScanThrows \/ Call \/ HasLeft \/ (\E w \in Writers : Tree(w))
           \/ (Continue /\ UNCHANGED <<sandbox, desk>>) \/ Stray
    BY <1>1, <1>5 DEF wvars, ScanThrows, Call, HasLeft, Tree, Stray, desk
<1> QED
    BY <1>2, <1>3, <1>4, <1>5 DEF WNext

LEMMA InstallsAtFirst == WInit => InstallInv
<1> SUFFICES ASSUME WInit PROVE InstallInv
    OBVIOUS
<1>1. /\ build = NoBuild /\ cmd = NoCommand /\ base = NoProject /\ saved = NoProject /\ key = <<>>
      /\ project = NoProject \/ project = [NoProject EXCEPT !.manifest = "first"]
    BY DEF WInit, SandboxInit
<1>2. project \in Manifests
    BY <1>1 DEF NoProject, Manifests, Sets
<1>3. SandboxTypes
    BY <1>1, <1>2, CommandsAre, NoBuildIs, NoProjectIs DEF SandboxTypes
<1> QED
    BY <1>1, <1>3, NoBuildIs DEF InstallInv, BuildInv, BuildDone

\* Nothing but the seal of a build touches the signature.
LEMMA SealSteps ==
    ASSUME InstallInv, [WNext]_wvars, key' # key
    PROVE  modules' = project'.manifest /\ key' = Signature(project'.manifest, project'.lockfile)
<1>1. CASE RunStep
    BY <1>1, RunMoves DEF SandboxMove
<1>2. CASE Restart
    BY <1>2, RestartInstalls
<1>3. CASE UNCHANGED wvars \/ ScanThrows \/ Call \/ HasLeft \/ (\E w \in Writers : Tree(w))
           \/ (Continue /\ UNCHANGED <<sandbox, desk>>) \/ Stray
    BY <1>3 DEF wvars, ScanThrows, Call, HasLeft, Tree, Stray, sandbox
<1>4. CASE SandboxStep
  <2>1. BuildStep
    BY <1>4 DEF SandboxStep, ProgressCheck, Progress, TimeIsUp, LetGo, Close, ChildExits, env
  <2>2. build.at = "seal" /\ key' = Signature(build.manifest, project.lockfile) /\ UNCHANGED <<project, modules>>
    BY <2>1 DEF BuildStep, Probe, Retry, Installed, Validated, Seal, BuildFails, env
  <2>3. modules = build.manifest /\ build.manifest = project.manifest
    BY <2>2 DEF InstallInv, BuildInv, BuildDone
  <2> QED
    BY <2>2, <2>3
<1> QED
    BY <1>1, <1>2, <1>3, <1>4 DEF WNext

\* What a signature on file was written over is what it names, in its place and whole:
\* whether the lockfile was refused, the packages were installed anew or validated, and
\* whatever was killed or ended with the process before.  It does not say that a later build
\* which goes by the signature finds it so still.  (build, installDeps and the signature file
\* of subprocess.ts and docker.ts.)
THEOREM SealsAreTrue == WSpec => SealIsTrue
<1>1. InstallInv /\ [WNext]_wvars =>
          [key' # key => /\ modules' = project'.manifest
                         /\ key' = Signature(project'.manifest, project'.lockfile)]_wvars
    BY SealSteps
<1> QED
    BY <1>1, InstallsAtFirst, InstallSteps, PTL DEF WSpec, SealIsTrue

-----------------------------------------------------------------------------
(* What the tree says it is the tree of.                                    *)

\* Nobody else is at the index, but while the run is about to scan it for the first time.
PeersQuiet == flow \notin {"scanned", "ended"} => \A w \in Peers : Free(w)

\* A file that HEAD has not, and that did not go astray, is one the run is telling of, or
\* the tree is marked or about to be, or it does not say it is HEAD's.  While it is being
\* scanned to say so there is no such file.
Stamped ==
    Going =>
        /\ \A f \in Files \ (committed \cup astray) :
               \/ f = job[Run].file \/ tree.of # "head" \/ tree.dirty
               \/ At(Run, "dirty") /\ job[Run].file = None
        /\ At(Run, "scan") /\ job[Run].of = "head" => Files \ committed \subseteq astray

StampInv == PeersQuiet /\ Stamped

LEMMA StampIs ==
    ASSUME JobsOK, StampInv
    PROVE  Provenance
<1> SUFFICES ASSUME Going, Free(Run), tree.of = "head", ~ tree.dirty, NEW f \in Files \ (committed \cup astray)
             PROVE  FALSE
    BY DEF Provenance
<1>1. job[Run].file = None /\ f # None
    BY FilesThereAre, FilesAssumption DEF JobsOK, Free, At
<1> QED
    BY <1>1 DEF StampInv, Stamped, Free, At

\* The run goes on from where it is, and of the jobs it only changes its own.
LEMMA RunStepIs ==
    ASSUME JobsOK, RunStep
    PROVE  /\ flow # "ended" /\ flow # "released"
           /\ flow = "scanned" => Scanned
           /\ \A w \in Peers : job'[w].at = job[w].at
<1> USE FilesThereAre DEF Ready, MayCall
<1>1. \A gone : \A w \in Writers : Unseen(gone)[w].at = job[w].at
    BY Forgotten
<1>2. \A gone : Untold(gone) => \A w \in Peers : job'[w].at = job[w].at
    BY <1>1 DEF Untold, Peers
<1>3. \A at, of : Tell(at, of) => \A w \in Peers : job'[w].at = job[w].at
    BY DEF Tell, Peers, JobsOK
<1>4. \A f, kept : WriteWorkspaceFile(Run, f, kept) => \A w \in Peers : job'[w].at = job[w].at
  <2> SUFFICES ASSUME NEW f, NEW kept, WriteWorkspaceFile(Run, f, kept), NEW w \in Peers
               PROVE  job'[w].at = job[w].at
    OBVIOUS
  <2>1. job' = [Unseen({f}) EXCEPT ![Run] = Job("record", f, None)] /\ w \in Writers \ {Run}
    BY DEF WriteWorkspaceFile, Peers
  <2>2. job'[w] = Unseen({f})[w]
    BY <2>1 DEF Unseen
  <2> QED
    BY <1>1, <2>1, <2>2
<1>5. CASE Start \/ Sync \/ Synced \/ BeginAttempt \/ Rebuild \/ Command \/ Deliver \/ Delivered
           \/ Judge \/ Prepared \/ Checked
    BY <1>5 DEF Start, Sync, Synced, BeginAttempt, Rebuild, Command, Deliver, Delivered,
           Judge, Prepared, Checked, index, files
<1>6. CASE Built \/ Scanned \/ Publish \/ CommitDocument \/ Reconcile \/ Repair \/ Flag
    BY <1>3, <1>6 DEF Built, Scanned, Publish, CommitDocument, Reconcile, Repair, Flag, Rescans, CommitArtifact
<1>7. CASE WriteFile \/ ApplyPatch \/ PatchSecond \/ AddDependency \/ WriteDocument
    BY <1>2, <1>4, <1>7 DEF WriteFile, ApplyPatch, PatchSecond, AddDependency, WriteDocument,
                WriteSource, WriteManifest, WriteProject, index
<1>8. CASE Rebuilt \/ Restore
    BY <1>4, <1>8 DEF Rebuilt, Restore, PutBack, WriteProject, index
<1>9. CASE FailAttempt
    BY <1>1, <1>9 DEF FailAttempt, Peers
<1>10. CASE Land
  <2>1. UNCHANGED job \/ job' = [Unseen({"source"}) EXCEPT ![Run] = Job("scan", None, "head")]
    BY <1>10 DEF Land
  <2>2. \A w \in Peers : job'[w] = job[w] \/ job'[w] = Unseen({"source"})[w]
    BY <2>1 DEF Unseen, Peers
  <2> QED
    BY <1>1, <1>10, <2>2 DEF Land, Peers
<1> QED
    BY <1>5, <1>6, <1>7, <1>8, <1>9, <1>10 DEF RunStep

\* Beside the run, the jobs are gone on with, unless the process ends or the index is open.
LEMMA BesideStepIs ==
    ASSUME JobsOK, [WNext]_wvars, ~ RunStep, ~ Restart, ~ Call
    PROVE  /\ flow' = flow \/ flow' = "ended"
           /\ \A w \in Writers : Free(w) => Free(w)'
<1> USE FilesThereAre DEF Free, At
<1>1. \A w \in Writers : Done(w) => \A v \in Writers : Free(v) => Free(v)'
    BY DEF Done, Nothing, Job, JobsOK
<1>2. CASE ScanThrows
    BY <1>1, <1>2 DEF ScanThrows, Throws, GoTo
<1>3. CASE SandboxStep \/ Stray
  <2>1. flow' = flow /\ (UNCHANGED index \/ Untold({"manifest"}) \/ Untold({"source"}))
    BY <1>3 DEF SandboxStep, Stray, desk
  <2>2. \A gone : Untold(gone) => \A w \in Writers : job'[w].at = job[w].at
    BY Forgotten DEF Untold
  <2> QED
    BY <2>1, <2>2 DEF index
<1>4. CASE HasLeft \/ (Continue /\ UNCHANGED <<sandbox, desk>>) \/ UNCHANGED wvars
    BY <1>4 DEF HasLeft, HasRead, Continue, desk, wvars, index
<1>5. ASSUME NEW w \in Writers, Tree(w)
      PROVE  flow' = flow /\ \A v \in Writers : Free(v) => Free(v)'
  <2>1. CASE RecordFails(w) \/ Walk(w)
    BY <1>5, <2>1 DEF RecordFails, Walk, Seen, Tree, desk, JobsOK
  <2>2. CASE Acquire(w) \/ Record(w) \/ MarkDirty(w) \/ MarkDirtyFails(w) \/ Rescan(w)
    BY <1>1, <1>5, <2>2 DEF Acquire, Record, MarkDirty, MarkDirtyFails, Rescan, Tree, desk
  <2> QED
    BY <1>5, <2>1, <2>2 DEF Tree, Proceeds
<1> QED
    BY <1>2, <1>3, <1>4, <1>5 DEF WNext

LEMMA PeersStep ==
    ASSUME JobsOK, PeersQuiet, [WNext]_wvars
    PROVE  PeersQuiet'
<1> USE DEF PeersQuiet
<1>1. CASE RunStep
  <2>1. Scanned => \A w \in Peers : Free(w)
    BY DEF Scanned, Alone, Peers, Calls
  <2>2. \A w \in Peers : Free(w)
    BY <1>1, <2>1, RunStepIs
  <2> QED
    BY <1>1, <2>2, RunStepIs DEF Free, At
<1>2. CASE Restart
    BY <1>2 DEF Restart, Peers, Free, At, Nothing, Job
<1>3. CASE Call
    BY <1>3 DEF Call, Open, desk
<1>4. CASE ~ RunStep /\ ~ Restart /\ ~ Call
    BY <1>4, BesideStepIs DEF Peers
<1> QED
    BY <1>1, <1>2, <1>3, <1>4

\* What a step may do to files, tree and jobs without saying more of HEAD than there is.
LEMMA UntoldStamp ==
    ASSUME JobsOK, Going, Stamped, NEW gone, Untold(gone)
    PROVE  Stamped'
<1>1. /\ committed' = committed \ gone /\ astray' = astray \cup gone /\ tree' = tree
      /\ \A w \in Writers : /\ job'[w].at = job[w].at /\ job'[w].file = job[w].file
                            /\ job'[w].of = job[w].of
    BY Forgotten DEF Untold, Change
<1> QED
    BY <1>1, FilesThereAre DEF Stamped, At

LEMMA WriteStamp ==
    ASSUME JobsOK, Going, Free(Run), Stamped, NEW f \in Files, NEW kept, WriteWorkspaceFile(Run, f, kept)
    PROVE  Stamped'
<1> USE FilesThereAre, FilesAssumption
<1>1. /\ committed' = (committed \ {f}) \cup kept /\ astray' = astray /\ tree' = tree
      /\ job' = [Unseen({f}) EXCEPT ![Run] = Job("record", f, None)]
    BY DEF WriteWorkspaceFile, Change
<1>2. job'[Run].at = "record" /\ job'[Run].file = f
    BY <1>1 DEF Unseen, Job
<1>3. job[Run].file = None /\ ~ At(Run, "dirty")
    BY DEF JobsOK, Free, At
<1> QED
    BY <1>1, <1>2, <1>3 DEF Stamped, At

LEMMA SameStamp ==
    ASSUME Going, Stamped, UNCHANGED <<committed, astray, tree, job>>
    PROVE  Stamped'
BY DEF Stamped, At

\* The run's own steps: it looks for what is uncommitted when it has scanned, and after that
\* it is telling nobody of anything when it takes a step.
LEMMA RunStamps ==
    ASSUME JobsOK, Stamped, RunStep, Going'
    PROVE  Stamped'
<1> USE FilesThereAre, FilesAssumption
<1>1. ASSUME Free(Run)
      PROVE  job[Run].file = None /\ ~ At(Run, "dirty") /\ ~ At(Run, "scan")
    BY <1>1 DEF JobsOK, Free, At
<1>2. \A at, of : Tell(at, of) => job'[Run].at = at /\ job'[Run].file = None /\ job'[Run].of = of
    BY DEF Tell, Job, JobsOK
<1>3. Snapshot => tree'.of # "head"
    BY DEF Snapshot, JobsOK
<1>4. CASE Start \/ Built
    BY <1>4 DEF Start, Built, GoTo, Going
<1>5. CASE Scanned
  <2>1. CASE committed = Files
    <3>1. committed' = Files /\ job' = job /\ Free(Run)
      BY <1>5, <2>1 DEF Scanned, Ready
    <3> QED
      BY <3>1, <1>1 DEF Stamped, At
  <2>2. CASE committed # Files
    BY <1>2, <1>5, <2>2 DEF Scanned, Stamped, At
  <2> QED
    BY <2>1, <2>2
<1>6. CASE ~ (Start \/ Built \/ Scanned)
  <2>1. Free(Run) /\ Going
    BY <1>6 DEF RunStep, BeginAttempt, WriteFile, ApplyPatch, PatchSecond, Sync,
           Synced, AddDependency, Rebuild, Rebuilt, Restore, Command, Deliver, Delivered, FailAttempt, Judge,
           Prepared, Checked, Land, Publish, WriteDocument, CommitDocument, Reconcile, Repair, Flag, Rescans,
           MayCall, Ready, Going
  <2>2. /\ \A f \in Files \ (committed \cup astray) : tree.of # "head" \/ tree.dirty
        /\ job[Run].file = None /\ ~ At(Run, "dirty") /\ ~ At(Run, "scan")
    BY <1>1, <2>1 DEF Stamped
  <2>3. CASE Sync \/ Synced \/ Rebuild \/ Command \/ Deliver \/ Judge \/ Prepared \/ Checked
    BY <2>1, <2>3, SameStamp DEF Sync, Synced, Rebuild, Command, Deliver, Judge, Prepared, Checked, index, files
  <2>4. CASE BeginAttempt \/ Delivered
    <3>1. job' = job /\ (Snapshot \/ UNCHANGED <<committed, astray, tree>>)
      BY <2>4 DEF BeginAttempt, Delivered
    <3> QED
      BY <1>3, <2>1, <2>2, <3>1, SameStamp DEF Stamped, At
  <2>5. CASE CommitDocument \/ Repair
    BY <1>2, <1>3, <2>5 DEF CommitDocument, Repair, CommitArtifact, Stamped, At
  <2>6. CASE Publish \/ Reconcile \/ Flag
    <3>1. UNCHANGED <<committed, astray, tree>>
      BY <2>6 DEF Publish, Reconcile, Flag, Rescans, files
    <3>2. Tell("scan", None) \/ Tell("scan", "short") \/ Tell("dirty", None)
      BY <2>6 DEF Publish, Reconcile, Flag, Rescans
    <3>3. CASE Tell("dirty", None)
      BY <1>2, <3>3 DEF Stamped, At
    <3>4. CASE Tell("scan", "short")
      BY <1>2, <2>2, <3>1, <3>4 DEF Stamped, At
    <3>5. CASE Publish
      BY <1>2, <2>2, <3>1, <3>5 DEF Publish, Rescans, Stamped, At
    <3> QED
      BY <2>6, <3>2, <3>3, <3>4, <3>5 DEF Publish, Reconcile, Flag, Rescans
  <2>7. CASE WriteFile \/ ApplyPatch \/ PatchSecond \/ AddDependency \/ WriteDocument \/ Rebuilt \/ Restore
    <3>1. \/ UNCHANGED index
          \/ \E f \in {"manifest", "source"}, kept \in SUBSET {"manifest"} : WriteWorkspaceFile(Run, f, kept)
          \/ Untold({"source"})
      <4>1. CASE WriteFile \/ ApplyPatch \/ PatchSecond \/ AddDependency \/ WriteDocument
        BY <4>1 DEF WriteFile, ApplyPatch, PatchSecond, AddDependency, WriteDocument,
                    WriteSource, WriteManifest, WriteProject
      <4>2. \A old : PutBack(old) =>
                \E kept \in SUBSET {"manifest"} : WriteWorkspaceFile(Run, "manifest", kept)
        BY DEF PutBack, WriteProject
      <4>3. CASE Rebuilt \/ Restore
        BY <4>2, <4>3 DEF Rebuilt, Restore
      <4> QED
        BY <2>7, <4>1, <4>3
    <3> QED
      BY <2>1, <3>1, SameStamp, UntoldStamp, WriteStamp DEF index, files
  <2>8. CASE FailAttempt
    <3>1. /\ committed' = Files
          /\ \A w \in Writers : job'[w].at = job[w].at
      BY <2>8, Forgotten DEF FailAttempt
    <3> QED
      BY <2>2, <3>1 DEF Stamped, At
  <2>9. CASE Land
    <3>1. CASE committed = Files
      <4>1. committed' = Files /\ tree'.of # "head"
        BY <2>9, <3>1 DEF Land, JobsOK
      <4> QED
        BY <4>1 DEF Stamped
    <3>2. CASE committed # Files
      BY <2>1, <2>9, <3>2, SameStamp DEF Land
    <3> QED
      BY <3>1, <3>2
  <2> QED
    BY <1>6, <2>3, <2>4, <2>5, <2>6, <2>7, <2>8, <2>9 DEF RunStep
<1> QED
    BY <1>4, <1>5, <1>6

\* Beside the run, only the run's own job is gone on with while it is going.
LEMMA StampedStep ==
    ASSUME JobsOK, PeersQuiet, Stamped, [WNext]_wvars
    PROVE  Stamped'
<1> SUFFICES ASSUME Going' PROVE Stamped'
    BY DEF Stamped
<1> USE FilesThereAre, FilesAssumption
<1>1. CASE RunStep
    BY <1>1, RunStamps
<1>2. CASE ~ RunStep
  <2>1. ~ Restart /\ ~ Call
    BY DEF Restart, Call, Open, desk, Going
  <2>2. Going
    BY <1>2, <2>1, BesideStepIs DEF Going
  <2>3. \A w \in Peers : Free(w)
    BY <2>2 DEF PeersQuiet, Going
  <2>4. CASE SandboxStep \/ Stray
    <3>1. UNCHANGED index \/ Untold({"manifest"}) \/ Untold({"source"})
      BY <2>4 DEF SandboxStep, Stray
    <3> QED
      BY <2>2, <3>1, SameStamp, UntoldStamp DEF index, files
  <2>5. CASE ScanThrows
    <3>1. At(Run, "scan") /\ job'[Run] = Nothing /\ UNCHANGED <<committed, astray, tree>>
      BY <2>5 DEF ScanThrows, Throws, Done, GoTo, Going, JobsOK, files
    <3>2. job[Run].file = None
      BY <3>1 DEF JobsOK, At
    <3> QED
      BY <2>2, <3>1, <3>2 DEF Stamped, At, Nothing, Job
  <2>6. ASSUME NEW w \in Writers, Tree(w)
        PROVE  Stamped'
    <3>1. CASE Acquire(w)
      BY <2>2, <3>1, SameStamp DEF Acquire, files
    <3>2. CASE Proceeds(w)
      <4>1. w = Run
        BY <2>3, <3>2 DEF Proceeds, Record, RecordFails, MarkDirty, MarkDirtyFails, Walk, Rescan,
                          Peers, Free, At
      <4>2. Done(Run) => job'[Run].at = "none" /\ job'[Run].file = None
        BY DEF Done, Nothing, Job, JobsOK
      <4>3. CASE Record(Run) \/ MarkDirty(Run)
        <5>1. tree'.of # "head" \/ tree'.dirty
          BY <4>3 DEF Record, MarkDirty, JobsOK
        <5> QED
          BY <4>2, <4>3, <5>1 DEF Record, MarkDirty, Stamped, At
      <4>4. CASE RecordFails(Run)
        <5>1. /\ job'[Run].at = "dirty" /\ job'[Run].file = job[Run].file
              /\ UNCHANGED <<committed, astray, tree>> /\ At(Run, "record")
          BY <4>4 DEF RecordFails, JobsOK, files
        <5> QED
          BY <2>2, <5>1 DEF Stamped, At
      <4>5. CASE MarkDirtyFails(Run)
        <5>1. /\ astray' = astray \cup {job[Run].file} /\ UNCHANGED <<committed, tree>>
              /\ job[Run].file # None
          BY <4>5 DEF MarkDirtyFails
        <5> QED
          BY <2>2, <4>2, <4>5, <5>1 DEF Stamped, At, MarkDirtyFails
      <4>6. CASE Walk(Run)
        <5>1. /\ job'[Run].at = job[Run].at /\ job'[Run].file = job[Run].file
              /\ job'[Run].of = job[Run].of /\ UNCHANGED <<committed, astray, tree>>
          BY <4>6 DEF Walk, Seen, JobsOK, files
        <5> QED
          BY <2>2, <5>1 DEF Stamped, At
      <4>7. CASE Rescan(Run)
        <5>1. At(Run, "scan") /\ tree'.of = job[Run].of /\ UNCHANGED <<committed, astray>>
          BY <4>7 DEF Rescan
        <5> QED
          BY <2>2, <4>2, <4>7, <5>1 DEF Stamped, At, Rescan
      <4> QED
        BY <3>2, <4>1, <4>3, <4>4, <4>5, <4>6, <4>7 DEF Proceeds
    <3> QED
      BY <2>6, <3>1, <3>2 DEF Tree
  <2>7. CASE HasLeft \/ (Continue /\ UNCHANGED <<sandbox, desk>>) \/ UNCHANGED wvars
    BY <2>2, <2>7, SameStamp DEF HasLeft, HasRead, Continue, wvars, index, files
  <2> QED
    BY <1>2, <2>1, <2>4, <2>5, <2>6, <2>7 DEF WNext
<1> QED
    BY <1>1, <1>2

LEMMA StampAtFirst == WInit => StampInv
<1> SUFFICES ASSUME WInit PROVE StampInv
    OBVIOUS
<1>1. flow = "start" /\ \A w \in Writers : job[w].at = "none"
    BY DEF WInit, TreeInit, Nothing, Job
<1> QED
    BY <1>1 DEF StampInv, PeersQuiet, Stamped, Going, Peers, Free, At

\* A tree that says it is HEAD's, and nothing against it, is HEAD's, but for what has changed
\* with no tool to tell since the run found nothing uncommitted: whatever the tools have
\* written, whatever an earlier run has left uncommitted, wherever the index could not be
\* stored.  (The scans of run.ts at the start and after a merge, record and markDirty of
\* file_tree_service.ts.)
THEOREM StampsAreTrue == Barging = FALSE => (WSpec => []Provenance)
<1> SUFFICES ASSUME Barging = FALSE PROVE WSpec => []Provenance
    OBVIOUS
<1>1. WInit => TreeInv /\ StampInv
    BY WInitInvariant, StampAtFirst
<1>2. TreeInv /\ StampInv /\ [WNext]_wvars => TreeInv' /\ StampInv'
  <2> SUFFICES ASSUME TreeInv, StampInv, [WNext]_wvars PROVE TreeInv' /\ StampInv'
    OBVIOUS
  <2>1. TreeInv'
    BY WStepInvariant
  <2>2. JobsOK
    BY DEF TreeInv, IndexInv
  <2> QED
    BY <2>1, <2>2, PeersStep, StampedStep DEF StampInv
<1>3. TreeInv /\ StampInv => Provenance
    BY StampIs DEF TreeInv, IndexInv
<1> QED
    BY <1>1, <1>2, <1>3, PTL DEF WSpec
=============================================================================
