-------------------------- MODULE ProjectLockProofs --------------------------
(***************************************************************************)
(* The project lock excludes, and is unlinked by its owner only, for any   *)
(* number of processes, crashes and forced takeovers, as long as           *)
(* acquisitions and releases do not overlap; and it excludes whatever the  *)
(* processes do under it, and whoever takes the place of one that ended.   *)
(*                                                                         *)
(* What the processes do under it, one at a time, leaves the files and the *)
(* registry with one story, for builds of any number of Phases, and any    *)
(* number of builds, crashes and failures.  The invariant it takes has two *)
(* sides: DiskInv, of the files and the registry, whatever ended midway,   *)
(* and JobInv, what the session under way knows of them where it stands.   *)
(* Whole builds are blocks of Phases, and PhasePlans grids of such blocks. *)
(***************************************************************************)
EXTENDS ProjectHistory, FiniteSetTheorems, SequenceTheorems, WellFoundedInduction, TLAPS

\* One process is inside acquireLock or the releaser.
OneMidway == \A p, q \in Processes : pc[p] \in Midway /\ pc[q] \in Midway => p = q

\* Whoever holds the lock and has not been overridden is the owner it records.
HolderRecorded == \A p \in Holders : Recorded = p

\* A process that is about to replace the lock, or to remove it, has found out that
\* nobody holds it; one that is forced finds out when it truncates.
Vacant ==
    \A p \in Processes :
        pc[p] \in {"fill", "unlink"} \/ (pc[p] = "truncate" /\ p \notin Forced) => Holders = {}

\* The file a process writes its payload to is the empty one .lock names.
WritesTheLock ==
    \A p \in Processes : pc[p] = "fill" => path # None /\ fd[p] = path /\ content[path] = Empty

\* Whoever is about to unlink the lock is its owner.
OwnsWhatItUnlinks == \A p \in Processes : pc[p] = "unlink" => Recorded = p

LockInv == TypeOK /\ OneMidway /\ HolderRecorded /\ Vacant /\ WritesTheLock /\ OwnsWhatItUnlinks

LEMMA InitLock == Init => LockInv
<1> SUFFICES ASSUME Init PROVE LockInv
  OBVIOUS
<1> USE ProjectLockAssumption DEF Init
<1>1. \A p \in Processes : pc[p] = "new"
  OBVIOUS
<1>2. Holders = {}
  BY <1>1 DEF Holders
<1>3. TypeOK
  BY <1>1 DEF TypeOK, Stages, Midway, Gone
<1> QED
  BY <1>1, <1>2, <1>3
     DEF LockInv, OneMidway, HolderRecorded, Vacant, WritesTheLock, OwnsWhatItUnlinks, Midway

\* A process that only moves on to a stage between two calls, or ends, disturbs
\* nothing when it holds nothing there.
LEMMA MoveOn ==
    ASSUME LockInv, NEW p \in Processes, NEW stage \in Stages \ {"held", "fill", "unlink"},
           GoTo(p, stage), UNCHANGED <<path, content, fd, ousted>>,
           stage \in Midway => \A q \in Processes \ {p} : pc[q] \notin Midway,
           stage = "truncate" /\ p \notin Forced => Holders = {}
    PROVE  LockInv'
<1> USE ProjectLockAssumption
<1>1. /\ pc' = [pc EXCEPT ![p] = stage] /\ pc \in [Processes -> Stages]
      /\ UNCHANGED <<path, content, fd, ousted>>
  BY DEF GoTo, LockInv, TypeOK
<1>2. pc'[p] = stage /\ \A q \in Processes \ {p} : pc'[q] = pc[q]
  BY <1>1
<1>3. TypeOK'
  BY <1>1, <1>2 DEF LockInv, TypeOK
<1>4. Holders' \subseteq Holders
  BY <1>1, <1>2 DEF Holders
<1>5. Recorded' = Recorded
  BY <1>1 DEF Recorded
<1>6. OneMidway'
  BY <1>2 DEF LockInv, OneMidway
<1>7. HolderRecorded'
  BY <1>4, <1>5 DEF LockInv, HolderRecorded
<1>8. Vacant'
  BY <1>2, <1>4 DEF LockInv, Vacant
<1>9. WritesTheLock'
  BY <1>1, <1>2 DEF LockInv, WritesTheLock
<1>10. OwnsWhatItUnlinks'
  BY <1>2, <1>5 DEF LockInv, OwnsWhatItUnlinks
<1> QED
  BY <1>3, <1>6, <1>7, <1>8, <1>9, <1>10 DEF LockInv

LEMMA StepLock == ASSUME Overlap = FALSE, LockInv, [Next]_vars PROVE LockInv'
<1> USE ProjectLockAssumption
<1>1. ASSUME NEW p \in Processes, Start(p) PROVE LockInv'
  <2>1. "create" \in Stages \ {"held", "fill", "unlink"} /\ "create" \notin Midway
    BY DEF Stages, Midway, Gone
  <2> QED
    BY <1>1, <2>1, MoveOn DEF Start
<1>2. ASSUME NEW p \in Processes, Create(p) PROVE LockInv'
  <2>1. pc[p] = "create" /\ \A q \in Processes \ {p} : pc[q] \notin Midway
    BY <1>2 DEF Create, Clear
  <2>2. CASE path = None
    <3>1. /\ path' = p /\ content' = [content EXCEPT ![p] = Empty] /\ fd' = [fd EXCEPT ![p] = p]
          /\ pc' = [pc EXCEPT ![p] = "fill"] /\ ousted' = ousted
      BY <1>2, <2>2 DEF Create, GoTo
    <3>2. pc'[p] = "fill" /\ \A q \in Processes \ {p} : pc'[q] = pc[q] /\ pc'[q] \notin Midway
      BY <2>1, <3>1 DEF LockInv, TypeOK
    <3>3. Holders = {}
      BY <2>2 DEF LockInv, HolderRecorded, Recorded, Holders
    <3>4. Holders' = {}
      BY <3>1, <3>2, <3>3 DEF Holders
    <3>5. content'[p] = Empty /\ fd'[p] = p
      BY <3>1 DEF LockInv, TypeOK
    <3>6. TypeOK'
      BY <3>1, <3>2, <3>5 DEF LockInv, TypeOK, Stages, Midway
    <3>7. OneMidway' /\ HolderRecorded' /\ Vacant'
      BY <3>2, <3>4 DEF OneMidway, HolderRecorded, Vacant
    <3>8. WritesTheLock' /\ OwnsWhatItUnlinks'
      BY <3>1, <3>2, <3>5 DEF WritesTheLock, OwnsWhatItUnlinks, Midway
    <3> QED
      BY <3>6, <3>7, <3>8 DEF LockInv
  <2>3. CASE path # None
    <3> DEFINE stage == IF p \in Forced THEN "truncate" ELSE "read"
    <3>1. GoTo(p, stage) /\ UNCHANGED <<path, content, fd, ousted>>
      BY <1>2, <2>3 DEF Create
    <3>2. /\ stage \in Stages \ {"held", "fill", "unlink"}
          /\ stage = "truncate" /\ p \notin Forced => Holders = {}
      BY DEF Stages, Midway
    <3> HIDE DEF stage
    <3> QED
      BY <2>1, <3>1, <3>2, MoveOn
  <2> QED
    BY <2>2, <2>3
<1>3. ASSUME NEW p \in Processes, Read(p) PROVE LockInv'
  <2> DEFINE stage == IF Recorded # None /\ Alive(Recorded) THEN "refused" ELSE "truncate"
  <2>1. GoTo(p, stage) /\ UNCHANGED <<path, content, fd, ousted>> /\ pc[p] = "read"
    BY <1>3 DEF Read
  <2>2. \A q \in Processes \ {p} : pc[q] \notin Midway
    BY <2>1 DEF LockInv, OneMidway, Midway
  <2>3. stage \in Stages \ {"held", "fill", "unlink"}
    BY DEF Stages, Midway, Gone
  <2>4. ASSUME stage = "truncate" PROVE Holders = {}
    <3>1. SUFFICES ASSUME NEW q \in Holders PROVE FALSE
      OBVIOUS
    <3>2. Recorded = q /\ q \in Processes /\ pc[q] = "held"
      BY <3>1 DEF LockInv, HolderRecorded, Holders
    <3> QED
      BY <2>4, <3>2 DEF Alive, Gone
  <2> HIDE DEF stage
  <2> QED
    BY <2>1, <2>2, <2>3, <2>4, MoveOn
<1>4. ASSUME NEW p \in Processes, Truncate(p) PROVE LockInv'
  <2> DEFINE file == IF path = None THEN p ELSE path
  <2>1. /\ pc[p] = "truncate" /\ path' = file
        /\ content' = [content EXCEPT ![file] = Empty] /\ fd' = [fd EXCEPT ![p] = file]
        /\ pc' = [pc EXCEPT ![p] = "fill"]
        /\ ousted' = IF p \in Forced /\ Recorded # None THEN ousted \cup {Recorded} ELSE ousted
    BY <1>4 DEF Truncate, GoTo
  <2>2. file \in Processes
    BY DEF LockInv, TypeOK
  <2>3. \A q \in Processes \ {p} : pc[q] \notin Midway
    BY <2>1 DEF LockInv, OneMidway, Midway
  <2>4. pc'[p] = "fill" /\ \A q \in Processes \ {p} : pc'[q] = pc[q] /\ pc'[q] \notin Midway
    BY <2>1, <2>3 DEF LockInv, TypeOK
  <2>5. content'[file] = Empty /\ fd'[p] = file /\ file # None
    BY <2>1, <2>2 DEF LockInv, TypeOK
  <2>6. Recorded # None => Recorded \in Processes
    BY DEF Recorded
  <2>7. TypeOK'
    BY <2>1, <2>2, <2>4, <2>5, <2>6 DEF LockInv, TypeOK, Stages, Midway
  <2>8. Holders' = {}
    <3>1. Holders' \subseteq Holders \ ousted'
      BY <2>1, <2>4 DEF Holders
    <3>2. CASE p \in Forced
      BY <2>1, <3>1, <3>2 DEF LockInv, HolderRecorded, Holders
    <3>3. CASE p \notin Forced
      BY <2>1, <3>1, <3>3 DEF LockInv, Vacant
    <3> QED
      BY <3>2, <3>3
  <2> HIDE DEF file
  <2>9. OneMidway' /\ HolderRecorded' /\ Vacant'
    BY <2>4, <2>8 DEF OneMidway, HolderRecorded, Vacant
  <2>10. WritesTheLock' /\ OwnsWhatItUnlinks'
    BY <2>1, <2>4, <2>5 DEF WritesTheLock, OwnsWhatItUnlinks, Midway
  <2> QED
    BY <2>7, <2>9, <2>10 DEF LockInv
<1>5. ASSUME NEW p \in Processes, Fill(p) PROVE LockInv'
  <2>1. /\ pc[p] = "fill" /\ pc' = [pc EXCEPT ![p] = "held"] /\ UNCHANGED <<path, fd, ousted>>
        /\ fd[p] = path /\ content[path] = Empty /\ path \in Processes
        /\ content' = [content EXCEPT ![path] = p]
    BY <1>5 DEF Fill, GoTo, LockInv, TypeOK, WritesTheLock
  <2>2. \A q \in Processes \ {p} : pc[q] \notin Midway
    BY <2>1 DEF LockInv, OneMidway, Midway
  <2>3. pc'[p] = "held" /\ \A q \in Processes \ {p} : pc'[q] = pc[q] /\ pc'[q] \notin Midway
    BY <2>1, <2>2 DEF LockInv, TypeOK
  <2>4. content'[path] = p /\ Recorded' = p
    BY <2>1 DEF LockInv, TypeOK, Recorded
  <2>5. Holders = {}
    BY <2>1 DEF LockInv, Vacant
  <2>6. Holders' \subseteq {p}
    BY <2>1, <2>3, <2>5 DEF Holders
  <2>7. TypeOK'
    BY <2>1, <2>3 DEF LockInv, TypeOK, Stages
  <2>8. \A q \in Processes : pc'[q] \notin Midway
    BY <2>3 DEF Midway
  <2>9. OneMidway' /\ WritesTheLock' /\ OwnsWhatItUnlinks' /\ Vacant'
    BY <2>8 DEF OneMidway, WritesTheLock, OwnsWhatItUnlinks, Vacant, Midway
  <2>10. HolderRecorded'
    BY <2>4, <2>6 DEF HolderRecorded
  <2> QED
    BY <2>7, <2>9, <2>10 DEF LockInv
<1>6. ASSUME NEW p \in Processes, Release(p) PROVE LockInv'
  <2>1. /\ pc[p] = "held" /\ UNCHANGED <<path, content, fd, ousted>>
        /\ \A q \in Processes \ {p} : pc[q] \notin Midway
    BY <1>6 DEF Release, Clear
  <2>2. CASE Recorded # p
    <3>1. GoTo(p, "done") /\ "done" \in Stages \ {"held", "fill", "unlink"} /\ "done" \notin Midway
      BY <1>6, <2>2 DEF Release, Stages, Midway, Gone
    <3> QED
      BY <2>1, <3>1, MoveOn
  <2>3. CASE Recorded = p
    <3>1. pc' = [pc EXCEPT ![p] = "unlink"]
      BY <1>6, <2>3 DEF Release, GoTo
    <3>2. pc'[p] = "unlink" /\ \A q \in Processes \ {p} : pc'[q] = pc[q] /\ pc'[q] \notin Midway
      BY <2>1, <3>1 DEF LockInv, TypeOK
    <3>3. Holders' \subseteq Holders \ {p}
      BY <2>1, <3>2 DEF Holders
    <3>4. Holders' = {}
      BY <2>3, <3>3 DEF LockInv, HolderRecorded
    <3>5. Recorded' = p
      BY <2>1, <2>3 DEF Recorded
    <3>6. TypeOK'
      BY <2>1, <3>1, <3>2 DEF LockInv, TypeOK, Stages, Midway
    <3>7. OneMidway' /\ HolderRecorded' /\ Vacant'
      BY <3>2, <3>4 DEF OneMidway, HolderRecorded, Vacant
    <3>8. WritesTheLock' /\ OwnsWhatItUnlinks'
      BY <3>2, <3>5 DEF WritesTheLock, OwnsWhatItUnlinks, Midway
    <3> QED
      BY <3>6, <3>7, <3>8 DEF LockInv
  <2> QED
    BY <2>2, <2>3
<1>7. ASSUME NEW p \in Processes, Unlink(p) PROVE LockInv'
  <2>1. /\ pc[p] = "unlink" /\ path' = None /\ pc' = [pc EXCEPT ![p] = "done"]
        /\ UNCHANGED <<content, fd, ousted>>
    BY <1>7 DEF Unlink, GoTo
  <2>2. \A q \in Processes \ {p} : pc[q] \notin Midway
    BY <2>1 DEF LockInv, OneMidway, Midway
  <2>3. pc'[p] = "done" /\ \A q \in Processes \ {p} : pc'[q] = pc[q] /\ pc'[q] \notin Midway
    BY <2>1, <2>2 DEF LockInv, TypeOK
  <2>4. Holders = {}
    BY <2>1 DEF LockInv, Vacant
  <2>5. Holders' = {}
    BY <2>1, <2>3, <2>4 DEF Holders
  <2>6. TypeOK'
    BY <2>1, <2>3 DEF LockInv, TypeOK, Stages, Gone
  <2>7. \A q \in Processes : pc'[q] \notin Midway
    BY <2>3 DEF Midway
  <2> QED
    BY <2>5, <2>6, <2>7
       DEF LockInv, OneMidway, HolderRecorded, Vacant, WritesTheLock, OwnsWhatItUnlinks, Midway
<1>8. ASSUME NEW p \in Processes, Crash(p) PROVE LockInv'
  <2>1. "dead" \in Stages \ {"held", "fill", "unlink"} /\ "dead" \notin Midway
    BY DEF Stages, Midway, Gone
  <2> QED
    BY <1>8, <2>1, MoveOn DEF Crash
<1>9. ASSUME UNCHANGED vars PROVE LockInv'
  BY <1>9 DEF vars, LockInv, TypeOK, OneMidway, HolderRecorded, Vacant, WritesTheLock,
              OwnsWhatItUnlinks, Holders, Recorded
<1> QED
  BY <1>1, <1>2, <1>3, <1>4, <1>5, <1>6, <1>7, <1>8, <1>9 DEF Next, Acquire

LEMMA LockInvariant == Overlap = FALSE => (Spec => []LockInv)
<1> SUFFICES ASSUME Overlap = FALSE PROVE Spec => []LockInv
  OBVIOUS
<1>1. Init => LockInv
  BY InitLock
<1>2. LockInv /\ [Next]_vars => LockInv'
  BY StepLock
<1> QED
  BY <1>1, <1>2, PTL DEF Spec

\* When no two processes are inside acquireLock or its releaser at once, at most one
\* of those that --force has not overridden holds the project
\* (src/core/lock.ts:7).
THEOREM LockExcludes == Overlap = FALSE => (Spec => []Exclusive)
<1> SUFFICES ASSUME Overlap = FALSE PROVE Spec => []Exclusive
  OBVIOUS
<1>1. LockInv => Exclusive
  BY DEF LockInv, HolderRecorded, Exclusive
<1> QED
  BY <1>1, LockInvariant, PTL

\* Then the lock of a process, too, is only ever unlinked by that process
\* (src/core/lock.ts:122-136).
THEOREM LockIsUnlinkedByItsOwner == Overlap = FALSE => (Spec => OnlyItsOwnerUnlinks)
<1> SUFFICES ASSUME Overlap = FALSE PROVE Spec => OnlyItsOwnerUnlinks
  OBVIOUS
<1> DEFINE Owned == \A p \in Processes :
               (path # None /\ path' = None /\ content[path] = p) => pc'[p] = "done"
<1>1. LockInv /\ [Next]_vars => [Owned]_vars
  <2> SUFFICES ASSUME LockInv, Next, NEW p \in Processes,
                      path # None, path' = None, content[path] = p
               PROVE  pc'[p] = "done"
    BY DEF vars
  <2> USE ProjectLockAssumption
  <2>1. PICK q \in Processes : Unlink(q)
    BY DEF Next, Acquire, Start, Create, Read, Truncate, Fill, Release, Crash, LockInv, TypeOK
  <2>2. q = p
    BY <2>1 DEF Unlink, LockInv, OwnsWhatItUnlinks, Recorded
  <2> QED
    BY <2>1, <2>2 DEF Unlink, GoTo, LockInv, TypeOK
<1> QED
  BY <1>1, LockInvariant, PTL DEF Spec, OnlyItsOwnerUnlinks
-----------------------------------------------------------------------------
(* The lock under the processes that build and run, one after the other in *)
(* the same place.                                                         *)

\* A process that takes the place of one that has ended finds the lock as it was.
LEMMA RecycleKeeps ==
    ASSUME LockInv, NEW p \in Processes, Recycle(p)
    PROVE  LockInv'
<1> USE ProjectLockAssumption
<1>1. /\ pc[p] \in Gone /\ Recorded # p /\ \A q \in Processes : pc[q] # "held"
      /\ pc' = [pc EXCEPT ![p] = "new"] /\ fd' = [fd EXCEPT ![p] = None]
      /\ content' = [content EXCEPT ![p] = IF path = p THEN @ ELSE Empty]
      /\ ousted' = ousted \ {p} /\ path' = path
  BY DEF Recycle
<1>2. /\ pc'[p] = "new" /\ fd'[p] = None
      /\ \A q \in Processes \ {p} : pc'[q] = pc[q] /\ fd'[q] = fd[q] /\ content'[q] = content[q]
  BY <1>1 DEF LockInv, TypeOK
<1>3. path # None => content'[path] = content[path]
  BY <1>1, <1>2 DEF LockInv, TypeOK
<1>4. Recorded' = Recorded
  BY <1>1, <1>3 DEF Recorded
<1>5. Holders' = {}
  BY <1>1, <1>2 DEF Holders
<1>6. TypeOK'
  BY <1>1, <1>2 DEF LockInv, TypeOK, Stages, Gone
<1>7. OneMidway' /\ HolderRecorded' /\ Vacant'
  BY <1>2, <1>5 DEF LockInv, OneMidway, HolderRecorded, Vacant, Midway
<1>8. WritesTheLock' /\ OwnsWhatItUnlinks'
  BY <1>1, <1>2, <1>3, <1>4 DEF LockInv, WritesTheLock, OwnsWhatItUnlinks
<1> QED
  BY <1>6, <1>7, <1>8 DEF LockInv

\* What a process does under the lock, it does not to the lock.
LEMMA LockSteps ==
    ASSUME [HistoryNext]_everything
    PROVE  [Next]_vars \/ \E p \in Processes : Recycle(p)
<1>1. ASSUME NEW p \in Processes,
             Build(p) \/ Run(p) \/ BeginBuild(p) \/ Fail(p) \/ UNCHANGED everything
      PROVE  UNCHANGED vars
  BY <1>1
  DEF Build, Run, BeginBuild, Fail, everything, lock, Refused, GivesUp,
      Checkpoint, Reuse, Decompose, CannotPlan, SavePlan, SavePhasePlan, PersistGraph, PersistExtension,
      RetireProject, BeginRun, Load, CannotLoad, Materialize, Check, Execute, CannotDeliver, CompletePhase,
      SelectCurrentPhase, DeliverProject, CloseProject, CannotAdvance, FinishPhasePlan, Publish, Reference,
      Enter, CannotEnter
<1>2. ASSUME NEW p \in Processes, Locks(p) \/ Leave(p) \/ Starts(p) \/ Die(p)
      PROVE  Next
  BY <1>2 DEF Locks, Leave, Starts, Die, Next
<1>3. CASE UNCHANGED everything
  BY <1>3 DEF everything, lock
<1> QED
  BY <1>1, <1>2, <1>3 DEF HistoryNext, Goes

LEMMA HistoryLocks == Overlap = FALSE => (HistorySpec => []LockInv)
<1> SUFFICES ASSUME Overlap = FALSE PROVE HistorySpec => []LockInv
  OBVIOUS
<1>1. HistoryInit => LockInv
  BY InitLock DEF HistoryInit
<1>2. LockInv /\ [HistoryNext]_everything => LockInv'
  BY LockSteps, StepLock, RecycleKeeps
<1> QED
  BY <1>1, <1>2, PTL DEF HistorySpec

\* One process at a time works on the project, however many builds and runs follow one
\* another, fail and die (src/core/lock.ts:7).
THEOREM OneProcessWorks == Overlap = FALSE => (HistorySpec => []Exclusive)
<1> SUFFICES ASSUME Overlap = FALSE PROVE HistorySpec => []Exclusive
  OBVIOUS
<1>1. LockInv => Exclusive
  BY DEF LockInv, HolderRecorded, Exclusive
<1> QED
  BY <1>1, HistoryLocks, PTL

-----------------------------------------------------------------------------
(* The Phases of one build, Split of them, are a block of the numbers.      *)

Whole(n) == \E m \in Nat : n = Split * m

LEMMA BlockIs ==
    ASSUME NEW a \in Nat, NEW r \in 1..Split
    PROVE  Dependent(Split * a + r) <=> r # 1
BY HistoryAssumption DEF Dependent

LEMMA BlockIsOne ==
    ASSUME NEW a \in Nat, NEW c \in Nat, NEW r \in 1..Split, NEW s \in 1..Split,
           Split * a + r = Split * c + s
    PROVE  a = c /\ r = s
BY HistoryAssumption

LEMMA InItsBlock ==
    ASSUME NEW k \in Nat \ {0}
    PROVE  \E a \in Nat, r \in 1..Split : k = Split * a + r
<1> DEFINE a == (k - 1) \div Split
           r == ((k - 1) % Split) + 1
<1>1. a \in Nat /\ r \in 1..Split /\ k = Split * a + r
  BY HistoryAssumption
<1> QED
  BY <1>1

LEMMA BlockStep ==
    ASSUME NEW a \in Nat, NEW r \in 1..Split
    PROVE  /\ Split * a + r \in Nat \ {0}
           /\ Dependent(Split * a + r) => r - 1 \in 1..Split /\ Split * a + r - 1 = Split * a + (r - 1)
           /\ Dependent(Split * a + r + 1) => r + 1 \in 1..Split
<1>0. Split \in Nat /\ Split > 0 /\ Split * a \in Nat /\ Split * (a + 1) = Split * a + Split
  BY HistoryAssumption
<1>1. Dependent(Split * a + r) => r # 1
  BY BlockIs
<1>2. ASSUME r + 1 \notin 1..Split PROVE ~ Dependent(Split * a + r + 1)
  <2>1. r = Split /\ Split * a + r + 1 = Split * (a + 1) + 1
    BY <1>0, <1>2
  <2>2. 1 \in 1..Split /\ a + 1 \in Nat
    BY <1>0
  <2>3. ~ Dependent(Split * (a + 1) + 1)
    BY <2>2, BlockIs
  <2> QED
    BY <2>1, <2>3
<1> QED
  BY <1>0, <1>1, <1>2

LEMMA WholeSums ==
    ASSUME NEW m, NEW n, Whole(m), Whole(n)
    PROVE  m \in Nat /\ Whole(m + n)
<1>1. PICK a \in Nat : m = Split * a
  BY DEF Whole
<1>2. PICK c \in Nat : n = Split * c
  BY DEF Whole
<1>3. m + n = Split * (a + c) /\ m \in Nat
  BY <1>1, <1>2, HistoryAssumption
<1> QED
  BY <1>3 DEF Whole

\* A Phase is in the same place of its block after whole blocks.
LEMMA Shifted ==
    ASSUME NEW m, Whole(m), NEW k \in Nat \ {0}
    PROVE  m + k \in Nat \ {0} /\ (Dependent(m + k) <=> Dependent(k))
<1>1. PICK c \in Nat : m = Split * c
  BY DEF Whole
<1>2. PICK a \in Nat, r \in 1..Split : k = Split * a + r
  BY InItsBlock
<1>3. m + k = Split * (c + a) + r /\ c + a \in Nat /\ m \in Nat
  BY <1>1, <1>2, HistoryAssumption
<1> QED
  BY <1>2, <1>3, BlockIs

\* Whole blocks end before a Phase that waits for none.
LEMMA WholeBlocks ==
    ASSUME NEW m, Whole(m), NEW k \in 1..m, Dependent(k + 1)
    PROVE  k + 1 \in 1..m
<1>1. PICK c \in Nat : m = Split * c
  BY DEF Whole
<1>2. m \in Nat
  BY <1>1, HistoryAssumption
<1>3. ASSUME k = m PROVE FALSE
  <2>1. 1 \in 1..Split
    BY HistoryAssumption
  <2> QED
    BY <1>1, <1>3, <2>1, BlockIs
<1> QED
  BY <1>2, <1>3

LEMMA FirstIsFree ==
    /\ ~ Dependent(1)
    /\ \A k \in Nat \ {0} : Dependent(k) => k > 1 /\ k - 1 \in Nat \ {0}
<1>1. ~ Dependent(1)
  BY HistoryAssumption DEF Dependent
<1> QED
  BY <1>1

\* The Phases of the blocks of these numbers.
Cells(A) == {k \in Nat \ {0} : \E a \in A, r \in 1..Split : k = Split * a + r}
Grid(D) == \E A \in SUBSET Nat : IsFiniteSet(A) /\ D = Cells(A)
PlaceIn(D, i) == Cardinality({x \in D : x <= i})

LEMMA CellsCount ==
    ASSUME NEW A \in SUBSET Nat, IsFiniteSet(A)
    PROVE  IsFiniteSet(Cells(A)) /\ Cardinality(Cells(A)) = Split * Cardinality(A)
<1> DEFINE R == 1..Split
           f == [x \in A \X R |-> Split * x[1] + x[2]]
<1>1. IsFiniteSet(R) /\ Cardinality(R) = Split
  BY HistoryAssumption, FS_Interval
<1>2. IsFiniteSet(A \X R) /\ Cardinality(A \X R) = Cardinality(A) * Split
  <2> HIDE DEF R
  <2> QED
    BY <1>1, FS_Product
<1>3. f \in [A \X R -> Cells(A)]
  <2> SUFFICES ASSUME NEW a \in A, NEW r \in R PROVE Split * a + r \in Cells(A)
    OBVIOUS
  <2>1. Split * a + r \in Nat \ {0}
    BY BlockStep
  <2> QED
    BY <2>1 DEF Cells
<1>4. f \in Injection(A \X R, Cells(A))
  <2> SUFFICES ASSUME NEW x \in A \X R, NEW y \in A \X R, f[x] = f[y] PROVE x = y
    BY <1>3 DEF Injection, IsInjective
  <2>1. x[1] \in Nat /\ y[1] \in Nat /\ x[2] \in 1..Split /\ y[2] \in 1..Split
        /\ Split * x[1] + x[2] = Split * y[1] + y[2]
    OBVIOUS
  <2>2. x[1] = y[1] /\ x[2] = y[2]
    BY <2>1, BlockIsOne
  <2> QED
    BY <2>2
<1>5. f \in Surjection(A \X R, Cells(A))
  <2> SUFFICES ASSUME NEW k \in Cells(A) PROVE \E x \in A \X R : f[x] = k
    BY <1>3 DEF Surjection
  <2>1. PICK a \in A, r \in R : k = Split * a + r
    BY DEF Cells
  <2>2. <<a, r>> \in A \X R /\ f[<<a, r>>] = k
    BY <2>1
  <2> QED
    BY <2>2
<1>6. ExistsBijection(A \X R, Cells(A))
  BY <1>4, <1>5 DEF ExistsBijection, Bijection
<1> HIDE DEF f, R
<1>7. IsFiniteSet(Cells(A)) /\ Cardinality(Cells(A)) = Cardinality(A) * Split
  BY <1>2, <1>6, FS_Bijection
<1>8. Cardinality(A) \in Nat
  BY FS_CardinalityType
<1> QED
  BY <1>7, <1>8, HistoryAssumption

\* A Phase is in the PhasePlan where its block is, and at its own place there.
LEMMA PlaceInCells ==
    ASSUME NEW A \in SUBSET Nat, IsFiniteSet(A), NEW a \in A, NEW r \in 1..Split
    PROVE  /\ Cardinality({c \in A : c < a}) \in Nat
           /\ Cardinality({c \in A : c < a}) + 1 <= Cardinality(A)
           /\ PlaceIn(Cells(A), Split * a + r) = Split * Cardinality({c \in A : c < a}) + r
<1> DEFINE B == {c \in A : c < a}
           H == {k \in Nat \ {0} : \E s \in 1..r : k = Split * a + s}
           i == Split * a + r
           f == [s \in 1..r |-> Split * a + s]
<1>0. Split \in Nat /\ a \in Nat /\ r \in Nat /\ r <= Split /\ Split * a \in Nat
  BY HistoryAssumption
<1>1. IsFiniteSet(B) /\ Cardinality(B) \in Nat /\ Cardinality(B \cup {a}) = Cardinality(B) + 1
  <2>1. IsFiniteSet(B)
    BY FS_Subset
  <2>2. a \notin B
    BY <1>0
  <2> HIDE DEF B
  <2> QED
    BY <2>1, <2>2, FS_AddElement, FS_CardinalityType
<1>2. Cardinality(B \cup {a}) <= Cardinality(A)
  BY FS_Subset
<1>3. IsFiniteSet(Cells(B)) /\ Cardinality(Cells(B)) = Split * Cardinality(B)
  BY <1>1, CellsCount
<1>4. IsFiniteSet(H) /\ Cardinality(H) = r
  <2>1. f \in [1..r -> H]
    BY <1>0
  <2>2. f \in Bijection(1..r, H)
    BY <1>0, <2>1 DEF Bijection, Injection, Surjection, IsInjective
  <2>3. IsFiniteSet(1..r) /\ Cardinality(1..r) = r
    BY <1>0, FS_Interval
  <2> HIDE DEF f, H
  <2> QED
    BY <2>2, <2>3, FS_Bijection DEF ExistsBijection
<1>5. Cells(B) \cap H = {}
  <2> SUFFICES ASSUME NEW k \in Cells(B), k \in H PROVE FALSE
    OBVIOUS
  <2>1. PICK b \in B, s \in 1..Split : k = Split * b + s
    BY DEF Cells
  <2>2. PICK t \in 1..r : k = Split * a + t
    OBVIOUS
  <2>3. b = a
    BY <1>0, <2>1, <2>2, BlockIsOne
  <2> QED
    BY <1>0, <2>3
<1>6. {x \in Cells(A) : x <= i} = Cells(B) \cup H
  <2>1. ASSUME NEW x \in Cells(A), x <= i PROVE x \in Cells(B) \cup H
    <3>1. PICK b \in A, s \in 1..Split : x = Split * b + s
      BY DEF Cells
    <3>2. CASE b < a
      BY <3>1, <3>2 DEF Cells
    <3>3. CASE b = a
      BY <1>0, <2>1, <3>1, <3>3 DEF Cells
    <3>4. CASE b > a
      <4>1. Split * b >= Split * a + Split
        BY <1>0, <3>4
      <4> QED
        BY <1>0, <2>1, <3>1, <4>1
    <3> QED
      BY <1>0, <3>2, <3>3, <3>4
  <2>2. ASSUME NEW x \in Cells(B) PROVE x \in Cells(A) /\ x <= i
    <3>1. PICK b \in B, s \in 1..Split : x = Split * b + s
      BY DEF Cells
    <3>2. Split * b + Split <= Split * a
      BY <1>0, <3>1
    <3> QED
      BY <1>0, <3>1, <3>2 DEF Cells
  <2>3. ASSUME NEW x \in H PROVE x \in Cells(A) /\ x <= i
    BY <1>0 DEF Cells
  <2> QED
    BY <2>1, <2>2, <2>3
<1> HIDE DEF B, H, f
<1>7. Cardinality(Cells(B) \cup H) = Split * Cardinality(B) + r
  <2> DEFINE C == Cells(B)
  <2>1. IsFiniteSet(C) /\ IsFiniteSet(H) /\ C \cap H = {}
        /\ Cardinality(C) = Split * Cardinality(B) /\ Cardinality(H) = r
    BY <1>3, <1>4, <1>5
  <2> HIDE DEF C
  <2>2. Cardinality(C \cup H) = Cardinality(C) + Cardinality(H) - Cardinality({})
    BY <2>1, FS_Union
  <2>3. Cardinality({}) = 0
    BY FS_EmptySet
  <2>4. Split * Cardinality(B) \in Nat
    BY <1>0, <1>1
  <2> QED
    BY <1>0, <2>1, <2>2, <2>3, <2>4 DEF C
<1> QED
  BY <1>1, <1>2, <1>6, <1>7 DEF PlaceIn, B

\* The places of the Phases of a PhasePlan, and the names they get after whole blocks.
LEMMA GridPlaces ==
    ASSUME NEW D, Grid(D)
    PROVE  /\ IsFiniteSet(D) /\ Cardinality(D) \in Nat /\ Whole(Cardinality(D)) /\ D \subseteq Nat \ {0}
           /\ \A i \in D :
                /\ PlaceIn(D, i) \in 1..Cardinality(D)
                /\ Dependent(PlaceIn(D, i)) <=> Dependent(i)
                /\ Dependent(i) => i - 1 \in D /\ PlaceIn(D, i - 1) = PlaceIn(D, i) - 1
                /\ Dependent(i + 1) => i + 1 \in D
           /\ \A i, j \in D : i < j => PlaceIn(D, i) < PlaceIn(D, j)
<1>1. PICK A \in SUBSET Nat : IsFiniteSet(A) /\ D = Cells(A)
  BY DEF Grid
<1>2. IsFiniteSet(D) /\ Cardinality(D) = Split * Cardinality(A) /\ Cardinality(A) \in Nat
  BY <1>1, CellsCount, FS_CardinalityType
<1>3. D \subseteq Nat \ {0} /\ Cardinality(D) \in Nat /\ Whole(Cardinality(D))
  <2>1. D \subseteq Nat \ {0}
    BY <1>1 DEF Cells
  <2>2. Split * Cardinality(A) \in Nat
    BY <1>2, HistoryAssumption
  <2>3. Whole(Split * Cardinality(A))
    BY <1>2 DEF Whole
  <2> QED
    BY <1>2, <2>1, <2>2, <2>3
<1>4. ASSUME NEW i \in D
      PROVE  /\ PlaceIn(D, i) \in 1..Cardinality(D)
             /\ Dependent(PlaceIn(D, i)) <=> Dependent(i)
             /\ Dependent(i) => i - 1 \in D /\ PlaceIn(D, i - 1) = PlaceIn(D, i) - 1
             /\ Dependent(i + 1) => i + 1 \in D
  <2>1. PICK a \in A, r \in 1..Split : i = Split * a + r
    BY <1>1 DEF Cells
  <2> DEFINE n == Cardinality({c \in A : c < a})
  <2>2. n \in Nat /\ n + 1 <= Cardinality(A) /\ PlaceIn(D, i) = Split * n + r
    BY <1>1, <2>1, PlaceInCells
  <2>3. ASSUME NEW s \in 1..Split
        PROVE  Split * a + s \in D /\ PlaceIn(D, Split * a + s) = Split * n + s
    <3>1. PlaceIn(D, Split * a + s) = Split * n + s
      BY <1>1, PlaceInCells
    <3>2. Split * a + s \in Nat \ {0}
      BY BlockStep
    <3> QED
      BY <1>1, <3>1, <3>2 DEF Cells
  <2> HIDE DEF n
  <2>4. Split * n + r \in 1..Cardinality(D)
    <3>1. Split * (n + 1) <= Split * Cardinality(A) /\ Split * n \in Nat /\ Split * (n + 1) = Split * n + Split
      BY <1>2, <2>2, HistoryAssumption
    <3> QED
      BY <1>2, <2>2, <3>1, HistoryAssumption
  <2>5. Dependent(PlaceIn(D, i)) <=> Dependent(i)
    BY <2>1, <2>2, BlockIs
  <2>6. ASSUME Dependent(i) PROVE i - 1 \in D /\ PlaceIn(D, i - 1) = PlaceIn(D, i) - 1
    <3>0. Dependent(Split * a + r) /\ a \in Nat
      BY <2>1, <2>6
    <3>4. r - 1 \in 1..Split
      BY <3>0, BlockStep
    <3>5. Split * a \in Nat /\ r \in Nat
      BY <3>0, HistoryAssumption
    <3>1. r - 1 \in 1..Split /\ i - 1 = Split * a + (r - 1)
      BY <2>1, <3>4, <3>5
    <3>2. PlaceIn(D, i - 1) = Split * n + (r - 1) /\ i - 1 \in D
      BY <2>3, <3>1
    <3>3. Split * n \in Nat
      BY <2>2, HistoryAssumption
    <3> QED
      BY <2>2, <3>2, <3>3
  <2>7. ASSUME Dependent(i + 1) PROVE i + 1 \in D
    <3>1. r + 1 \in 1..Split
      BY <2>1, <2>7, BlockStep
    <3>2. i + 1 = Split * a + (r + 1)
      BY <2>1, HistoryAssumption
    <3> QED
      BY <2>3, <3>1, <3>2
  <2> QED
    BY <2>2, <2>4, <2>5, <2>6, <2>7
<1>5. ASSUME NEW i \in D, NEW j \in D, i < j PROVE PlaceIn(D, i) < PlaceIn(D, j)
  <2> DEFINE I == {x \in D : x <= i}
             J == {x \in D : x <= j}
  <2>0. i \in Nat /\ j \in Nat /\ \A x \in D : x \in Nat
    BY <1>3
  <2>6. j \in J /\ j \notin I
    BY <1>5, <2>0
  <2>7. ASSUME NEW x \in I PROVE x \in J
    BY <1>5, <2>0
  <2>1. I \cup {j} \subseteq J /\ j \notin I
    BY <2>6, <2>7
  <2>4. I \subseteq D /\ J \subseteq D
    OBVIOUS
  <2> HIDE DEF I, J
  <2>5. IsFiniteSet(I) /\ IsFiniteSet(J)
    BY <1>2, <2>4, FS_Subset
  <2>2. Cardinality(I) \in Nat /\ Cardinality(J) \in Nat /\ Cardinality(I \cup {j}) = Cardinality(I) + 1
    BY <2>1, <2>5, FS_AddElement, FS_CardinalityType
  <2>3. Cardinality(I \cup {j}) <= Cardinality(J)
    BY <2>1, <2>5, FS_Subset
  <2> QED
    BY <2>2, <2>3 DEF PlaceIn, I, J
<1> QED
  BY <1>2, <1>3, <1>4, <1>5

LEMMA GridRenamed ==
    ASSUME NEW D, Grid(D), NEW m, Whole(m)
    PROVE  Grid({m + PlaceIn(D, i) : i \in D})
<1>1. PICK A \in SUBSET Nat : IsFiniteSet(A) /\ D = Cells(A)
  BY DEF Grid
<1>2. PICK q \in Nat : m = Split * q
  BY DEF Whole
<1> DEFINE Below(a) == Cardinality({c \in A : c < a})
           B == {b \in Nat : \E a \in A : b = q + Below(a)}
           E == {m + PlaceIn(D, i) : i \in D}
<1>3. \A a \in A : \A r \in 1..Split :
        /\ Below(a) \in Nat /\ Below(a) + 1 <= Cardinality(A)
        /\ PlaceIn(D, Split * a + r) = Split * Below(a) + r
  BY <1>1, PlaceInCells
<1>4. Cardinality(A) \in Nat
  BY <1>1, FS_CardinalityType
<1>5. B \subseteq Nat /\ IsFiniteSet(B)
  <2>1. 1 \in 1..Split
    BY HistoryAssumption
  <2>2. \A a \in A : Below(a) \in Nat /\ Below(a) + 1 <= Cardinality(A)
    BY <1>3, <2>1
  <2> HIDE DEF Below
  <2>3. B \subseteq 0..(q + Cardinality(A))
    BY <1>4, <2>2
  <2>4. IsFiniteSet(0..(q + Cardinality(A)))
    BY <1>4, FS_Interval
  <2> QED
    BY <2>3, <2>4, FS_Subset
<1> HIDE DEF Below
<1>6. \A a \in A : \A r \in 1..Split :
        m + (Split * Below(a) + r) = Split * (q + Below(a)) + r /\ q + Below(a) \in Nat
  BY <1>2, <1>3, HistoryAssumption
<1>7. E \subseteq Cells(B)
  <2> SUFFICES ASSUME NEW i \in D PROVE m + PlaceIn(D, i) \in Cells(B)
    OBVIOUS
  <2>1. PICK a \in A, r \in 1..Split : i = Split * a + r
    BY <1>1 DEF Cells
  <2>2. m + PlaceIn(D, i) = Split * (q + Below(a)) + r /\ q + Below(a) \in B
    BY <1>3, <1>6, <2>1
  <2>3. Split * (q + Below(a)) + r \in Nat \ {0}
    BY <1>6, BlockStep
  <2> HIDE DEF B
  <2> QED
    BY <2>2, <2>3 DEF Cells
<1>8. Cells(B) \subseteq E
  <2> SUFFICES ASSUME NEW k \in Cells(B) PROVE k \in E
    OBVIOUS
  <2>1. PICK b \in B, r \in 1..Split : k = Split * b + r
    BY DEF Cells
  <2>2. PICK a \in A : b = q + Below(a)
    OBVIOUS
  <2>3. k = m + PlaceIn(D, Split * a + r)
    BY <1>3, <1>6, <2>1, <2>2
  <2>4. Split * a + r \in Nat \ {0}
    BY BlockStep
  <2>5. Split * a + r \in D
    BY <1>1, <2>4 DEF Cells
  <2> QED
    BY <2>3, <2>5
<1> QED
  BY <1>5, <1>7, <1>8 DEF Grid

LEMMA GridJoined ==
    ASSUME NEW D, NEW E, Grid(D), Grid(E)
    PROVE  Grid(D \cup E)
<1>1. PICK A \in SUBSET Nat : IsFiniteSet(A) /\ D = Cells(A)
  BY DEF Grid
<1>2. PICK B \in SUBSET Nat : IsFiniteSet(B) /\ E = Cells(B)
  BY DEF Grid
<1>3. D \cup E = Cells(A \cup B) /\ IsFiniteSet(A \cup B)
  BY <1>1, <1>2, FS_Union DEF Cells
<1> QED
  BY <1>3 DEF Grid

\* One block.
LEMMA GridOfOne ==
    /\ Grid(1..Split) /\ 1 \in 1..Split /\ Cardinality(1..Split) = Split
    /\ \A i \in 1..Split : PlaceIn(1..Split, i) = i
<1>1. Cells({0}) = 1..Split
  BY HistoryAssumption DEF Cells
<1>2. IsFiniteSet({0})
  BY FS_Singleton
<1>3. Cardinality(1..Split) = Split
  BY HistoryAssumption, FS_Interval
<1>4. ASSUME NEW i \in 1..Split PROVE PlaceIn(1..Split, i) = i
  <2>1. {x \in 1..Split : x <= i} = 1..i
    BY HistoryAssumption
  <2>2. Cardinality(1..i) = i
    BY FS_Interval, HistoryAssumption
  <2> QED
    BY <2>1, <2>2 DEF PlaceIn
<1> QED
  BY <1>1, <1>2, <1>3, <1>4, HistoryAssumption DEF Grid

-----------------------------------------------------------------------------
(* What is on disk, and what the session under way knows of it.             *)

Intents == {"greenfield", "feature"}
Statuses == {"complete", "current", "planned"}
PhaseStates == {"created", "in_progress", "leaving", "delivered", "closed"}
ProjectStates == {"planning", "in_progress", "delivered", "closed"}

Maps(S) == UNION {[D -> S] : D \in SUBSET (Nat \ {0})}
PhasePlans == [build : Nat, intent : Intents \cup {"none"}, status : Maps(Statuses), current : Nat]
Drafting == {"decompose", "save", "refer", "graph"}
Working == {"materialize", "check", "execute", "deliver", "tickets", "delivered", "select", "close",
            "advance", "reference"}
Labels == {"idle", "planning", "retire", "load", "enter", "end"} \cup Drafting \cup Working
Jobs == [at : Labels, intent : Intents \cup {"none"}, build : Nat, k : Nat, size : Nat,
         base : PhasePlans, recover : BOOLEAN]
Phases == [build : Nat, state : PhaseStates, steps : Nat]
Projects == [build : Nat, current : Nat, state : ProjectStates, phase : Seq(Phases)]

Types ==
    /\ job \in [Processes -> Jobs] /\ phasePlan \in PhasePlans /\ plan \in Maps(Nat)
    /\ projects \in Seq(Projects) /\ torn \subseteq Nat /\ builds \in Nat

\* The builds that have nothing in the registry yet and may never have.
Loose == torn \cup UNION {LeftBehind(p) : p \in Processes}
FitsIn(steps, build) == steps = build \/ steps \in Loose \/ build \in Loose
Newest == projects[Len(projects)]
InRegistry(b) == \E i \in DOMAIN projects : projects[i].build = b

\* A build is known by a number that was given out.
Numbers ==
    /\ torn \subseteq 1..builds
    /\ phasePlan.build \in 0..builds
    /\ \A k \in DOMAIN plan : plan[k] \in 1..builds
    /\ \A i \in DOMAIN projects :
        /\ projects[i].build \in 1..builds
        /\ \A k \in DOMAIN projects[i].phase :
            projects[i].phase[k].build \in 1..builds /\ projects[i].phase[k].steps \in 0..builds

\* A PhasePlan: whole builds, in each the Phases that are planned after those that are not.
Sound(pp) ==
    /\ pp.build # 0 /\ pp.intent \in Intents
    /\ Grid(DOMAIN pp.status) /\ 1 \in DOMAIN pp.status
    /\ pp.current \in DOMAIN pp.status /\ pp.status[pp.current] # "planned"
    /\ \A k \in DOMAIN pp.status :
        pp.status[k] = "planned" => Dependent(k) /\ pp.status[k - 1] \in {"planned", "current"}
    /\ pp.current = 1 =>
        DOMAIN pp.status = 1..Split /\ \A k \in 2..Split : pp.status[k] = "planned"
    /\ pp.intent = "greenfield" => DOMAIN pp.status = 1..Split
PlanSound == phasePlan # NoPhasePlan => Sound(phasePlan)

\* A project: whole builds, in each the Phases of one build.
ProjectOK(pr) ==
    /\ Len(pr.phase) > 0 /\ Whole(Len(pr.phase)) /\ pr.current \in DOMAIN pr.phase
    /\ \A k \in DOMAIN pr.phase :
        /\ Dependent(k) => pr.phase[k].build = pr.phase[k - 1].build
        /\ pr.phase[k].steps = 0 => pr.phase[k].state = "created"
        /\ pr.state = "closed" => pr.phase[k].state = "closed"
        /\ OfItsBuild(pr.phase[k])
ProjectsOK == Len(projects) <= 2 /\ \A i \in DOMAIN projects : ProjectOK(projects[i])

\* The plans a run may take the Steps of a Phase from are of the build the Phase is of.
Fit ==
    projects # <<>> =>
        /\ phasePlan # NoPhasePlan
        /\ \A k \in {1, phasePlan.current} :
            k \in DOMAIN plan /\ k \in DOMAIN Newest.phase => FitsIn(plan[k], Newest.phase[k].build)
        /\ phasePlan.current \in DOMAIN Newest.phase =>
            FitsIn(phasePlan.build, Newest.phase[phasePlan.current].build)
        /\ \A k \in DOMAIN Newest.phase :
            Newest.phase[k].build = phasePlan.build => Newest.build = phasePlan.build

\* The PhasePlan is of a build in the registry, or of one that may never get there.
Origin ==
    phasePlan # NoPhasePlan =>
        /\ phasePlan.build \in Loose \/ InRegistry(phasePlan.build)
        /\ phasePlan.intent = "greenfield" =>
            \A i \in DOMAIN projects : projects[i].build = phasePlan.build =>
                \A k \in DOMAIN projects[i].phase : projects[i].phase[k].build = phasePlan.build

\* The PhasePlan and the project of one build.
Settled ==
    projects # <<>> /\ Newest.build = phasePlan.build =>
        /\ \A k \in DOMAIN Newest.phase : Newest.phase[k].steps # 0 => k <= phasePlan.current
        /\ phasePlan.intent = "feature" /\ phasePlan.build \in torn =>
            \/ phasePlan.current # 1 /\ phasePlan.status[1] = "current"
            \/ \E i \in DOMAIN Newest.phase :
                i < phasePlan.current /\ Newest.phase[i].state # "closed"
        /\ ~ LeavesOut(Newest) => InStep(Newest)

DiskInv == Numbers /\ PlanSound /\ ProjectsOK /\ Fit /\ Origin /\ Settled

\* Nothing is of build b, but the plans of the Phases K.
Unused(b, K) ==
    /\ b \notin torn
    /\ \A k \in DOMAIN plan \ K : plan[k] # b
    /\ \A i \in DOMAIN projects :
        /\ projects[i].build # b
        /\ \A k \in DOMAIN projects[i].phase :
            projects[i].phase[k].build # b /\ projects[i].phase[k].steps # b
SavedPlans(p) == IF job[p].at \in {"refer", "graph"} THEN {job[p].k} ELSE {}
Before(p) == IF job[p].intent = "feature" THEN Len(Project.phase) ELSE 0

Planning(p) ==
    job[p].at = "planning" =>
        /\ job[p].build \in 1..builds /\ job[p].build # phasePlan.build
        /\ Unused(job[p].build, {}) /\ job[p].base = phasePlan /\ job[p].intent \in Intents
        /\ job[p].intent = "feature" => phasePlan # NoPhasePlan

\* From the checkpoint to the graph the PhasePlan is the session's.
Ahead(p) ==
    job[p].at \in Drafting =>
        /\ phasePlan # NoPhasePlan /\ phasePlan.build = job[p].build
        /\ phasePlan.intent = job[p].intent
        /\ job[p].intent = "feature" => job[p].base # NoPhasePlan /\ Sound(job[p].base)
        /\ \/ job[p].build \in torn
           \/ job[p].intent = "greenfield" /\ InRegistry(job[p].build)
           \/ Unused(job[p].build, SavedPlans(p))
        /\ phasePlan.status[phasePlan.current] = "current"
Checkpointed(p) ==
    job[p].at \in Drafting \ {"graph"} =>
        /\ \A k \in DOMAIN phasePlan.status :
            phasePlan.status[k] = "current" => k = phasePlan.current
        /\ job[p].build \in torn => job[p].base = phasePlan
        /\ Unused(job[p].build, SavedPlans(p)) => phasePlan.current = 1
        /\ job[p].intent = "feature" /\ torn = {} /\ Len(projects) = 1 /\ Project.state = "closed" =>
            \A k \in DOMAIN job[p].base.status :
                k \in DOMAIN Project.phase /\ job[p].base.status[k] # "planned"
\* The Phases of the build come after those that are delivered.
Decomposed(p) ==
    job[p].at \in Drafting \ {"decompose"} =>
        /\ Len(projects) <= 1
        /\ job[p].intent = "feature" =>
            Len(projects) = 1 /\ Project.state = "closed" /\ Project.build # job[p].build
        /\ Whole(job[p].size) /\ job[p].k \in Before(p) + 1..Before(p) + job[p].size
        /\ job[p].k = Before(p) + 1 => job[p].size = Split
        /\ Unused(job[p].build, {job[p].k}) => job[p].k = Before(p) + 1
        /\ job[p].intent = "greenfield" => job[p].k = phasePlan.current /\ job[p].size = Split
Numbered(p) ==
    job[p].at \in {"save", "refer"} =>
        /\ job[p].size = Cardinality(DOMAIN phasePlan.status)
        /\ job[p].intent = "feature" => job[p].k = Before(p) + Place(phasePlan.current)
Saved(p) ==
    job[p].at \in {"refer", "graph"} => job[p].k \in DOMAIN plan /\ plan[job[p].k] = job[p].build
Referenced(p) ==
    job[p].at = "graph" =>
        /\ phasePlan.current = job[p].k
        /\ job[p].intent = "feature" =>
            /\ job[p].build \in torn => phasePlan.status[1] = "current" \/ job[p].k > Before(p) + 1
            /\ \A k \in DOMAIN phasePlan.status :
                /\ job[p].k = Before(p) + 1 /\ k \in Before(p) + 1..Before(p) + job[p].size
                    => phasePlan.status[k] # "complete"
                /\ torn = {} =>
                    k <= Before(p) + job[p].size /\ (k <= Before(p) => phasePlan.status[k] # "planned")
Retiring(p) == job[p].at = "retire" => Len(projects) = 2 /\ Newest.build = phasePlan.build

\* A run is at the Phase the PhasePlan names.
Found == [deliver |-> "in_progress", tickets |-> "leaving", delivered |-> "delivered",
          select |-> "closed", close |-> "closed", advance |-> "closed", reference |-> "closed"]
Running(p) ==
    job[p].at \in Working =>
        /\ Len(projects) = 1 /\ phasePlan # NoPhasePlan
        /\ job[p].k = phasePlan.current /\ job[p].k \in DOMAIN Project.phase
        /\ IF job[p].at = "materialize" THEN job[p].k \in DOMAIN plan ELSE Phase(p).steps # 0
        /\ job[p].at \in DOMAIN Found => Phase(p).state = Found[job[p].at]
        /\ job[p].at = "close" => \A k \in DOMAIN Project.phase : Project.phase[k].state = "closed"
        /\ job[p].at \in {"advance", "reference"} =>
            (Project.build = phasePlan.build /\ ~ LeavesOut(Project)
             /\ job[p].k + 1 \in DOMAIN Project.phase => Project.current = job[p].k + 1)
        /\ job[p].at = "reference" =>
            /\ ReadyToPlan # {} /\ Least(ReadyToPlan) \in DOMAIN plan
            /\ plan[Least(ReadyToPlan)] = phasePlan.build
Entering(p) ==
    job[p].at = "enter" =>
        Len(projects) = 1 /\ phasePlan # NoPhasePlan /\ phasePlan.current \in DOMAIN plan

Stage(p) ==
    /\ Planning(p) /\ Ahead(p) /\ Checkpointed(p) /\ Decomposed(p) /\ Numbered(p) /\ Saved(p)
    /\ Referenced(p) /\ Retiring(p) /\ Running(p) /\ Entering(p)
JobInv ==
    \A p \in Processes : (pc[p] # "held" => job[p].at = "idle") /\ (Works(p) => Stage(p))

HistoryInv == Types /\ DiskInv /\ JobInv

LEMMA MapIs ==
    ASSUME NEW S, NEW f \in Maps(S)
    PROVE  DOMAIN f \subseteq Nat \ {0} /\ \A k \in DOMAIN f : f[k] \in S
BY DEF Maps

LEMMA IsMap ==
    ASSUME NEW S, NEW D \in SUBSET (Nat \ {0}), NEW f \in [D -> S]
    PROVE  f \in Maps(S) /\ DOMAIN f = D
BY DEF Maps

LEMMA NoPhasePlanIs ==
    NoPhasePlan \in PhasePlans /\ DOMAIN NoPhasePlan.status = {} /\ NoPhasePlan.build = 0
<1>1. <<>> \in [{} -> Statuses] /\ DOMAIN <<>> = {}
  OBVIOUS
<1>2. <<>> \in Maps(Statuses)
  BY <1>1, IsMap
<1> QED
  BY <1>1, <1>2 DEF NoPhasePlan, PhasePlans

LEMMA IdleIs == Idle \in Jobs /\ Idle.at = "idle"
<1>1. NoPhasePlan \in PhasePlans
  BY NoPhasePlanIs
<1>2. FALSE \in BOOLEAN /\ "idle" \in Labels /\ 0 \in Nat
  BY DEF Labels
<1>3. Idle \in Jobs
  BY <1>1, <1>2 DEF Idle, Jobs
<1> QED
  BY <1>3 DEF Idle

\* A nonempty set of numbers has a least one.
LEMMA LeastOf ==
    ASSUME NEW S, S \subseteq Nat, S # {}
    PROVE  \E x \in S : \A y \in S : x <= y
<1> DEFINE T == {1..x : x \in S}
<1>1. T \subseteq FiniteSubsetsOf(Nat)
  <2> SUFFICES ASSUME NEW x \in S PROVE 1..x \in FiniteSubsetsOf(Nat)
    OBVIOUS
  <2>1. IsFiniteSet(1..x)
    BY FS_Interval
  <2> QED
    BY <2>1 DEF FiniteSubsetsOf
<1>2. PICK t \in T : \A u \in T : <<u, t>> \notin StrictSubsetOrdering(Nat)
  <2>1. T # {}
    OBVIOUS
  <2>2. IsWellFoundedOn(StrictSubsetOrdering(Nat), FiniteSubsetsOf(Nat))
    BY FS_StrictSubsetOrderingWellFounded
  <2> HIDE DEF T
  <2> QED
    BY <1>1, <2>1, <2>2, WFMin
<1>3. PICK x \in S : t = 1..x
  OBVIOUS
<1>4. ASSUME NEW y \in S, y < x PROVE FALSE
  <2>1. x \in 1..x /\ x \notin 1..y
    BY <1>4
  <2>2. 1..y \subseteq 1..x /\ 1..y # 1..x
    BY <1>4, <2>1
  <2>3. <<1..y, 1..x>> \in StrictSubsetOrdering(Nat)
    BY <2>2 DEF StrictSubsetOrdering
  <2> QED
    BY <1>2, <1>3, <2>3
<1> QED
  BY <1>4

LEMMA LeastIs ==
    ASSUME NEW S, S \subseteq Nat, S # {}
    PROVE  Least(S) \in S /\ \A i \in S : Least(S) <= i
BY LeastOf DEF Least

LEMMA LeastOne ==
    ASSUME NEW S, S \subseteq Nat, NEW k \in S, \A i \in S : k <= i
    PROVE  Least(S) = k
<1>1. Least(S) \in S /\ \A i \in S : Least(S) <= i
  BY LeastIs
<1>2. Least(S) <= k /\ k <= Least(S) /\ Least(S) \in Nat /\ k \in Nat
  BY <1>1
<1> QED
  BY <1>2

LEMMA PlaceIs == ASSUME NEW k PROVE Place(k) = PlaceIn(DOMAIN phasePlan.status, k)
BY DEF Place, PlaceIn

-----------------------------------------------------------------------------
(* One session at a time.                                                   *)

\* What a session leaves behind is left by the one that is at work.
LEMMA OneWorks ==
    ASSUME LockInv, NEW p \in Processes, Works(p)
    PROVE  /\ \A q \in Processes : Works(q) => q = p
           /\ Loose = torn \cup LeftBehind(p)
<1>1. \A q \in Processes : Works(q) => q \in Holders
  BY DEF Works, Holders
<1>2. \A q \in Processes : Works(q) => q = p
  BY <1>1 DEF LockInv, HolderRecorded
<1>3. \A q \in Processes : q # p => LeftBehind(q) = {}
  BY <1>2 DEF LeftBehind
<1> QED
  BY <1>2, <1>3 DEF Loose

\* A step of the session leaves the lock, and so the others, where they are.
LEMMA OneWorksOn ==
    ASSUME LockInv, NEW p \in Processes, Works(p), UNCHANGED lock
    PROVE  /\ Works(p)' /\ \A q \in Processes : Works(q)' => q = p
           /\ Loose' = torn' \cup LeftBehind(p)'
<1>1. \A q \in Processes : Works(q)' <=> Works(q)
  BY DEF Works, lock, vars
<1>2. \A q \in Processes : Works(q)' => q = p
  BY <1>1, OneWorks
<1>3. \A q \in Processes : q # p => LeftBehind(q)' = {}
  BY <1>2 DEF LeftBehind
<1> QED
  BY <1>1, <1>2, <1>3 DEF Loose

\* A build that is at work is one of those begun.
LEMMA LooseIsBegun ==
    ASSUME HistoryInv
    PROVE  Loose \subseteq 1..builds
<1>1. ASSUME NEW p \in Processes, NEW b \in LeftBehind(p) PROVE b \in 1..builds
  <2>1. Works(p) /\ job[p].at \in Drafting /\ b = job[p].build
    BY <1>1 DEF LeftBehind, Drafting
  <2>2. Ahead(p)
    BY <2>1 DEF HistoryInv, JobInv, Stage
  <2>3. phasePlan # NoPhasePlan /\ phasePlan.build = b
    BY <2>1, <2>2 DEF Ahead
  <2>4. phasePlan.build # 0 /\ phasePlan.build \in 0..builds
    BY <2>3 DEF HistoryInv, DiskInv, PlanSound, Sound, Numbers
  <2> QED
    BY <2>3, <2>4 DEF HistoryInv, Types
<1>2. torn \subseteq 1..builds
  BY DEF HistoryInv, DiskInv, Numbers
<1> QED
  BY <1>1, <1>2 DEF Loose

\* What is on disk remains coherent when more builds count as broken off, if those are ones
\* that have nothing in the registry.
LEMMA DiskKept ==
    ASSUME HistoryInv, UNCHANGED disk, torn \subseteq torn', torn' \subseteq Loose, Loose \subseteq Loose',
           builds' \in Nat, builds <= builds'
    PROVE  DiskInv'
<1> USE DEF HistoryInv, DiskInv, Types
<1>0. UNCHANGED <<phasePlan, plan, projects>> /\ Loose \subseteq 1..builds
  BY LooseIsBegun DEF disk
<1>1. Numbers'
  BY <1>0 DEF Numbers
<1>2. PlanSound'
  BY <1>0 DEF PlanSound
<1>3. ProjectsOK'
  <2>1. \A phase : OfItsBuild(phase) => OfItsBuild(phase)'
    BY DEF OfItsBuild
  <2> QED
    BY <1>0, <2>1 DEF ProjectsOK, ProjectOK, OfItsBuild
<1>4. Fit'
  BY <1>0 DEF Fit, FitsIn, Newest
<1>5. Origin'
  BY <1>0 DEF Origin, InRegistry
<1>6. Settled'
  <2> SUFFICES ASSUME projects # <<>>, Newest.build = phasePlan.build
               PROVE  (/\ \A k \in DOMAIN Newest.phase : Newest.phase[k].steps # 0 => k <= phasePlan.current
                       /\ phasePlan.intent = "feature" /\ phasePlan.build \in torn =>
                           \/ phasePlan.current # 1 /\ phasePlan.status[1] = "current"
                           \/ \E i \in DOMAIN Newest.phase :
                               i < phasePlan.current /\ Newest.phase[i].state # "closed"
                       /\ ~ LeavesOut(Newest) => InStep(Newest))'
    BY <1>0 DEF Settled, Newest
  <2>1. phasePlan.build \notin Loose \/ phasePlan.build \in torn
    <3>1. Len(projects) \in DOMAIN projects
      OBVIOUS
    <3>2. \A p \in Processes : phasePlan.build \notin LeftBehind(p)
      BY <3>1 DEF LeftBehind, Newest
    <3> QED
      BY <3>2 DEF Loose
  <2>2. phasePlan.build \in torn' => phasePlan.build \in torn
    BY <2>1
  <2>3. InStep(Newest) => InStep(Newest)'
    BY <1>0 DEF InStep, Newest
  <2> QED
    BY <1>0, <2>2, <2>3 DEF Settled, Newest, LeavesOut
<1> QED
  BY <1>1, <1>2, <1>3, <1>4, <1>5, <1>6

LEMMA StageKept ==
    ASSUME NEW p, UNCHANGED <<disk, torn, builds>>, job'[p] = job[p]
    PROVE  Stage(p)' = Stage(p)
BY DEF disk, Stage, Planning, Ahead, Checkpointed, Decomposed, Numbered, Saved, Referenced, Retiring, Running,
       Entering, Unused, InRegistry, SavedPlans, Before, Project, Newest, Place, Phase, ReadyToPlan, Planned,
       Completed

LEMMA Unstaged == ASSUME NEW p, job[p].at \in {"idle", "load", "end"} PROVE Stage(p)
BY DEF Stage, Planning, Ahead, Checkpointed, Decomposed, Numbered, Saved, Referenced, Retiring, Running,
       Entering, Drafting, Working

LEMMA InitHistory == HistoryInit => HistoryInv
<1> SUFFICES ASSUME HistoryInit PROVE HistoryInv
  OBVIOUS
<1>1. /\ job = [p \in Processes |-> Idle] /\ phasePlan = NoPhasePlan /\ plan = <<>> /\ projects = <<>>
      /\ torn = {} /\ builds = 0
  BY DEF HistoryInit
<1>2. Types
  <2>1. plan \in [{} -> Nat]
    BY <1>1
  <2>2. plan \in Maps(Nat)
    BY <2>1, IsMap
  <2> QED
    BY <1>1, <2>2, IdleIs, NoPhasePlanIs DEF Types
<1>3. DiskInv
  <2>1. Numbers
    BY <1>1, NoPhasePlanIs DEF Numbers
  <2> QED
    BY <1>1, <2>1 DEF DiskInv, PlanSound, ProjectsOK, Fit, Origin, Settled
<1>4. JobInv
  <2> SUFFICES ASSUME NEW p \in Processes PROVE job[p].at = "idle" /\ Stage(p)
    BY DEF JobInv
  <2>1. job[p].at = "idle"
    BY <1>1, IdleIs
  <2> QED
    BY <2>1, Unstaged
<1> QED
  BY <1>2, <1>3, <1>4 DEF HistoryInv

\* A step that leaves the files and the registry alone, and the session as it is or ended.
LEMMA QuietStep ==
    ASSUME HistoryInv, UNCHANGED <<disk, builds>>, job' \in [Processes -> Jobs],
           torn \subseteq torn', torn' \subseteq Loose,
           \A q \in Processes : LeftBehind(q) \subseteq torn' \/ LeftBehind(q)' = LeftBehind(q),
           \A q \in Processes :
                /\ pc'[q] # "held" => job'[q].at = "idle"
                /\ Works(q)' => \/ job'[q].at \in {"idle", "load", "end"}
                                \/ Works(q) /\ job'[q] = job[q] /\ torn' = torn
    PROVE  HistoryInv'
<1>1. Loose \subseteq Loose'
  BY DEF Loose
<1>2. DiskInv'
  BY <1>1, DiskKept DEF HistoryInv, Types
<1>3. Types'
  <2>1. torn' \subseteq Nat
    BY LooseIsBegun
  <2> QED
    BY <2>1 DEF HistoryInv, Types, disk
<1>4. JobInv'
  <2> SUFFICES ASSUME NEW q \in Processes, Works(q)' PROVE Stage(q)'
    BY DEF JobInv
  <2>1. CASE job'[q].at \in {"idle", "load", "end"}
    BY <2>1 DEF Stage, Planning, Ahead, Checkpointed, Decomposed, Numbered, Saved, Referenced, Retiring,
                Running, Entering, Drafting, Working
  <2>2. CASE Works(q) /\ job'[q] = job[q] /\ torn' = torn
    BY <2>2, StageKept DEF HistoryInv, JobInv
  <2> QED
    BY <2>1, <2>2
<1> QED
  BY <1>2, <1>3, <1>4 DEF HistoryInv

\* A process that ends, with or without leaving a build behind, or goes on with nothing in hand.
LEMMA Ends ==
    ASSUME LockInv, HistoryInv, NEW p \in Processes, NEW label \in {"load", "end"},
           Works(p), GoOn(p, label), UNCHANGED <<lock, disk, builds>>,
           torn' = torn \cup LeftBehind(p)
    PROVE  HistoryInv'
<1>1. Loose = torn \cup LeftBehind(p) /\ \A q \in Processes : Works(q) => q = p
  BY OneWorks
<1>2. Works(p)' /\ \A q \in Processes : Works(q)' => q = p
  BY OneWorksOn
<1>3. job' = [job EXCEPT ![p].at = label] /\ job \in [Processes -> Jobs]
  BY DEF GoOn, HistoryInv, Types
<1>4. job' \in [Processes -> Jobs] /\ job'[p].at = label /\ \A q \in Processes \ {p} : job'[q] = job[q]
  BY <1>3 DEF Jobs, Labels
<1>5. \A q \in Processes : LeftBehind(q) \subseteq torn'
  BY <1>1 DEF LeftBehind
<1>6. \A q \in Processes : pc'[q] # "held" => job'[q].at = "idle"
  BY <1>2, <1>4 DEF HistoryInv, JobInv, lock, vars, Works
<1> QED
  BY <1>1, <1>2, <1>4, <1>5, <1>6, QuietStep

LEMMA GivesUpKeeps ==
    ASSUME LockInv, HistoryInv, NEW p \in Processes, Works(p), GivesUp(p)
    PROVE  HistoryInv'
BY Ends DEF GivesUp

LEMMA BeginRunKeeps ==
    ASSUME LockInv, HistoryInv, NEW p \in Processes, BeginRun(p)
    PROVE  HistoryInv'
<1>1. LeftBehind(p) = {} /\ Works(p)
  BY DEF BeginRun, At, LeftBehind
<1> QED
  BY <1>1, Ends DEF BeginRun, counts

-----------------------------------------------------------------------------
(* The processes around the session.                                        *)

LEMMA OthersKeep ==
    ASSUME LockInv, HistoryInv, NEW p \in Processes,
           \/ Starts(p) \/ Recycle(p) \/ Leave(p) \/ Die(p)
    PROVE  HistoryInv'
<1> USE DEF LockInv, TypeOK
<1>0. job \in [Processes -> Jobs] /\ \A q \in Processes : pc[q] # "held" => job[q].at = "idle"
  BY DEF HistoryInv, Types, JobInv
<1>1. CASE Starts(p)
  <2>1. /\ pc[p] = "new" /\ pc' = [pc EXCEPT ![p] = "create"]
        /\ UNCHANGED <<ousted, job, disk, torn, builds>>
    BY <1>1 DEF Starts, Start, GoTo, counts
  <2>2. \A q \in Processes : Works(q)' = Works(q) /\ LeftBehind(q)' = LeftBehind(q)
    BY <2>1 DEF Works, LeftBehind, disk
  <2> QED
    BY <1>0, <2>1, <2>2, QuietStep DEF Loose
<1>2. CASE Recycle(p)
  <2>1. /\ \A q \in Processes : pc[q] # "held" /\ pc' = [pc EXCEPT ![p] = "new"]
        /\ UNCHANGED <<job, disk, torn, builds>>
    BY <1>2 DEF Recycle, counts
  <2>2. \A q \in Processes : ~ Works(q)' /\ ~ Works(q)
    BY <2>1 DEF Works
  <2>3. \A q \in Processes : LeftBehind(q) = {}
    BY <2>2 DEF LeftBehind
  <2> QED
    BY <1>0, <2>1, <2>2, <2>3, QuietStep DEF Loose
<1>3. CASE Leave(p)
  <2>1. /\ pc[p] = "held" /\ (p \in ousted \/ job[p].at = "end")
        /\ job' = [job EXCEPT ![p] = Idle] /\ UNCHANGED <<ousted, disk, torn, builds>>
    BY <1>3 DEF Leave, Release, counts
  <2>2. \A q \in Processes \ {p} : pc'[q] = pc[q] /\ job'[q] = job[q]
    BY <1>0, <1>3, <2>1 DEF Leave, Release, GoTo
  <2>3. job' \in [Processes -> Jobs] /\ job'[p].at = "idle"
    BY <1>0, <2>1, IdleIs
  <2>4. LeftBehind(p) = {}
    BY <2>1 DEF LeftBehind, Works
  <2>5. \A q \in Processes \ {p} : Works(q)' = Works(q) /\ LeftBehind(q)' = LeftBehind(q)
    BY <2>1, <2>2 DEF Works, LeftBehind, disk
  <2> QED
    BY <1>0, <2>1, <2>2, <2>3, <2>4, <2>5, QuietStep DEF Loose
<1>4. CASE Die(p)
  <2>1. /\ pc' = [pc EXCEPT ![p] = "dead"] /\ job' = [job EXCEPT ![p] = Idle]
        /\ torn' = torn \cup LeftBehind(p) /\ UNCHANGED <<ousted, disk, builds>>
    BY <1>4 DEF Die, Crash, GoTo
  <2>2. \A q \in Processes \ {p} : pc'[q] = pc[q] /\ job'[q] = job[q]
    BY <1>0, <2>1
  <2>3. job' \in [Processes -> Jobs] /\ job'[p].at = "idle"
    BY <1>0, <2>1, IdleIs
  <2>4. \A q \in Processes \ {p} : Works(q)' = Works(q) /\ LeftBehind(q)' = LeftBehind(q)
    BY <2>1, <2>2 DEF Works, LeftBehind, disk
  <2>5. ~ Works(p)'
    BY <2>1 DEF Works
  <2>6. ASSUME NEW q \in Processes \ {p}, Works(q) PROVE torn' = torn
    <3>1. ~ Works(p)
      BY <2>6, OneWorks
    <3> QED
      BY <2>1, <3>1 DEF LeftBehind
  <2> QED
    BY <1>0, <2>1, <2>2, <2>3, <2>4, <2>5, <2>6, QuietStep DEF Loose
<1> QED
  BY <1>1, <1>2, <1>3, <1>4

LEMMA LocksKeeps ==
    ASSUME LockInv, HistoryInv, NEW p \in Processes, Locks(p)
    PROVE  HistoryInv'
<1> USE DEF LockInv, TypeOK
<1>0. job \in [Processes -> Jobs] /\ \A q \in Processes : pc[q] # "held" => job[q].at = "idle"
  BY DEF HistoryInv, Types, JobInv
<1>1. /\ torn' = torn \cup UNION {LeftBehind(q) : q \in ousted' \ ousted}
      /\ UNCHANGED <<job, disk, builds>>
  BY DEF Locks
<1>2. pc[p] # "held" /\ \A q \in Processes \ {p} : pc'[q] = pc[q]
  BY DEF Locks, Acquire, Create, Read, Truncate, Fill, Unlink, GoTo
<1>3. ousted \subseteq ousted' /\ (ousted' # ousted => \A q \in Processes : Works(q) => q \in ousted')
  <2>1. CASE Truncate(p) /\ p \in Forced /\ Recorded # None
    <3>1. ousted' = ousted \cup {Recorded}
      BY <2>1 DEF Truncate
    <3>2. \A q \in Processes : Works(q) => q = Recorded
      BY DEF Works, Holders, HolderRecorded
    <3> QED
      BY <3>1, <3>2
  <2>2. CASE ~ (Truncate(p) /\ p \in Forced /\ Recorded # None)
    BY <2>2 DEF Locks, Acquire, Create, Read, Truncate, Fill, Unlink
  <2> QED
    BY <2>1, <2>2
<1>4. torn' \subseteq Loose
  <2>1. ASSUME NEW q, q \notin Processes PROVE ~ (q \in ousted' \ ousted)
    <3>1. Recorded # None => Recorded \in Processes
      BY DEF Recorded
    <3> QED
      BY <2>1, <3>1 DEF Locks, Acquire, Create, Read, Truncate, Fill, Unlink
  <2> QED
    BY <1>1, <2>1 DEF Loose
<1>5. ASSUME NEW q \in Processes
      PROVE  /\ LeftBehind(q) \subseteq torn' \/ LeftBehind(q)' = LeftBehind(q)
             /\ pc'[q] # "held" => job'[q].at = "idle"
             /\ Works(q)' => \/ job'[q].at \in {"idle", "load", "end"}
                             \/ Works(q) /\ job'[q] = job[q] /\ torn' = torn
  <2>1. CASE q = p
    BY <1>0, <1>1, <1>2, <2>1 DEF LeftBehind, Works
  <2>2. CASE q # p
    <3>1. pc'[q] = pc[q] /\ job'[q] = job[q]
      BY <1>1, <1>2, <2>2
    <3>2. CASE q \in ousted' \ ousted
      BY <1>0, <1>1, <3>1, <3>2 DEF Works
    <3>3. CASE ~ (q \in ousted' \ ousted)
      <4>1. Works(q)' = Works(q)
        BY <1>3, <3>1, <3>3 DEF Works
      <4>2. LeftBehind(q)' = LeftBehind(q)
        BY <1>1, <3>1, <4>1 DEF LeftBehind, disk
      <4>3. Works(q)' => torn' = torn
        <5>1. ASSUME Works(q)' PROVE ousted' = ousted
          BY <1>3, <4>1, <5>1, <3>3 DEF Works
        <5> QED
          BY <1>1, <5>1
      <4> QED
        BY <1>0, <3>1, <4>1, <4>2, <4>3
    <3> QED
      BY <3>2, <3>3
  <2> QED
    BY <2>1, <2>2
<1> QED
  BY <1>0, <1>1, <1>4, <1>5, QuietStep

-----------------------------------------------------------------------------
(* The steps of the session at work.                                        *)

LEMMA SessionStep ==
    ASSUME LockInv, HistoryInv, NEW p \in Processes, Works(p), UNCHANGED lock,
           \A q \in Processes \ {p} : job'[q] = job[q],
           Types', DiskInv', Stage(p)'
    PROVE  HistoryInv'
<1>1. Works(p)' /\ \A q \in Processes : Works(q)' => q = p
  BY OneWorksOn
<1>2. \A q \in Processes : pc'[q] # "held" => job'[q].at = "idle"
  BY <1>1 DEF HistoryInv, JobInv, lock, vars, Works
<1>3. JobInv'
  BY <1>1, <1>2 DEF JobInv
<1> QED
  BY <1>3 DEF HistoryInv

LEMMA GoesOn ==
    ASSUME Types, NEW p \in Processes, NEW label \in Labels, GoOn(p, label)
    PROVE  /\ job' \in [Processes -> Jobs] /\ \A q \in Processes \ {p} : job'[q] = job[q]
           /\ job'[p].at = label /\ job'[p].intent = job[p].intent /\ job'[p].build = job[p].build
           /\ job'[p].k = job[p].k /\ job'[p].size = job[p].size /\ job'[p].base = job[p].base
           /\ job'[p].recover = job[p].recover
<1>1. job \in [Processes -> Jobs] /\ job' = [job EXCEPT ![p].at = label]
  BY DEF Types, GoOn
<1> QED
  BY <1>1 DEF Jobs

LEMMA BeginBuildKeeps ==
    ASSUME LockInv, HistoryInv, NEW p \in Processes, BeginBuild(p)
    PROVE  HistoryInv'
<1>1. Works(p) /\ job[p].at = "idle" /\ UNCHANGED <<lock, disk, torn>> /\ builds' = builds + 1
  BY DEF BeginBuild, At
<1>2. PICK intent \in Intents :
        /\ intent = "feature" => phasePlan # NoPhasePlan
        /\ job' = [job EXCEPT ![p] = [Idle EXCEPT !.at = "planning", !.intent = intent,
                                                  !.build = builds + 1, !.base = phasePlan]]
  BY DEF BeginBuild, Intents
<1> DEFINE j == [Idle EXCEPT !.at = "planning", !.intent = intent, !.build = builds + 1,
                             !.base = phasePlan]
<1>3. /\ job \in [Processes -> Jobs] /\ phasePlan \in PhasePlans /\ builds \in Nat
      /\ torn \subseteq Nat
  BY DEF HistoryInv, Types
<1>4. /\ j \in Jobs /\ j.at = "planning" /\ j.intent = intent /\ j.build = builds + 1
      /\ j.base = phasePlan
  <2>1. /\ Idle \in Jobs /\ "planning" \in Labels /\ intent \in Intents \cup {"none"}
        /\ builds + 1 \in Nat /\ phasePlan \in PhasePlans
    BY <1>3, IdleIs DEF Labels
  <2> QED
    BY <2>1 DEF Jobs
<1> HIDE DEF j
<1>5. /\ job' \in [Processes -> Jobs] /\ job'[p] = j
      /\ \A q \in Processes \ {p} : job'[q] = job[q]
  BY <1>2, <1>3, <1>4 DEF j
<1>6. Types'
  BY <1>1, <1>3, <1>5 DEF HistoryInv, Types, disk
<1>7. DiskInv'
  <2>1. Loose = torn
    BY <1>1, OneWorks DEF LeftBehind
  <2>2. torn \subseteq Loose'
    BY <1>1 DEF Loose
  <2> QED
    BY <1>1, <1>3, <2>1, <2>2, DiskKept
<1>8. Stage(p)'
  <2>1. Numbers
    BY DEF HistoryInv, DiskInv
  <2>2. ASSUME NEW b, b = builds + 1 PROVE Unused(b, {})'
    BY <1>1, <1>3, <2>1, <2>2 DEF Unused, Numbers, disk
  <2>3. builds + 1 \in 1..builds' /\ builds + 1 # phasePlan'.build
    BY <1>1, <1>3, <2>1 DEF Numbers, disk
  <2>4. Planning(p)'
    BY <1>1, <1>2, <1>4, <1>5, <2>2, <2>3 DEF Planning, disk
  <2> QED
    BY <1>4, <1>5, <2>4 DEF Stage, Ahead, Checkpointed, Decomposed, Numbered, Saved, Referenced, Retiring,
           Running, Entering, Drafting, Working
<1> QED
  BY <1>1, <1>5, <1>6, <1>7, <1>8, SessionStep

LEMMA ReuseKeeps ==
    ASSUME LockInv, HistoryInv, NEW p \in Processes, Reuse(p)
    PROVE  HistoryInv'
<1>1. /\ Works(p) /\ job[p].at = "planning" /\ UNCHANGED <<lock, disk, torn, builds>> /\ Reusable(p)
      /\ job' = [job EXCEPT ![p].at = "decompose", ![p].build = phasePlan.build]
  BY DEF Reuse, At, counts
<1>2. /\ job \in [Processes -> Jobs] /\ phasePlan \in PhasePlans /\ torn \subseteq Nat /\ builds \in Nat
  BY DEF HistoryInv, Types
<1>3. /\ job' \in [Processes -> Jobs] /\ \A q \in Processes \ {p} : job'[q] = job[q]
      /\ job'[p].at = "decompose" /\ job'[p].build = phasePlan.build
      /\ job'[p].intent = job[p].intent /\ job'[p].base = job[p].base
  <2> DEFINE j == [job[p] EXCEPT !.at = "decompose", !.build = phasePlan.build]
  <2>1. /\ j \in Jobs /\ j.at = "decompose" /\ j.build = phasePlan.build
        /\ j.intent = job[p].intent /\ j.base = job[p].base
    BY <1>2 DEF Jobs, PhasePlans, Labels, Drafting
  <2>2. job' = [job EXCEPT ![p] = j]
    BY <1>1, <1>2
  <2> HIDE DEF j
  <2> QED
    BY <1>2, <2>1, <2>2
<1>4. Types'
  BY <1>1, <1>2, <1>3 DEF HistoryInv, Types, disk
<1>5. Loose = torn
  BY <1>1, OneWorks DEF LeftBehind
<1>6. DiskInv'
  <2>1. torn \subseteq Loose'
    BY <1>1 DEF Loose
  <2> QED
    BY <1>1, <1>2, <1>5, <2>1, DiskKept
<1>7. /\ job[p].base = phasePlan /\ job[p].intent \in Intents
      /\ phasePlan # NoPhasePlan /\ phasePlan.intent = job[p].intent
      /\ job[p].intent = "feature" => phasePlan.build \in torn
      /\ {k \in DOMAIN phasePlan.status : phasePlan.status[k] = "current"} = {phasePlan.current}
  BY <1>1 DEF HistoryInv, JobInv, Stage, Planning, Reusable
<1>8. Sound(phasePlan)
  BY <1>7 DEF HistoryInv, DiskInv, PlanSound
<1>9. phasePlan.build \in torn \/ InRegistry(phasePlan.build)
  BY <1>5, <1>7 DEF HistoryInv, DiskInv, Origin
<1>10. ~ Unused(phasePlan.build, {})
  BY <1>9 DEF Unused, InRegistry
<1>11. Ahead(p)'
  <2>1. phasePlan.build \in torn \/ (job[p].intent = "greenfield" /\ InRegistry(phasePlan.build))
    BY <1>7, <1>9 DEF Intents
  <2>2. (phasePlan.build \in torn \/ (job[p].intent = "greenfield" /\ InRegistry(phasePlan.build)))'
    BY <1>1, <1>3, <2>1 DEF InRegistry, disk
  <2>3. UNCHANGED phasePlan
    BY <1>1 DEF disk
  <2>4. phasePlan.status[phasePlan.current] = "current"
    BY <1>7
  <2>5. Sound(job'[p].base)
    BY <1>3, <1>7, <1>8
  <2> QED
    BY <1>3, <1>7, <2>2, <2>3, <2>4, <2>5 DEF Ahead, Sound
<1>12. Checkpointed(p)'
  <2>1. UNCHANGED phasePlan /\ SavedPlans(p)' = {} /\ ~ Unused(phasePlan.build, {})'
    BY <1>1, <1>3, <1>10 DEF disk, SavedPlans, Unused
  <2>2. job[p].intent = "feature" => torn # {}
    BY <1>7
  <2> QED
    BY <1>1, <1>3, <1>7, <2>1, <2>2 DEF Checkpointed
<1>13. Stage(p)'
  BY <1>3, <1>11, <1>12 DEF Stage, Planning, Decomposed, Numbered, Saved, Referenced, Retiring, Running,
         Entering, Drafting, Working
<1> QED
  BY <1>1, <1>3, <1>4, <1>6, <1>13, SessionStep

\* The registry's projects.
LEMMA ProjectIs ==
    ASSUME projects \in Seq(Projects), projects # <<>>
    PROVE  /\ Len(projects) \in Nat /\ Len(projects) >= 1 /\ DOMAIN projects = 1..Len(projects)
           /\ Len(projects) <= 1 => Len(projects) = 1
           /\ Len(projects) = 1 => Newest = Project
           /\ \A i \in 1..Len(projects) :
                /\ projects[i] \in Projects /\ projects[i].phase \in Seq(Phases)
                /\ Len(projects[i].phase) \in Nat
                /\ DOMAIN projects[i].phase = 1..Len(projects[i].phase)
<1>1. Len(projects) \in Nat /\ Len(projects) >= 1 /\ DOMAIN projects = 1..Len(projects)
  OBVIOUS
<1>2. \A i \in 1..Len(projects) : projects[i] \in Projects
  OBVIOUS
<1>3. \A pr \in Projects : pr.phase \in Seq(Phases)
  BY DEF Projects
<1> QED
  BY <1>1, <1>2, <1>3 DEF Newest, Project

LEMMA TheProjectIs ==
    ASSUME projects \in Seq(Projects), Len(projects) = 1
    PROVE  /\ projects # <<>> /\ DOMAIN projects = {1} /\ Newest = Project /\ Project = projects[1]
           /\ Project \in Projects /\ Project.phase \in Seq(Phases)
           /\ Len(Project.phase) \in Nat /\ DOMAIN Project.phase = 1..Len(Project.phase)
<1>1. projects # <<>>
  OBVIOUS
<1>2. DOMAIN projects = 1..1
  BY <1>1, ProjectIs
<1> QED
  BY <1>1, <1>2, ProjectIs DEF Project

\* The place of the Phase a PhasePlan is at.
LEMMA PlaceOfCurrent ==
    ASSUME Sound(phasePlan)
    PROVE  /\ Cardinality(DOMAIN phasePlan.status) \in Nat /\ Whole(Cardinality(DOMAIN phasePlan.status))
           /\ Place(phasePlan.current) \in 1..Cardinality(DOMAIN phasePlan.status)
           /\ Place(phasePlan.current) = 1 => phasePlan.current = 1
           /\ phasePlan.current = 1 => Place(phasePlan.current) = 1
           /\ DOMAIN phasePlan.status = 1..Split =>
                /\ Place(phasePlan.current) = phasePlan.current
                /\ Cardinality(DOMAIN phasePlan.status) = Split
<1> DEFINE D == DOMAIN phasePlan.status
           c == phasePlan.current
<1>1. Grid(D) /\ 1 \in D /\ c \in D
  BY DEF Sound
<1>2. c = 1 => D = 1..Split
  BY DEF Sound
<1> HIDE DEF D, c
<1>3. Cardinality(D) \in Nat /\ Whole(Cardinality(D)) /\ D \subseteq Nat \ {0}
  BY <1>1, GridPlaces
<1>4. PlaceIn(D, c) \in 1..Cardinality(D) /\ PlaceIn(D, 1) \in 1..Cardinality(D)
  BY <1>1, GridPlaces
<1>5. 1 < c => PlaceIn(D, 1) < PlaceIn(D, c)
  BY <1>1, GridPlaces
<1>6. PlaceIn(D, c) = 1 => c = 1
  <2>1. c \in Nat \ {0}
    BY <1>1, <1>3
  <2> QED
    BY <1>3, <1>4, <1>5, <2>1
<1>7. D = 1..Split => PlaceIn(D, c) = c /\ Cardinality(D) = Split
  BY <1>1, GridOfOne
<1>8. Place(c) = PlaceIn(D, c)
  BY PlaceIs DEF D
<1>9. c = 1 => PlaceIn(D, c) = 1
  BY <1>2, <1>7
<1> QED
  BY <1>3, <1>4, <1>6, <1>7, <1>8, <1>9 DEF D, c

\* A project that is closed has been left by no build that went on from a later Phase.
LEMMA ClosedProject ==
    ASSUME ProjectsOK, projects # <<>>, projects \in Seq(Projects), Project.state = "closed"
    PROVE  /\ \A k \in DOMAIN Project.phase : Project.phase[k].state = "closed" /\ Project.phase[k].steps # 0
           /\ ~ LeavesOut(Project)
<1>1. ProjectOK(Project)
  BY DEF ProjectsOK, Project
<1>2. \A k \in DOMAIN Project.phase : Project.phase[k].state = "closed" /\ Project.phase[k].steps # 0
  BY <1>1 DEF ProjectOK
<1> QED
  BY <1>2 DEF LeavesOut

LEMMA DecomposeKeeps ==
    ASSUME LockInv, HistoryInv, NEW p \in Processes, Decompose(p)
    PROVE  HistoryInv'
<1> DEFINE n == Cardinality(DOMAIN phasePlan.status)
           K == IF job[p].intent = "feature"
                THEN Len(projects[1].phase) + Place(phasePlan.current) ELSE phasePlan.current
           j == [job[p] EXCEPT !.at = "save", !.size = n, !.k = K]
<1>1. /\ Works(p) /\ job[p].at = "decompose" /\ UNCHANGED <<lock, disk, torn, builds>> /\ Plannable(p)
      /\ job' = [job EXCEPT ![p].at = "save", ![p].size = n, ![p].k = K]
  BY DEF Decompose, At, counts
<1>2. /\ job \in [Processes -> Jobs] /\ phasePlan \in PhasePlans /\ torn \subseteq Nat /\ builds \in Nat
      /\ projects \in Seq(Projects)
  BY DEF HistoryInv, Types
<1>3. Ahead(p) /\ Checkpointed(p)
  BY <1>1 DEF HistoryInv, JobInv, Stage
<1>4. Sound(phasePlan) /\ phasePlan # NoPhasePlan
  BY <1>1, <1>3 DEF Ahead, Drafting, HistoryInv, DiskInv, PlanSound
<1>5. /\ n \in Nat /\ Whole(n) /\ Place(phasePlan.current) \in 1..n
      /\ Place(phasePlan.current) = 1 => phasePlan.current = 1
      /\ phasePlan.current = 1 => Place(phasePlan.current) = 1
      /\ DOMAIN phasePlan.status = 1..Split => Place(phasePlan.current) = phasePlan.current /\ n = Split
  BY <1>4, PlaceOfCurrent
<1>6. /\ job[p].intent = "feature" =>
            /\ Len(projects) = 1 /\ Project.state = "closed" /\ Len(Project.phase) \in Nat
            /\ K = Len(Project.phase) + Place(phasePlan.current)
      /\ job[p].intent # "feature" => K = phasePlan.current
      /\ Len(projects) <= 1
  <2>1. Len(projects) <= 1 /\ (job[p].intent = "feature" => projects # <<>> /\ Project.state = "closed")
    BY <1>1 DEF Plannable, Project
  <2>2. projects # <<>> => Len(projects) = 1
    BY <1>2, <2>1, ProjectIs
  <2>3. Len(projects) = 1 => Len(Project.phase) \in Nat
    BY <1>2, TheProjectIs
  <2> QED
    BY <2>1, <2>2, <2>3 DEF Project
<1>7. K \in Nat
  BY <1>2, <1>5, <1>6 DEF PhasePlans
<1> HIDE DEF n, K
<1>8. j \in Jobs /\ j.at = "save" /\ j.size = n /\ j.k = K
      /\ j.build = job[p].build /\ j.intent = job[p].intent /\ j.base = job[p].base
  BY <1>2, <1>5, <1>7 DEF Jobs, Labels, Drafting
<1>9. job' = [job EXCEPT ![p] = j]
  BY <1>1, <1>2
<1> HIDE DEF j
<1>10. job' \in [Processes -> Jobs] /\ job'[p] = j /\ \A q \in Processes \ {p} : job'[q] = job[q]
  BY <1>2, <1>8, <1>9
<1>11. Types'
  BY <1>1, <1>2, <1>10 DEF HistoryInv, Types, disk
<1>12. Loose' = Loose
  <2>1. Loose = torn \cup LeftBehind(p) /\ Loose' = torn' \cup LeftBehind(p)' /\ Works(p)'
    BY <1>1, OneWorks, OneWorksOn
  <2> QED
    BY <1>1, <1>8, <1>10, <2>1 DEF LeftBehind, disk
<1>13. DiskInv'
  BY <1>1, <1>2, <1>12, DiskKept DEF Loose
<1> DEFINE b == job[p].build
<1>14. /\ phasePlan # NoPhasePlan /\ phasePlan.build = b /\ phasePlan.intent = job[p].intent
       /\ job[p].intent = "feature" => job[p].base # NoPhasePlan /\ Sound(job[p].base)
       /\ b \in torn \/ (job[p].intent = "greenfield" /\ InRegistry(b)) \/ Unused(b, {})
       /\ phasePlan.status[phasePlan.current] = "current"
       /\ \A k \in DOMAIN phasePlan.status : phasePlan.status[k] = "current" => k = phasePlan.current
       /\ b \in torn => job[p].base = phasePlan
       /\ Unused(b, {}) => phasePlan.current = 1
       /\ job[p].intent = "feature" /\ torn = {} /\ Len(projects) = 1 /\ Project.state = "closed" =>
            \A k \in DOMAIN job[p].base.status :
                k \in DOMAIN Project.phase /\ job[p].base.status[k] # "planned"
  BY <1>1, <1>3 DEF Ahead, Checkpointed, Drafting, SavedPlans
<1>15. UNCHANGED <<phasePlan, plan, projects>> /\ SavedPlans(p)' = {}
  BY <1>1, <1>8, <1>10 DEF disk, SavedPlans
<1>16. Ahead(p)'
  <2>1. Unused(b, {}) => Unused(b, {})'
    BY <1>1, <1>8, <1>10, <1>15 DEF Unused
  <2> QED
    BY <1>1, <1>8, <1>10, <1>14, <1>15, <2>1 DEF Ahead, InRegistry, Sound
<1>17. Checkpointed(p)'
  <2>1. Unused(b, {})' => Unused(b, {})
    BY <1>1, <1>8, <1>10, <1>15 DEF Unused
  <2> QED
    BY <1>1, <1>8, <1>10, <1>14, <1>15, <2>1 DEF Checkpointed, Project
<1>18. Decomposed(p)'
  <2>1. ASSUME job[p].intent = "feature" PROVE Project.build # b
    <3>1. Len(projects) = 1 /\ projects # <<>> /\ Project.state = "closed" /\ Newest = Project
      BY <1>2, <1>6, <2>1, TheProjectIs
    <3>2. SUFFICES ASSUME Project.build = b PROVE FALSE
      OBVIOUS
    <3>3. 1 \in DOMAIN projects /\ ~ Unused(b, {})
      BY <3>1, <3>2 DEF Unused, Project
    <3>4. b \in torn
      BY <1>14, <2>1, <3>3
    <3>5. \A k \in DOMAIN Project.phase : Project.phase[k].state = "closed"
      BY <1>2, <3>1, ClosedProject DEF HistoryInv, DiskInv
    <3>6. \/ phasePlan.current # 1 /\ phasePlan.status[1] = "current"
          \/ \E i \in DOMAIN Project.phase : i < phasePlan.current /\ Project.phase[i].state # "closed"
      BY <1>14, <2>1, <3>1, <3>2, <3>4 DEF HistoryInv, DiskInv, Settled
    <3>7. 1 \in DOMAIN phasePlan.status
      BY <1>4 DEF Sound
    <3> QED
      BY <1>14, <3>5, <3>6, <3>7
  <2>2. Before(p) = IF job[p].intent = "feature" THEN Len(Project.phase) ELSE 0
    BY DEF Before
  <2>3. Before(p)' = Before(p) /\ Project' = Project
    BY <1>8, <1>10, <1>15 DEF Before, Project
  <2>4. job[p].intent \in Intents
    BY <1>4, <1>14 DEF Sound
  <2>5. ASSUME job[p].intent # "feature" PROVE n = Split /\ K = Place(phasePlan.current)
    BY <1>4, <1>5, <1>6, <1>14, <2>4, <2>5 DEF Sound, Intents
  <2>6. K = Before(p) + Place(phasePlan.current) /\ Before(p) \in Nat
    BY <1>5, <1>6, <2>2, <2>5
  <2>7. K \in Before(p) + 1..Before(p) + n
    BY <1>5, <2>6
  <2>8. K = Before(p) + 1 => n = Split
    BY <1>4, <1>5, <2>6 DEF Sound
  <2>9. Unused(job[p].build, {job[p].k})' => K = Before(p) + 1
    <3>1. ASSUME Unused(job[p].build, {job[p].k})' PROVE Unused(b, {})
      <4>1. b \notin torn /\ ~ InRegistry(b)
        BY <1>1, <1>8, <1>10, <1>15, <3>1 DEF Unused, InRegistry
      <4> QED
        BY <1>14, <4>1
    <3> QED
      BY <1>5, <1>14, <2>6, <3>1
  <2>10. job[p].intent = "greenfield" => K = phasePlan.current /\ n = Split
    BY <1>6, <2>5
  <2>11. /\ job'[p].at = "save" /\ job'[p].intent = job[p].intent /\ job'[p].size = n
         /\ job'[p].k = K /\ job'[p].build = b
    BY <1>8, <1>10
  <2> HIDE DEF b
  <2> QED
    BY <1>6, <1>15, <1>5, <2>1, <2>3, <2>7, <2>8, <2>9, <2>10, <2>11 DEF Decomposed
<1>19. Numbered(p)'
  BY <1>6, <1>8, <1>10, <1>15 DEF Numbered, Before, Project, Place, n
<1>20. Stage(p)'
  BY <1>8, <1>10, <1>16, <1>17, <1>18, <1>19
     DEF Stage, Planning, Saved, Referenced, Retiring, Running, Entering, Drafting, Working
<1> QED
  BY <1>1, <1>10, <1>11, <1>13, <1>20, SessionStep

\* The plan of a Phase is saved.
LEMMA PlanKept ==
    ASSUME HistoryInv, NEW k \in Nat \ {0}, NEW b \in 1..builds, plan' = WithPlan(k, b),
           UNCHANGED <<phasePlan, projects, torn, builds>>, Loose' = Loose,
           projects # <<>> /\ k \in {1, phasePlan.current} /\ k \in DOMAIN Newest.phase =>
                FitsIn(b, Newest.phase[k].build)
    PROVE  /\ DiskInv' /\ plan' \in Maps(Nat)
           /\ DOMAIN plan' = DOMAIN plan \cup {k} /\ plan'[k] = b
           /\ \A i \in DOMAIN plan : i # k => plan'[i] = plan[i]
<1> USE DEF HistoryInv, DiskInv
<1>1. plan \in Maps(Nat) /\ b \in Nat /\ builds \in Nat
  BY DEF Types
<1>2. /\ plan' \in Maps(Nat) /\ DOMAIN plan' = DOMAIN plan \cup {k} /\ plan'[k] = b
      /\ \A i \in DOMAIN plan : i # k => plan'[i] = plan[i]
  <2>1. DOMAIN plan \subseteq Nat \ {0} /\ \A i \in DOMAIN plan : plan[i] \in Nat
    BY <1>1, MapIs
  <2>2. plan' \in [DOMAIN plan \cup {k} -> Nat] /\ DOMAIN plan \cup {k} \in SUBSET (Nat \ {0})
    BY <1>1, <2>1 DEF WithPlan
  <2>3. plan' \in Maps(Nat)
    BY <2>2, IsMap
  <2> QED
    BY <2>3 DEF WithPlan
<1>3. Numbers'
  BY <1>2 DEF Numbers
<1>4. PlanSound' /\ ProjectsOK' /\ Origin' /\ Settled'
  BY DEF PlanSound, ProjectsOK, ProjectOK, OfItsBuild, Origin, InRegistry, Settled, Newest, InStep
<1>5. Fit'
  BY <1>2 DEF Fit, FitsIn, Newest
<1> QED
  BY <1>2, <1>3, <1>4, <1>5

LEMMA SavePlanKeeps ==
    ASSUME LockInv, HistoryInv, NEW p \in Processes, SavePlan(p)
    PROVE  HistoryInv'
<1> DEFINE b == job[p].build
           K == job[p].k
<1>1. /\ Works(p) /\ job[p].at = "save" /\ UNCHANGED <<lock, phasePlan, projects, torn, builds>>
      /\ plan' = WithPlan(K, b) /\ GoOn(p, "refer")
  BY DEF SavePlan, At, counts
<1>2. Types /\ projects \in Seq(Projects) /\ builds \in Nat
  BY DEF HistoryInv, Types
<1>3. /\ job' \in [Processes -> Jobs] /\ \A q \in Processes \ {p} : job'[q] = job[q]
      /\ job'[p].at = "refer" /\ job'[p].intent = job[p].intent /\ job'[p].build = b
      /\ job'[p].k = K /\ job'[p].size = job[p].size /\ job'[p].base = job[p].base
  <2>1. "refer" \in Labels
    BY DEF Labels, Drafting
  <2> QED
    BY <1>1, <1>2, <2>1, GoesOn
<1>4. Ahead(p) /\ Checkpointed(p) /\ Decomposed(p) /\ Numbered(p)
  BY <1>1 DEF HistoryInv, JobInv, Stage
<1>5. /\ phasePlan # NoPhasePlan /\ phasePlan.build = b /\ phasePlan.intent = job[p].intent
      /\ job[p].intent = "feature" => job[p].base # NoPhasePlan /\ Sound(job[p].base)
      /\ b \in torn \/ (job[p].intent = "greenfield" /\ InRegistry(b)) \/ Unused(b, {})
      /\ phasePlan.status[phasePlan.current] = "current"
      /\ \A k \in DOMAIN phasePlan.status : phasePlan.status[k] = "current" => k = phasePlan.current
      /\ b \in torn => job[p].base = phasePlan
      /\ Unused(b, {}) => phasePlan.current = 1
      /\ job[p].intent = "feature" /\ torn = {} /\ Len(projects) = 1 /\ Project.state = "closed" =>
           \A k \in DOMAIN job[p].base.status :
               k \in DOMAIN Project.phase /\ job[p].base.status[k] # "planned"
  BY <1>1, <1>4 DEF Ahead, Checkpointed, Drafting, SavedPlans
<1>6. /\ Len(projects) <= 1
      /\ job[p].intent = "feature" =>
           Len(projects) = 1 /\ Project.state = "closed" /\ Project.build # b
      /\ Whole(job[p].size) /\ K \in Before(p) + 1..Before(p) + job[p].size
      /\ K = Before(p) + 1 => job[p].size = Split
      /\ Unused(b, {K}) => K = Before(p) + 1
      /\ job[p].intent = "greenfield" => K = phasePlan.current /\ job[p].size = Split
      /\ job[p].size = Cardinality(DOMAIN phasePlan.status)
      /\ job[p].intent = "feature" => K = Before(p) + Place(phasePlan.current)
  BY <1>1, <1>4 DEF Decomposed, Numbered, Drafting
<1>7. Sound(phasePlan)
  BY <1>5 DEF HistoryInv, DiskInv, PlanSound
<1>8. Before(p) \in Nat /\ K \in Nat \ {0}
  <2>1. job[p].intent = "feature" => Len(Project.phase) \in Nat
    BY <1>2, <1>6, TheProjectIs
  <2>2. Before(p) \in Nat
    BY <2>1 DEF Before
  <2>3. K \in Nat
    BY <1>2 DEF Types, Jobs
  <2> QED
    BY <1>6, <2>2, <2>3, WholeSums
<1>9. b \in 1..builds
  BY <1>2, <1>5, <1>7 DEF Sound, HistoryInv, DiskInv, Numbers
<1>10. Loose = torn \cup LeftBehind(p) /\ LeftBehind(p)' = LeftBehind(p) /\ Loose' = Loose
  <2>1. Loose = torn \cup LeftBehind(p) /\ Loose' = torn' \cup LeftBehind(p)' /\ Works(p)'
    BY <1>1, OneWorks, OneWorksOn
  <2>2. LeftBehind(p)' = LeftBehind(p)
    BY <1>1, <1>3, <2>1 DEF LeftBehind
  <2> QED
    BY <1>1, <2>1, <2>2
<1> HIDE DEF K
<1>11. ASSUME projects # <<>>, K \in DOMAIN Newest.phase PROVE FitsIn(b, Newest.phase[K].build)
  <2>1. Len(projects) = 1 /\ DOMAIN projects = {1} /\ Newest = projects[1] /\ Project = projects[1]
    BY <1>2, <1>6, <1>11, ProjectIs, TheProjectIs
  <2>2. CASE b \in Loose
    BY <2>2 DEF FitsIn
  <2>3. CASE b \notin Loose
    <3>1. b \notin LeftBehind(p)
      BY <1>10, <2>3
    <3>2. projects[1].build = b
      BY <1>1, <2>1, <3>1 DEF LeftBehind
    <3>3. job[p].intent = "greenfield"
      BY <1>5, <1>6, <1>7, <2>1, <3>2 DEF Sound, Intents
    <3>4. \A k \in DOMAIN projects[1].phase : projects[1].phase[k].build = b
      BY <1>5, <2>1, <3>2, <3>3 DEF HistoryInv, DiskInv, Origin
    <3> QED
      BY <1>11, <2>1, <3>4 DEF FitsIn
  <2> QED
    BY <2>2, <2>3
<1>12. /\ DiskInv' /\ plan' \in Maps(Nat)
       /\ DOMAIN plan' = DOMAIN plan \cup {K} /\ plan'[K] = b
       /\ \A i \in DOMAIN plan : i # K => plan'[i] = plan[i]
  <2> HIDE DEF b
  <2> QED
    BY <1>1, <1>8, <1>9, <1>10, <1>11, PlanKept
<1>13. Types'
  BY <1>1, <1>2, <1>3, <1>12 DEF Types
<1>14. SavedPlans(p)' = {K} /\ Before(p)' = Before(p) /\ Project' = Project
  BY <1>1, <1>3 DEF SavedPlans, Before, Project
<1>15. ASSUME Unused(b, {}) PROVE Unused(job[p].build, SavedPlans(p))'
  <2>1. \A k \in DOMAIN plan' \ {K} : plan'[k] # b
    BY <1>12, <1>15 DEF Unused
  <2> QED
    BY <1>1, <1>3, <1>14, <1>15, <2>1 DEF Unused
<1>16. ASSUME Unused(job[p].build, {job[p].k})' PROVE Unused(b, {})
  <2>1. b \notin torn /\ ~ InRegistry(b)
    BY <1>1, <1>3, <1>16 DEF Unused, InRegistry
  <2> QED
    BY <1>5, <2>1
<1>17. Ahead(p)'
  BY <1>1, <1>3, <1>5, <1>15 DEF Ahead, InRegistry, Sound
<1>18. Checkpointed(p)'
  BY <1>1, <1>3, <1>5, <1>14, <1>16 DEF Checkpointed, K
<1>19. Decomposed(p)'
  <2>1. Unused(job[p].build, {job[p].k})' => K = Before(p) + 1
    BY <1>5, <1>6, <1>8, <1>16, <1>7, PlaceOfCurrent DEF Before, Sound, Intents
  <2> QED
    BY <1>1, <1>3, <1>6, <1>14, <2>1 DEF Decomposed
<1>20. Numbered(p)' /\ Saved(p)'
  BY <1>1, <1>3, <1>6, <1>12, <1>14 DEF Numbered, Saved, Place
<1>21. Stage(p)'
  BY <1>3, <1>17, <1>18, <1>19, <1>20
     DEF Stage, Planning, Referenced, Retiring, Running, Entering, Working
<1> QED
  BY <1>1, <1>3, <1>12, <1>13, <1>21, SessionStep

LEMMA CheckpointKeeps ==
    ASSUME LockInv, HistoryInv, NEW p \in Processes, Checkpoint(p)
    PROVE  HistoryInv'
<1> DEFINE b == job[p].build
           fresh == [k \in 1..Split |-> IF k = 1 THEN "current" ELSE "planned"]
<1>1. /\ Works(p) /\ job[p].at = "planning" /\ UNCHANGED <<lock, plan, projects, torn, builds>>
      /\ phasePlan' = [build |-> b, intent |-> job[p].intent, current |-> 1, status |-> fresh]
      /\ GoOn(p, "decompose")
  BY DEF Checkpoint, At, counts
<1>2. Types /\ projects \in Seq(Projects) /\ builds \in Nat /\ phasePlan \in PhasePlans
  BY DEF HistoryInv, Types
<1>3. /\ job' \in [Processes -> Jobs] /\ \A q \in Processes \ {p} : job'[q] = job[q]
      /\ job'[p].at = "decompose" /\ job'[p].intent = job[p].intent /\ job'[p].build = b
      /\ job'[p].base = job[p].base
  <2>1. "decompose" \in Labels
    BY DEF Labels, Drafting
  <2> QED
    BY <1>1, <1>2, <2>1, GoesOn
<1>4. /\ b \in 1..builds /\ b # phasePlan.build /\ Unused(b, {})
      /\ job[p].base = phasePlan /\ job[p].intent \in Intents
      /\ job[p].intent = "feature" => phasePlan # NoPhasePlan
  BY <1>1 DEF HistoryInv, JobInv, Stage, Planning
<1>5. /\ fresh \in [1..Split -> Statuses] /\ DOMAIN fresh = 1..Split /\ fresh[1] = "current"
      /\ \A k \in 2..Split : fresh[k] = "planned"
      /\ \A k \in 1..Split : fresh[k] = "current" => k = 1
  BY HistoryAssumption DEF Statuses
<1> HIDE DEF fresh
<1>6. /\ phasePlan'.build = b /\ phasePlan'.intent = job[p].intent /\ phasePlan'.current = 1
      /\ phasePlan'.status = fresh
  BY <1>1
<1>7. phasePlan' \in PhasePlans
  <2>1. 1..Split \in SUBSET (Nat \ {0})
    OBVIOUS
  <2>2. fresh \in Maps(Statuses)
    BY <1>5, <2>1, IsMap
  <2>3. b \in Nat
    BY <1>4
  <2> HIDE DEF b
  <2> QED
    BY <1>1, <1>4, <2>2, <2>3 DEF PhasePlans
<1>8. Types'
  BY <1>1, <1>2, <1>3, <1>7 DEF Types
<1>9. 1 \in 1..Split /\ phasePlan' # NoPhasePlan
  BY <1>4, <1>6, HistoryAssumption, NoPhasePlanIs
<1>10. Sound(phasePlan')
  <2>1. Grid(1..Split)
    BY GridOfOne
  <2>2. ASSUME NEW k \in 1..Split, fresh[k] = "planned"
        PROVE  Dependent(k) /\ fresh[k - 1] \in {"planned", "current"}
    <3>1. k # 1
      BY <1>5, <2>2
    <3>2. k - 1 \in 1..Split
      BY <3>1, HistoryAssumption
    <3>3. fresh[k - 1] \in {"planned", "current"}
      BY <1>5, <3>2, HistoryAssumption
    <3>4. Split * 0 + k = k /\ 0 \in Nat
      BY HistoryAssumption
    <3>5. Dependent(Split * 0 + k)
      BY <3>1, <3>4, BlockIs
    <3> QED
      BY <3>3, <3>4, <3>5
  <2> QED
    BY <1>4, <1>5, <1>6, <1>9, <2>1, <2>2 DEF Sound
<1>11. Loose = torn /\ torn \subseteq Loose' /\ b \in Loose'
  <2>1. Loose = torn \cup LeftBehind(p) /\ Loose' = torn' \cup LeftBehind(p)' /\ Works(p)'
    BY <1>1, OneWorks, OneWorksOn
  <2>2. LeftBehind(p) = {}
    BY <1>1 DEF LeftBehind
  <2>3. b \notin {projects[i].build : i \in DOMAIN projects}
    BY <1>4 DEF Unused
  <2>4. b \in LeftBehind(p)'
    BY <1>1, <1>3, <2>1, <2>3 DEF LeftBehind
  <2> QED
    BY <1>1, <2>1, <2>2, <2>4
<1>12. \A i \in DOMAIN projects :
        projects[i].build # b /\ \A k \in DOMAIN projects[i].phase : projects[i].phase[k].build # b
  BY <1>4 DEF Unused
<1>13. projects # <<>> => Len(projects) \in DOMAIN projects
  BY <1>2, ProjectIs
<1>14. DiskInv'
  <2> USE DEF HistoryInv, DiskInv
  <2>1. Numbers'
    BY <1>1, <1>4, <1>6 DEF Numbers
  <2>2. PlanSound'
    BY <1>10 DEF PlanSound
  <2>3. ProjectsOK'
    BY <1>1 DEF ProjectsOK, ProjectOK, OfItsBuild
  <2>4. Fit'
    BY <1>1, <1>6, <1>9, <1>11, <1>12, <1>13 DEF Fit, FitsIn, Newest
  <2>5. Origin'
    BY <1>1, <1>6, <1>11, <1>12 DEF Origin
  <2>6. Settled'
    BY <1>1, <1>6, <1>12, <1>13 DEF Settled, Newest
  <2> QED
    BY <2>1, <2>2, <2>3, <2>4, <2>5, <2>6
<1>15. Ahead(p)'
  <2>1. job[p].intent = "feature" => Sound(phasePlan)
    BY <1>4 DEF HistoryInv, DiskInv, PlanSound
  <2>2. Unused(job[p].build, SavedPlans(p))'
    BY <1>1, <1>3, <1>4 DEF Unused, SavedPlans
  <2>3. job[p].intent = "feature" => Sound(job'[p].base)
    BY <1>3, <1>4, <2>1
  <2> QED
    BY <1>3, <1>4, <1>5, <1>6, <1>9, <2>2, <2>3 DEF Ahead, Sound
<1>16. Checkpointed(p)'
  <2>1. b \notin torn
    BY <1>4 DEF Unused
  <2>2. ASSUME job[p].intent = "feature", torn = {}, Len(projects) = 1, Project.state = "closed",
               NEW k \in DOMAIN phasePlan.status
        PROVE  k \in DOMAIN Project.phase /\ phasePlan.status[k] # "planned"
    <3>1. projects # <<>> /\ DOMAIN projects = {1} /\ Newest = Project /\ Project = projects[1]
      BY <1>2, <2>2, TheProjectIs
    <3>2. phasePlan.build = Project.build
      BY <1>4, <1>11, <2>2, <3>1 DEF HistoryInv, DiskInv, Origin, InRegistry
    <3>3. ~ LeavesOut(Project)
          /\ \A i \in DOMAIN Project.phase : Project.phase[i].steps # 0
      BY <1>2, <2>2, <3>1, ClosedProject DEF HistoryInv, DiskInv
    <3>4. InStep(Project)
      BY <3>1, <3>2, <3>3 DEF HistoryInv, DiskInv, Settled
    <3> QED
      BY <2>2, <3>3, <3>4 DEF InStep
  <2> QED
    BY <1>1, <1>3, <1>4, <1>5, <1>6, <2>1, <2>2 DEF Checkpointed, Project
<1>17. Stage(p)'
  BY <1>3, <1>15, <1>16 DEF Stage, Planning, Decomposed, Numbered, Saved, Referenced, Retiring, Running,
         Entering, Drafting, Working
<1> QED
  BY <1>1, <1>3, <1>8, <1>14, <1>17, SessionStep

\* The Phases of an increment, renamed to follow the m there are.
LEMMA RenamedIs ==
    ASSUME Sound(phasePlan), phasePlan \in PhasePlans, NEW p, NEW m, Whole(m), Offset(p) = m
    PROVE  /\ Grid(DOMAIN Renamed(p)) /\ Renamed(p) \in Maps(Statuses)
           /\ DOMAIN Renamed(p) = {m + Place(i) : i \in DOMAIN phasePlan.status}
           /\ \A i \in DOMAIN phasePlan.status :
                /\ Place(i) \in 1..Cardinality(DOMAIN phasePlan.status)
                /\ Renamed(p)[m + Place(i)] = phasePlan.status[i]
                /\ phasePlan.status[i] = "planned" =>
                    /\ Dependent(m + Place(i)) /\ m + Place(i) - 1 \in DOMAIN Renamed(p)
                    /\ Renamed(p)[m + Place(i) - 1] \in {"planned", "current"}
<1> DEFINE D == DOMAIN phasePlan.status
           R == Renamed(p)
           E == {m + PlaceIn(D, i) : i \in D}
<1>1. Grid(D) /\ phasePlan.status \in Maps(Statuses)
  BY DEF Sound, PhasePlans
<1>2. \A i \in D : phasePlan.status[i] = "planned" =>
            Dependent(i) /\ phasePlan.status[i - 1] \in {"planned", "current"}
  BY DEF Sound
<1>3. \A i \in D : Place(i) = PlaceIn(D, i)
  BY PlaceIs
<1>4. DOMAIN R = E
  BY <1>3 DEF Renamed
<1>5. \A k \in E : R[k] = phasePlan.status[CHOOSE i \in D : k = m + PlaceIn(D, i)]
  <2>1. ASSUME NEW k \in E
        PROVE  (CHOOSE i \in D : k = m + PlaceIn(D, i))
               = (CHOOSE i \in DOMAIN phasePlan.status : k = Offset(p) + Place(i))
    BY <1>3
  <2>2. E = {Offset(p) + Place(i) : i \in DOMAIN phasePlan.status}
    BY <1>3
  <2>3. \A k \in E : R[k] = phasePlan.status[CHOOSE i \in DOMAIN phasePlan.status : k = Offset(p) + Place(i)]
    BY <2>2 DEF Renamed
  <2> QED
    BY <2>1, <2>3
<1>6. \A i \in D : phasePlan.status[i] \in Statuses
  BY <1>1, MapIs
<1> HIDE DEF D, R
<1>7. m \in Nat /\ Cardinality(D) \in Nat /\ D \subseteq Nat \ {0}
  BY <1>1, GridPlaces, WholeSums
<1>8. \A i \in D : PlaceIn(D, i) \in 1..Cardinality(D)
  BY <1>1, GridPlaces
<1>9. \A i, j \in D : PlaceIn(D, i) = PlaceIn(D, j) => i = j
  <2>1. ASSUME NEW i \in D, NEW j \in D, PlaceIn(D, i) = PlaceIn(D, j) PROVE i = j
    <3>1. ~ (i < j) /\ ~ (j < i)
      <4>1. i < j => PlaceIn(D, i) < PlaceIn(D, j)
        BY <1>1, GridPlaces
      <4>2. j < i => PlaceIn(D, j) < PlaceIn(D, i)
        BY <1>1, GridPlaces
      <4>3. PlaceIn(D, i) \in Nat /\ PlaceIn(D, j) \in Nat
        BY <1>7, <1>8
      <4> QED
        BY <2>1, <4>1, <4>2, <4>3
    <3>2. i \in Nat /\ j \in Nat
      BY <1>7
    <3> QED
      BY <3>1, <3>2
  <2> QED
    BY <2>1
<1>10. \A i \in D : R[m + PlaceIn(D, i)] = phasePlan.status[i]
  <2> SUFFICES ASSUME NEW i \in D PROVE R[m + PlaceIn(D, i)] = phasePlan.status[i]
    OBVIOUS
  <2> DEFINE h == CHOOSE j \in D : m + PlaceIn(D, i) = m + PlaceIn(D, j)
  <2>1. h \in D /\ m + PlaceIn(D, i) = m + PlaceIn(D, h)
    OBVIOUS
  <2>2. R[m + PlaceIn(D, i)] = phasePlan.status[h]
    BY <1>5
  <2> HIDE DEF h
  <2>3. PlaceIn(D, i) \in Nat /\ PlaceIn(D, h) \in Nat
    BY <1>7, <1>8, <2>1
  <2>4. h = i
    BY <1>7, <1>9, <2>1, <2>3
  <2> QED
    BY <2>2, <2>4
<1>11. ASSUME NEW i \in D, phasePlan.status[i] = "planned"
       PROVE  /\ Dependent(m + PlaceIn(D, i)) /\ m + PlaceIn(D, i) - 1 \in E
              /\ R[m + PlaceIn(D, i) - 1] \in {"planned", "current"}
  <2>1. Dependent(i) /\ phasePlan.status[i - 1] \in {"planned", "current"}
    BY <1>2, <1>11 DEF D
  <2>2. i - 1 \in D /\ PlaceIn(D, i - 1) = PlaceIn(D, i) - 1 /\ Dependent(PlaceIn(D, i))
    BY <1>1, <2>1, GridPlaces
  <2>3. PlaceIn(D, i) \in Nat \ {0}
    BY <1>7, <1>8
  <2>4. m + PlaceIn(D, i) - 1 = m + PlaceIn(D, i - 1)
    BY <1>7, <2>2, <2>3
  <2>5. Dependent(m + PlaceIn(D, i))
    BY <2>2, <2>3, Shifted
  <2> QED
    BY <1>10, <2>1, <2>2, <2>4, <2>5
<1>12. Grid(E)
  BY <1>1, GridRenamed
<1>13. R \in Maps(Statuses)
  <2>1. E \in SUBSET (Nat \ {0})
    BY <1>7, <1>8
  <2>2. \A k \in E : R[k] \in Statuses
    BY <1>6, <1>10
  <2>3. R = [k \in E |-> R[k]]
    BY <1>4 DEF R, Renamed
  <2>4. R \in [E -> Statuses]
    <3> HIDE DEF E
    <3> QED
      BY <2>2, <2>3
  <2> QED
    BY <2>1, <2>4, IsMap
<1> QED
  BY <1>3, <1>4, <1>8, <1>10, <1>11, <1>12, <1>13 DEF D, R

\* Two PhasePlans in one, of which the newer goes first.
LEMMA JoinedIs ==
    ASSUME NEW f \in Maps(Statuses), NEW g \in Maps(Statuses), Grid(DOMAIN f), Grid(DOMAIN g),
           \A k \in DOMAIN f : f[k] = "planned" =>
                Dependent(k) /\ k - 1 \in DOMAIN f /\ f[k - 1] \in {"planned", "current"},
           \A k \in DOMAIN g : g[k] = "planned" => Dependent(k) /\ g[k - 1] \in {"planned", "current"},
           NEW j, j = Joined(f, g)
    PROVE  /\ j \in Maps(Statuses) /\ DOMAIN j = DOMAIN f \cup DOMAIN g /\ Grid(DOMAIN j)
           /\ \A k \in DOMAIN f : j[k] = f[k]
           /\ \A k \in DOMAIN g \ DOMAIN f : j[k] = g[k]
           /\ \A k \in DOMAIN j : j[k] = "planned" =>
                Dependent(k) /\ j[k - 1] \in {"planned", "current"}
<1> DEFINE D == DOMAIN f \cup DOMAIN g
<1>1. /\ DOMAIN f \subseteq Nat \ {0} /\ \A k \in DOMAIN f : f[k] \in Statuses
      /\ DOMAIN g \subseteq Nat \ {0} /\ \A k \in DOMAIN g : g[k] \in Statuses
  BY MapIs
<1>2. j = [k \in D |-> IF k \in DOMAIN f THEN f[k] ELSE g[k]]
  BY DEF Joined
<1>3. j \in [D -> Statuses] /\ D \in SUBSET (Nat \ {0})
  BY <1>1, <1>2
<1>4. DOMAIN j = D /\ \A k \in DOMAIN f : j[k] = f[k]
  BY <1>2
<1>5. \A k \in DOMAIN g \ DOMAIN f : j[k] = g[k]
  BY <1>2
<1>6. Grid(D)
  BY GridJoined
<1>7. j \in Maps(Statuses)
  BY <1>3, IsMap
<1>8. ASSUME NEW k \in D, j[k] = "planned"
      PROVE  Dependent(k) /\ j[k - 1] \in {"planned", "current"}
  <2>1. CASE k \in DOMAIN f
    BY <1>4, <1>8, <2>1
  <2>2. CASE k \notin DOMAIN f
    <3>1. k \in DOMAIN g /\ g[k] = "planned"
      BY <1>5, <1>8, <2>2
    <3>2. Dependent(k) /\ g[k - 1] \in {"planned", "current"}
      BY <3>1
    <3>3. k - 1 \in DOMAIN g
      BY <3>1, <3>2, GridPlaces
    <3>4. k - 1 \notin DOMAIN f
      <4>1. SUFFICES ASSUME k - 1 \in DOMAIN f PROVE FALSE
        OBVIOUS
      <4>2. (k - 1) + 1 = k
        BY <1>1, <3>1
      <4>3. Dependent((k - 1) + 1)
        BY <3>2, <4>2
      <4>4. (k - 1) + 1 \in DOMAIN f
        BY <4>1, <4>3, GridPlaces
      <4> QED
        BY <2>2, <4>2, <4>4
    <3> QED
      BY <1>5, <3>2, <3>3, <3>4
  <2> QED
    BY <2>1, <2>2
<1> QED
  BY <1>4, <1>5, <1>6, <1>7, <1>8

\* The PhasePlan that names an increment: what a build of an increment has there before its graph.
LEMMA ExtendedPlan ==
    ASSUME LockInv, HistoryInv, NEW p \in Processes, At(p, "refer"), job[p].intent = "feature",
           NEW m, m = Len(Project.phase), NEW j, j = Joined(Renamed(p), Preserved(p))
    PROVE  /\ j \in Maps(Statuses) /\ Grid(DOMAIN j) /\ 1 \in DOMAIN j
           /\ m \in Nat \ {0} /\ Whole(m) /\ Len(projects) = 1 /\ Project.state = "closed"
           /\ Project.build # job[p].build
           /\ job[p].k \in DOMAIN j /\ job[p].k > m /\ j[job[p].k] = "current"
           /\ \A k \in DOMAIN j : j[k] = "planned" => Dependent(k) /\ j[k - 1] \in {"planned", "current"}
           /\ job[p].build \in torn => j[1] = "current" \/ job[p].k > m + 1
           /\ \A k \in DOMAIN j :
                /\ job[p].k = m + 1 /\ k \in m + 1..m + job[p].size => j[k] # "complete"
                /\ torn = {} => k <= m + job[p].size /\ (k <= m => j[k] # "planned")
<1> DEFINE b == job[p].build
           K == job[p].k
           D == DOMAIN phasePlan.status
           c == phasePlan.current
           R == Renamed(p)
           S == Preserved(p)
           n == Cardinality(D)
<1>1. Works(p) /\ job[p].at = "refer" /\ job[p] \in Jobs /\ phasePlan \in PhasePlans
      /\ projects \in Seq(Projects)
  BY DEF At, HistoryInv, Types
<1>2. Ahead(p) /\ Checkpointed(p) /\ Decomposed(p) /\ Numbered(p)
  BY <1>1 DEF HistoryInv, JobInv, Stage
<1>3. /\ phasePlan # NoPhasePlan /\ phasePlan.status[c] = "current"
      /\ job[p].base # NoPhasePlan /\ Sound(job[p].base)
      /\ \A k \in D : phasePlan.status[k] = "current" => k = c
      /\ b \in torn => job[p].base = phasePlan
      /\ torn = {} /\ Len(projects) = 1 /\ Project.state = "closed" =>
           \A k \in DOMAIN job[p].base.status :
               k \in DOMAIN Project.phase /\ job[p].base.status[k] # "planned"
  BY <1>1, <1>2 DEF Ahead, Checkpointed, Drafting
<1>4. /\ Len(projects) = 1 /\ Project.state = "closed" /\ Project.build # b
      /\ job[p].size = n /\ K = m + Place(c) /\ (K = m + 1 => job[p].size = Split)
  BY <1>1, <1>2 DEF Decomposed, Numbered, Drafting, Before
<1>5. Sound(phasePlan)
  BY <1>3 DEF HistoryInv, DiskInv, PlanSound
<1>6. /\ projects # <<>> /\ Project = projects[1] /\ DOMAIN projects = {1}
      /\ Len(Project.phase) \in Nat /\ DOMAIN Project.phase = 1..Len(Project.phase)
  BY <1>1, <1>4, TheProjectIs
<1>7. m \in Nat \ {0} /\ Whole(m)
  BY <1>6 DEF HistoryInv, DiskInv, ProjectsOK, ProjectOK
<1>8. /\ n \in Nat /\ Place(c) \in 1..n /\ (Place(c) = 1 => c = 1)
  BY <1>5, PlaceOfCurrent
<1>9. Offset(p) = m
  BY <1>4, <1>7, <1>8 DEF Offset
<1>10. /\ Grid(DOMAIN R) /\ R \in Maps(Statuses)
       /\ DOMAIN R = {m + Place(i) : i \in D}
       /\ \A i \in D :
            /\ Place(i) \in 1..n
            /\ R[m + Place(i)] = phasePlan.status[i]
            /\ phasePlan.status[i] = "planned" =>
                /\ Dependent(m + Place(i)) /\ m + Place(i) - 1 \in DOMAIN R
                /\ R[m + Place(i) - 1] \in {"planned", "current"}
  BY <1>1, <1>5, <1>7, <1>9, RenamedIs
<1>11. /\ S \in Maps(Statuses) /\ Grid(DOMAIN S) /\ 1 \in DOMAIN S
       /\ \A k \in DOMAIN S : S[k] = "planned" => Dependent(k) /\ S[k - 1] \in {"planned", "current"}
       /\ DOMAIN S \subseteq Nat \ {0}
  <2>1. S \in Maps(Statuses)
    BY <1>1 DEF Preserved, Jobs, PhasePlans
  <2> QED
    BY <1>3, <2>1, MapIs DEF Sound, Preserved
<1>12. c \in D /\ (c = 1 => D = 1..Split /\ \A k \in 2..Split : phasePlan.status[k] = "planned")
  BY <1>5 DEF Sound
<1> HIDE DEF R, S, D, n
<1>13. \A k \in DOMAIN R : R[k] = "planned" =>
            Dependent(k) /\ k - 1 \in DOMAIN R /\ R[k - 1] \in {"planned", "current"}
  <2> SUFFICES ASSUME NEW k \in DOMAIN R, R[k] = "planned"
               PROVE  Dependent(k) /\ k - 1 \in DOMAIN R /\ R[k - 1] \in {"planned", "current"}
    OBVIOUS
  <2>1. PICK i \in D : k = m + Place(i)
    BY <1>10
  <2>2. phasePlan.status[i] = "planned"
    BY <1>10, <2>1
  <2> QED
    BY <1>10, <2>1, <2>2
<1>14. /\ j \in Maps(Statuses) /\ DOMAIN j = DOMAIN R \cup DOMAIN S /\ Grid(DOMAIN j)
       /\ \A k \in DOMAIN R : j[k] = R[k]
       /\ \A k \in DOMAIN S \ DOMAIN R : j[k] = S[k]
       /\ \A k \in DOMAIN j : j[k] = "planned" => Dependent(k) /\ j[k - 1] \in {"planned", "current"}
  <2>1. j = Joined(R, S)
    BY DEF R, S
  <2>2. R \in Maps(Statuses) /\ Grid(DOMAIN R) /\ S \in Maps(Statuses) /\ Grid(DOMAIN S)
    BY <1>10, <1>11
  <2>3. \A k \in DOMAIN S : S[k] = "planned" => Dependent(k) /\ S[k - 1] \in {"planned", "current"}
    BY <1>11
  <2> QED
    BY <1>13, <2>1, <2>2, <2>3, JoinedIs
<1>15. \A k \in DOMAIN R : k \in m + 1..m + n
  BY <1>7, <1>8, <1>10
<1>16. K \in DOMAIN R /\ j[K] = "current" /\ K > m
  <2>1. R[m + Place(c)] = phasePlan.status[c] /\ m + Place(c) \in DOMAIN R
    BY <1>10, <1>12
  <2> QED
    BY <1>3, <1>4, <1>7, <1>8, <1>14, <2>1
<1>17. 1 \notin DOMAIN R
  BY <1>7, <1>8, <1>15
<1>18. ASSUME b \in torn PROVE j[1] = "current" \/ K > m + 1
  <2>1. j[1] = phasePlan.status[1]
    BY <1>3, <1>11, <1>14, <1>17, <1>18 DEF S, Preserved
  <2>2. c # 1 => Place(c) > 1
    BY <1>8
  <2> QED
    BY <1>3, <1>4, <1>7, <1>8, <2>1, <2>2
<1>19. ASSUME NEW k \in DOMAIN j, K = m + 1, k \in m + 1..m + job[p].size PROVE j[k] # "complete"
  <2>1. c = 1 /\ D = 1..Split /\ n = Split
    BY <1>4, <1>7, <1>8, <1>12, <1>19
  <2>2. k - m \in D /\ k = m + (k - m)
    BY <1>4, <1>7, <1>19, <2>1, HistoryAssumption
  <2>3. Place(k - m) = k - m
    BY <2>1, <2>2, PlaceIs, GridOfOne DEF D
  <2>4. k \in DOMAIN R /\ R[k] = phasePlan.status[k - m]
    BY <1>10, <2>2, <2>3
  <2>5. phasePlan.status[k - m] \in {"current", "planned"}
    <3>1. CASE k - m = 1
      BY <1>3, <2>1, <3>1
    <3>2. CASE k - m # 1
      BY <1>12, <2>1, <2>2, <3>2, HistoryAssumption
    <3> QED
      BY <3>1, <3>2
  <2> QED
    BY <1>14, <2>4, <2>5
<1>20. ASSUME NEW k \in DOMAIN j, torn = {}
       PROVE  k <= m + job[p].size /\ (k <= m => j[k] # "planned")
  <2>1. CASE k \in DOMAIN R
    BY <1>4, <1>7, <1>8, <1>15, <2>1
  <2>2. CASE k \notin DOMAIN R
    <3>1. k \in DOMAIN S /\ j[k] = S[k]
      BY <1>14, <2>2
    <3>2. k \in DOMAIN Project.phase /\ S[k] # "planned"
      BY <1>3, <1>4, <1>20, <3>1 DEF S, Preserved
    <3> QED
      BY <1>4, <1>6, <1>7, <1>8, <3>1, <3>2
  <2> QED
    BY <2>1, <2>2
<1> QED
  BY <1>4, <1>7, <1>11, <1>14, <1>16, <1>18, <1>19, <1>20

LEMMA SavePhasePlanKeeps ==
    ASSUME LockInv, HistoryInv, NEW p \in Processes, SavePhasePlan(p)
    PROVE  HistoryInv'
<1> DEFINE b == job[p].build
           K == job[p].k
           F == job[p].intent = "feature"
<1>1. /\ Works(p) /\ job[p].at = "refer" /\ UNCHANGED <<lock, plan, projects, torn, builds>>
      /\ phasePlan' = [phasePlan EXCEPT
            !.build = b, !.current = K,
            !.status = IF F THEN Joined(Renamed(p), Preserved(p)) ELSE @]
      /\ GoOn(p, "graph") /\ At(p, "refer")
  BY DEF SavePhasePlan, At, counts
<1>2. /\ Types /\ projects \in Seq(Projects) /\ builds \in Nat /\ phasePlan \in PhasePlans
      /\ job[p] \in Jobs /\ torn \subseteq Nat
  BY DEF HistoryInv, Types
<1>3. /\ job' \in [Processes -> Jobs] /\ \A q \in Processes \ {p} : job'[q] = job[q]
      /\ job'[p].at = "graph" /\ job'[p].intent = job[p].intent /\ job'[p].build = b
      /\ job'[p].k = K /\ job'[p].size = job[p].size /\ job'[p].base = job[p].base
  <2>1. "graph" \in Labels
    BY DEF Labels, Drafting
  <2> QED
    BY <1>1, <1>2, <2>1, GoesOn
<1>4. Ahead(p) /\ Checkpointed(p) /\ Decomposed(p) /\ Numbered(p) /\ Saved(p)
  BY <1>1 DEF HistoryInv, JobInv, Stage
<1>5. /\ phasePlan # NoPhasePlan /\ phasePlan.build = b /\ phasePlan.intent = job[p].intent
      /\ job[p].intent = "feature" => job[p].base # NoPhasePlan /\ Sound(job[p].base)
      /\ b \in torn \/ (job[p].intent = "greenfield" /\ InRegistry(b)) \/ Unused(b, {K})
      /\ phasePlan.status[phasePlan.current] = "current"
  BY <1>1, <1>4 DEF Ahead, Drafting, SavedPlans
<1>6. /\ Len(projects) <= 1
      /\ F => Len(projects) = 1 /\ Project.state = "closed" /\ Project.build # b
      /\ Whole(job[p].size) /\ K \in Before(p) + 1..Before(p) + job[p].size
      /\ K = Before(p) + 1 => job[p].size = Split
      /\ Unused(b, {K}) => K = Before(p) + 1
      /\ job[p].intent = "greenfield" => K = phasePlan.current /\ job[p].size = Split
      /\ K \in DOMAIN plan /\ plan[K] = b
  BY <1>1, <1>4 DEF Decomposed, Saved, Drafting
<1>7. Sound(phasePlan)
  BY <1>5 DEF HistoryInv, DiskInv, PlanSound
<1>8. job[p].intent \in Intents
  BY <1>5, <1>7 DEF Sound
<1>9. Loose' = Loose
  <2>1. Loose = torn \cup LeftBehind(p) /\ Loose' = torn' \cup LeftBehind(p)' /\ Works(p)'
    BY <1>1, OneWorks, OneWorksOn
  <2>2. LeftBehind(p)' = LeftBehind(p)
    BY <1>1, <1>3, <2>1 DEF LeftBehind
  <2> QED
    BY <1>1, <2>1, <2>2
<1>10. SavedPlans(p)' = {K} /\ Before(p)' = Before(p) /\ Project' = Project
  BY <1>1, <1>3 DEF SavedPlans, Before, Project
<1>11. Unused(job[p].build, {job[p].k})' = Unused(b, {K})
  BY <1>1, <1>3 DEF Unused
<1>12. Saved(p)'
  BY <1>1, <1>3, <1>6 DEF Saved
<1>13. CASE job[p].intent = "greenfield"
  <2>1. phasePlan' = phasePlan
    <3>1. b = phasePlan.build /\ K = phasePlan.current /\ ~ F
      BY <1>5, <1>6, <1>13
    <3>2. phasePlan' = [phasePlan EXCEPT !.build = phasePlan.build, !.current = phasePlan.current,
                                         !.status = phasePlan.status]
      BY <1>1, <3>1
    <3> QED
      BY <1>2, <3>2 DEF PhasePlans
  <2>2. DiskInv'
    BY <1>1, <1>2, <1>9, <2>1, DiskKept DEF disk, Loose
  <2>3. Types'
    BY <1>1, <1>2, <1>3, <2>1 DEF Types
  <2>4. Ahead(p)'
    <3>1. Unused(b, {K}) => Unused(job[p].build, SavedPlans(p))'
      BY <1>3, <1>10, <1>11
    <3>2. InRegistry(b) => InRegistry(job[p].build)'
      BY <1>1, <1>3 DEF InRegistry
    <3> QED
      BY <1>1, <1>3, <1>5, <1>13, <2>1, <3>1, <3>2 DEF Ahead
  <2>5. Decomposed(p)'
    BY <1>1, <1>3, <1>6, <1>10, <1>11, <1>13, <2>1 DEF Decomposed
  <2>6. Referenced(p)'
    BY <1>3, <1>6, <1>13, <2>1 DEF Referenced
  <2>7. Stage(p)'
    BY <1>3, <1>12, <2>4, <2>5, <2>6
       DEF Stage, Planning, Checkpointed, Numbered, Retiring, Running, Entering, Working
  <2> QED
    BY <1>1, <1>3, <2>2, <2>3, <2>7, SessionStep
<1>14. CASE job[p].intent = "feature"
  <2> DEFINE m == Len(Project.phase)
             j == Joined(Renamed(p), Preserved(p))
  <2>1. /\ j \in Maps(Statuses) /\ Grid(DOMAIN j) /\ 1 \in DOMAIN j
        /\ m \in Nat \ {0} /\ Whole(m) /\ Len(projects) = 1 /\ Project.state = "closed"
        /\ Project.build # b
        /\ K \in DOMAIN j /\ K > m /\ j[K] = "current"
        /\ \A k \in DOMAIN j : j[k] = "planned" => Dependent(k) /\ j[k - 1] \in {"planned", "current"}
        /\ b \in torn => j[1] = "current" \/ K > m + 1
        /\ \A k \in DOMAIN j :
             /\ K = m + 1 /\ k \in m + 1..m + job[p].size => j[k] # "complete"
             /\ torn = {} => k <= m + job[p].size /\ (k <= m => j[k] # "planned")
    BY <1>1, <1>14, ExtendedPlan
  <2>2. phasePlan' = [phasePlan EXCEPT !.build = b, !.current = K, !.status = j]
    BY <1>1, <1>14
  <2> HIDE DEF j
  <2>3. b \in Nat /\ K \in Nat
    BY <1>2 DEF Jobs
  <2>4. /\ phasePlan' \in PhasePlans /\ phasePlan'.build = b /\ phasePlan'.current = K
        /\ phasePlan'.status = j /\ phasePlan'.intent = "feature"
    <3> HIDE DEF b, K
    <3> QED
      BY <1>2, <1>5, <1>14, <2>1, <2>2, <2>3 DEF PhasePlans
  <2>5. /\ projects # <<>> /\ Project = projects[1] /\ DOMAIN projects = {1} /\ Newest = Project
        /\ DOMAIN Project.phase = 1..m
    BY <1>2, <2>1, TheProjectIs
  <2>6. K # 1 /\ K \notin DOMAIN Project.phase
    BY <2>1, <2>3, <2>5
  <2>7. phasePlan' # NoPhasePlan
    BY <1>7, <1>5, <2>4, NoPhasePlanIs DEF Sound
  <2>8. DiskInv'
    <3> USE DEF HistoryInv, DiskInv
    <3>1. Numbers'
      BY <1>1, <1>5, <2>4 DEF Numbers
    <3>2. Sound(phasePlan')
      BY <1>5, <1>7, <2>1, <2>4, <2>6 DEF Sound, Intents
    <3>3. PlanSound'
      BY <3>2 DEF PlanSound
    <3>4. ProjectsOK'
      BY <1>1 DEF ProjectsOK, ProjectOK, OfItsBuild
    <3>5. Newest' = Newest
      BY <1>1 DEF Newest
    <3>6. Fit'
      BY <1>1, <1>5, <1>9, <2>4, <2>5, <2>6, <2>7, <3>5 DEF Fit, FitsIn
    <3>7. Origin'
      BY <1>1, <1>5, <1>9, <2>4 DEF Origin, InRegistry
    <3>8. Settled'
      BY <1>1, <2>1, <2>4, <2>5, <3>5 DEF Settled
    <3> QED
      BY <3>1, <3>3, <3>4, <3>6, <3>7, <3>8
  <2>9. Types'
    BY <1>1, <1>2, <1>3, <2>4 DEF Types
  <2>10. Ahead(p)'
    BY <1>1, <1>3, <1>5, <1>10, <1>11, <1>14, <2>1, <2>4, <2>7 DEF Ahead, Sound
  <2>11. Decomposed(p)'
    BY <1>1, <1>3, <1>6, <1>10, <1>11, <1>14 DEF Decomposed
  <2>12. Before(p) = m
    BY <1>14 DEF Before
  <2>13. Referenced(p)'
    BY <1>1, <1>3, <1>10, <1>14, <2>1, <2>4, <2>12 DEF Referenced
  <2>14. Stage(p)'
    BY <1>3, <1>12, <2>10, <2>11, <2>13
       DEF Stage, Planning, Checkpointed, Numbered, Retiring, Running, Entering, Working
  <2> QED
    BY <1>1, <1>3, <2>8, <2>9, <2>14, SessionStep
<1> QED
  BY <1>8, <1>13, <1>14 DEF Intents

\* The Phases of a build as its graph has them.
LEMMA CompiledIs ==
    ASSUME NEW p \in Processes, job[p] \in Jobs, NEW m \in Nat
    PROVE  /\ Compiled(p, m) \in Seq(Phases) /\ Len(Compiled(p, m)) = job[p].size
           /\ DOMAIN Compiled(p, m) = 1..job[p].size
           /\ \A i \in 1..job[p].size :
                /\ Compiled(p, m)[i] \in Phases
                /\ Compiled(p, m)[i].build = job[p].build /\ Compiled(p, m)[i].state = "created"
                /\ Compiled(p, m)[i].steps = IF m + i = job[p].k THEN job[p].build ELSE 0
<1> DEFINE e(i) == [build |-> job[p].build, state |-> "created", steps |-> ActiveSteps(p, m + i)]
<1>1. job[p].size \in Nat /\ job[p].build \in Nat
  BY DEF Jobs
<1>2. Compiled(p, m) = [i \in 1..job[p].size |-> e(i)]
  BY DEF Compiled
<1>3. \A i \in 1..job[p].size :
        /\ e(i) \in Phases /\ e(i).build = job[p].build /\ e(i).state = "created"
        /\ e(i).steps = IF m + i = job[p].k THEN job[p].build ELSE 0
  BY <1>1 DEF Phases, PhaseStates, ActiveSteps
<1> HIDE DEF e
<1>4. Compiled(p, m) \in [1..job[p].size -> Phases]
  BY <1>2, <1>3
<1>5. Compiled(p, m) \in Seq(Phases) /\ Len(Compiled(p, m)) = job[p].size
  BY <1>1, <1>4
<1> QED
  BY <1>2, <1>3, <1>4, <1>5

LEMMA PersistGraphKeeps ==
    ASSUME LockInv, HistoryInv, NEW p \in Processes, PersistGraph(p)
    PROVE  HistoryInv'
<1> DEFINE next == IF projects = <<>> THEN "end" ELSE "retire"
<1>0. PICK b, K, q, new :
        /\ b = job[p].build /\ K = job[p].k /\ q = Compiled(p, 0)
        /\ new = [build |-> b, current |-> K, state |-> "planning", phase |-> q]
  OBVIOUS
<1>1. /\ Works(p) /\ job[p].at = "graph" /\ job[p].intent = "greenfield"
      /\ projects' = Append(projects, new) /\ GoOn(p, next)
      /\ UNCHANGED <<lock, phasePlan, plan, torn, builds>>
  BY <1>0 DEF PersistGraph, At, counts
<1>2. /\ Types /\ projects \in Seq(Projects) /\ builds \in Nat /\ phasePlan \in PhasePlans
      /\ job[p] \in Jobs
  BY DEF HistoryInv, Types
<1>3. /\ job' \in [Processes -> Jobs] /\ \A r \in Processes \ {p} : job'[r] = job[r]
      /\ job'[p].at = next /\ job'[p].build = b
  <2>1. next \in Labels
    BY DEF Labels
  <2> QED
    BY <1>0, <1>1, <1>2, <2>1, GoesOn
<1>4. Ahead(p) /\ Decomposed(p) /\ Saved(p) /\ Referenced(p)
  BY <1>1 DEF HistoryInv, JobInv, Stage
<1>5. /\ phasePlan # NoPhasePlan /\ phasePlan.build = b /\ phasePlan.intent = "greenfield"
      /\ b \in torn \/ InRegistry(b) \/ Unused(b, {K})
      /\ phasePlan.status[phasePlan.current] = "current"
      /\ Len(projects) <= 1 /\ K = phasePlan.current /\ job[p].size = Split
      /\ (Unused(b, {K}) => K = 1) /\ K \in DOMAIN plan /\ plan[K] = b
  <2>1. Before(p) + 1 = 1
    BY <1>1 DEF Before
  <2> QED
    BY <1>0, <1>1, <1>4, <2>1 DEF Ahead, Decomposed, Saved, Referenced, Drafting, SavedPlans
<1>6. Sound(phasePlan) /\ b # 0 /\ K \in 1..Split /\ b \in Nat /\ b \in 1..builds
  <2>1. Sound(phasePlan)
    BY <1>5 DEF HistoryInv, DiskInv, PlanSound
  <2>2. b # 0 /\ K \in 1..Split
    BY <1>5, <2>1 DEF Sound
  <2>3. b \in 0..builds /\ b \in Nat
    BY <1>2, <1>5 DEF HistoryInv, DiskInv, Numbers, Jobs
  <2> QED
    BY <1>2, <2>1, <2>2, <2>3
<1>7. /\ q \in Seq(Phases) /\ Len(q) = Split /\ DOMAIN q = 1..Split
      /\ \A i \in 1..Split :
            q[i].build = b /\ q[i].state = "created" /\ q[i].steps = IF i = K THEN b ELSE 0
  <2>1. 0 \in Nat /\ \A i \in 1..Split : 0 + i = i
    OBVIOUS
  <2>2. /\ Compiled(p, 0) \in Seq(Phases) /\ Len(Compiled(p, 0)) = job[p].size
        /\ DOMAIN Compiled(p, 0) = 1..job[p].size
        /\ \A i \in 1..job[p].size :
            /\ Compiled(p, 0)[i].build = job[p].build /\ Compiled(p, 0)[i].state = "created"
            /\ Compiled(p, 0)[i].steps = IF 0 + i = job[p].k THEN job[p].build ELSE 0
    BY <1>2, <2>1, CompiledIs
  <2> QED
    BY <1>0, <1>5, <2>1, <2>2
<1>8. /\ new \in Projects /\ new.build = b /\ new.current = K /\ new.state = "planning"
      /\ new.phase = q
  <2>1. K \in Nat
    BY <1>6, HistoryAssumption
  <2> QED
    BY <1>0, <1>6, <1>7, <2>1 DEF Projects, ProjectStates
<1>9. /\ projects' \in Seq(Projects) /\ Len(projects') = Len(projects) + 1 /\ projects' # <<>>
      /\ DOMAIN projects' = 1..Len(projects) + 1 /\ DOMAIN projects = 1..Len(projects)
      /\ projects'[Len(projects) + 1] = new
      /\ \A i \in 1..Len(projects) : projects'[i] = projects[i]
      /\ Len(projects) \in Nat
  BY <1>1, <1>2, <1>8
<1>10. Newest' = new
  BY <1>9 DEF Newest
<1>11. torn \subseteq Loose'
  BY <1>1 DEF Loose
<1>12. b \in LeftBehind(p) => ~ InRegistry(b)
  BY <1>0 DEF LeftBehind, InRegistry
<1>13. ASSUME 1 \in DOMAIN plan PROVE FitsIn(plan[1], b)'
  <2>1. CASE K = 1
    BY <1>1, <1>5, <2>1 DEF FitsIn
  <2>2. CASE b \in torn
    BY <1>1, <1>11, <2>2 DEF FitsIn
  <2>3. CASE K # 1 /\ b \notin torn
    <3>1. InRegistry(b)
      BY <1>5, <2>3
    <3>2. projects # <<>> /\ Len(projects) = 1
      BY <1>2, <1>5, <3>1, ProjectIs DEF InRegistry
    <3>3. DOMAIN projects = {1} /\ Newest = projects[1] /\ projects[1].build = b
      BY <1>2, <3>1, <3>2, TheProjectIs DEF InRegistry
    <3>4. ProjectOK(projects[1]) /\ projects[1].phase \in Seq(Phases)
      BY <1>2, <3>2, <3>3, TheProjectIs DEF HistoryInv, DiskInv, ProjectsOK
    <3>5. 1 \in DOMAIN projects[1].phase
      BY <3>4 DEF ProjectOK
    <3>6. projects[1].phase[1].build = b
      BY <1>5, <3>3, <3>5 DEF HistoryInv, DiskInv, Origin
    <3>7. FitsIn(plan[1], b)
      BY <1>13, <3>2, <3>3, <3>5, <3>6 DEF HistoryInv, DiskInv, Fit
    <3>8. Loose = torn
      <4>1. Loose = torn \cup LeftBehind(p)
        BY <1>1, OneWorks
      <4>2. LeftBehind(p) \subseteq {b}
        BY <1>0 DEF LeftBehind
      <4> QED
        BY <1>12, <3>1, <4>1, <4>2
    <3> QED
      BY <1>1, <1>11, <3>7, <3>8 DEF FitsIn
  <2> QED
    BY <2>1, <2>2, <2>3
<1>14. DiskInv'
  <2> USE DEF HistoryInv, DiskInv
  <2>1. Numbers'
    <3>1. ASSUME NEW i \in DOMAIN projects'
          PROVE  /\ projects'[i].build \in 1..builds
                 /\ \A k \in DOMAIN projects'[i].phase :
                      projects'[i].phase[k].build \in 1..builds /\ projects'[i].phase[k].steps \in 0..builds
      <4>1. CASE i \in 1..Len(projects)
        BY <1>9, <4>1 DEF Numbers
      <4>2. CASE i = Len(projects) + 1
        BY <1>2, <1>6, <1>7, <1>8, <1>9, <4>2
      <4> QED
        BY <1>9, <4>1, <4>2
    <3> QED
      BY <1>1, <3>1 DEF Numbers
  <2>2. PlanSound'
    BY <1>1 DEF PlanSound
  <2>3. ProjectsOK'
    <3>1. \A pr : ProjectOK(pr) => ProjectOK(pr)'
      BY <1>1 DEF ProjectOK, OfItsBuild
    <3>2. ProjectOK(new)'
      <4>1. Whole(Split) /\ Split > 0
        BY HistoryAssumption DEF Whole
      <4>2. \A k \in 1..Split : Dependent(k) => k - 1 \in 1..Split
        BY FirstIsFree, HistoryAssumption
      <4>3. \A k \in 1..Split : OfItsBuild(q[k])'
        BY <1>7 DEF OfItsBuild
      <4> QED
        BY <1>6, <1>7, <1>8, <4>1, <4>2, <4>3 DEF ProjectOK
    <3>3. \A i \in DOMAIN projects' : projects'[i] = new \/ \E k \in DOMAIN projects : projects'[i] = projects[k]
      BY <1>9
    <3> QED
      BY <1>5, <1>9, <3>1, <3>2, <3>3 DEF ProjectsOK
  <2>4. Fit'
    BY <1>1, <1>5, <1>6, <1>7, <1>8, <1>10, <1>13 DEF Fit, FitsIn
  <2>5. Origin'
    <3>1. InRegistry(phasePlan.build)'
      BY <1>1, <1>5, <1>8, <1>9 DEF InRegistry
    <3>2. ASSUME NEW i \in DOMAIN projects', projects'[i].build = b, NEW k \in DOMAIN projects'[i].phase
          PROVE  projects'[i].phase[k].build = b
      <4>1. CASE i \in 1..Len(projects)
        BY <1>5, <1>9, <3>2, <4>1 DEF Origin
      <4>2. CASE i = Len(projects) + 1
        BY <1>7, <1>8, <1>9, <3>2, <4>2
      <4> QED
        BY <1>9, <4>1, <4>2
    <3> QED
      BY <1>1, <1>5, <3>1, <3>2 DEF Origin
  <2>6. Settled'
    <3>1. ASSUME ~ LeavesOut(new) PROVE InStep(new)'
      <4>1. K = 1
        <5>1. SUFFICES ASSUME K # 1 PROVE FALSE
          OBVIOUS
        <5>2. 1 \in DOMAIN new.phase /\ K \in DOMAIN new.phase /\ 1 < K
          BY <1>6, <1>7, <1>8, <5>1
        <5>3. new.phase[K].steps # 0 /\ new.phase[1].state # "closed"
          BY <1>6, <1>7, <1>8, <5>2
        <5> QED
          BY <3>1, <5>2, <5>3 DEF LeavesOut
      <4>2. /\ DOMAIN phasePlan.status = 1..Split /\ phasePlan.status[1] = "current"
            /\ \A k \in 2..Split : phasePlan.status[k] = "planned"
        BY <1>5, <1>6, <4>1 DEF Sound
      <4>3. \A k \in 1..Split : phasePlan.status[k] # "complete" /\ (phasePlan.status[k] = "planned" => k # 1)
        BY <4>2, HistoryAssumption
      <4> QED
        BY <1>1, <1>5, <1>7, <1>8, <4>1, <4>2, <4>3 DEF InStep
    <3>2. \A k \in 1..Split : q[k].steps # 0 => k <= K
      BY <1>6, <1>7
    <3> QED
      BY <1>1, <1>5, <1>7, <1>8, <1>10, <3>1, <3>2 DEF Settled
  <2> QED
    BY <2>1, <2>2, <2>3, <2>4, <2>5, <2>6
<1>15. Types'
  BY <1>1, <1>2, <1>3, <1>9 DEF Types
<1>16. Retiring(p)'
  <2>1. projects # <<>> => Len(projects) = 1
    BY <1>2, <1>5, ProjectIs
  <2> QED
    BY <1>1, <1>3, <1>5, <1>8, <1>9, <1>10, <2>1 DEF Retiring
<1>17. Stage(p)'
  BY <1>3, <1>16 DEF Stage, Planning, Ahead, Checkpointed, Decomposed, Numbered, Saved, Referenced, Running,
         Entering, Drafting, Working
<1> QED
  BY <1>1, <1>3, <1>14, <1>15, <1>17, SessionStep

LEMMA RetireProjectKeeps ==
    ASSUME LockInv, HistoryInv, NEW p \in Processes, RetireProject(p)
    PROVE  HistoryInv'
<1>1. /\ Works(p) /\ job[p].at = "retire" /\ projects' = Tail(projects) /\ GoOn(p, "end")
      /\ UNCHANGED <<lock, phasePlan, plan, torn, builds>>
  BY DEF RetireProject, At, counts
<1>2. Types /\ projects \in Seq(Projects)
  BY DEF HistoryInv, Types
<1>3. /\ job' \in [Processes -> Jobs] /\ \A q \in Processes \ {p} : job'[q] = job[q]
      /\ job'[p].at = "end"
  <2>1. "end" \in Labels
    BY DEF Labels
  <2> QED
    BY <1>1, <1>2, <2>1, GoesOn
<1>4. Len(projects) = 2 /\ Newest.build = phasePlan.build
  BY <1>1 DEF HistoryInv, JobInv, Stage, Retiring
<1>5. /\ projects' \in Seq(Projects) /\ Len(projects') = 1 /\ DOMAIN projects' = {1} /\ projects' # <<>>
      /\ projects'[1] = projects[2] /\ 2 \in DOMAIN projects /\ projects # <<>>
  <2>1. projects # <<>> /\ 2 \in DOMAIN projects
    BY <1>2, <1>4
  <2>2. /\ Tail(projects) \in Seq(Projects) /\ Len(Tail(projects)) = Len(projects) - 1
        /\ \A i \in 1..Len(Tail(projects)) : Tail(projects)[i] = projects[i + 1]
    BY <1>2, <2>1, HeadTailProperties
  <2>3. Len(Tail(projects)) = 1 /\ Tail(projects)[1] = projects[2]
    BY <1>4, <2>2
  <2>4. \A s \in Seq(Projects) : Len(s) = 1 => DOMAIN s = {1} /\ s # <<>>
    OBVIOUS
  <2> QED
    BY <1>1, <2>1, <2>2, <2>3, <2>4
<1>6. Newest = projects[2] /\ Newest' = projects[2]
  BY <1>4, <1>5 DEF Newest
<1>7. Loose' = Loose /\ Loose = torn
  <2>1. Loose = torn \cup LeftBehind(p) /\ Loose' = torn' \cup LeftBehind(p)'
    BY <1>1, OneWorks, OneWorksOn
  <2> QED
    BY <1>1, <1>3, <2>1 DEF LeftBehind
<1>8. DiskInv'
  <2> USE DEF HistoryInv, DiskInv
  <2>1. Numbers'
    BY <1>1, <1>5 DEF Numbers
  <2>2. PlanSound'
    BY <1>1 DEF PlanSound
  <2>3. ProjectsOK'
    BY <1>1, <1>5 DEF ProjectsOK, ProjectOK, OfItsBuild
  <2>4. Fit'
    BY <1>1, <1>5, <1>6, <1>7 DEF Fit, FitsIn
  <2>5. Origin'
    BY <1>1, <1>4, <1>5, <1>6 DEF Origin, InRegistry
  <2>6. Settled'
    BY <1>1, <1>5, <1>6 DEF Settled, InStep
  <2> QED
    BY <2>1, <2>2, <2>3, <2>4, <2>5, <2>6
<1>9. Types'
  BY <1>1, <1>2, <1>3, <1>5 DEF Types
<1>10. Stage(p)'
  BY <1>3 DEF Stage, Planning, Ahead, Checkpointed, Decomposed, Numbered, Saved, Referenced, Retiring, Running,
         Entering, Drafting, Working
<1> QED
  BY <1>1, <1>3, <1>8, <1>9, <1>10, SessionStep

\* The Phases of an increment come after those that are closed.
LEMMA PersistExtensionKeeps ==
    ASSUME LockInv, HistoryInv, NEW p \in Processes, PersistExtension(p)
    PROVE  HistoryInv'
<1>0. PICK b, K, P, m, q, N, new :
        /\ b = job[p].build /\ K = job[p].k /\ P = Project.phase /\ m = Len(P)
        /\ q = Compiled(p, m) /\ N = P \o q
        /\ new = [build |-> b, current |-> K, state |-> "planning", phase |-> N]
  OBVIOUS
<1>1. /\ Works(p) /\ job[p].at = "graph" /\ job[p].intent = "feature"
      /\ projects' = [projects EXCEPT ![1] = new] /\ GoOn(p, "end")
      /\ UNCHANGED <<lock, phasePlan, plan, torn, builds>>
  BY <1>0 DEF PersistExtension, At, counts, Project
<1>2. /\ Types /\ projects \in Seq(Projects) /\ builds \in Nat /\ phasePlan \in PhasePlans
      /\ job[p] \in Jobs
  BY DEF HistoryInv, Types
<1>3. /\ job' \in [Processes -> Jobs] /\ \A r \in Processes \ {p} : job'[r] = job[r]
      /\ job'[p].at = "end"
  <2>1. "end" \in Labels
    BY DEF Labels
  <2> QED
    BY <1>1, <1>2, <2>1, GoesOn
<1>4. Ahead(p) /\ Decomposed(p) /\ Saved(p) /\ Referenced(p)
  BY <1>1 DEF HistoryInv, JobInv, Stage
<1>5. /\ phasePlan # NoPhasePlan /\ phasePlan.build = b /\ phasePlan.intent = "feature"
      /\ b \in torn \/ Unused(b, {K})
      /\ phasePlan.current = K /\ phasePlan.status[K] = "current"
      /\ Len(projects) = 1 /\ Project.state = "closed" /\ Project.build # b
      /\ Whole(job[p].size) /\ K \in m + 1..m + job[p].size
      /\ b \in torn => phasePlan.status[1] = "current" \/ K > m + 1
      /\ \A k \in DOMAIN phasePlan.status :
          /\ K = m + 1 /\ k \in m + 1..m + job[p].size => phasePlan.status[k] # "complete"
          /\ torn = {} => k <= m + job[p].size /\ (k <= m => phasePlan.status[k] # "planned")
      /\ K \in DOMAIN plan /\ plan[K] = b
  <2>1. Before(p) = m
    BY <1>0, <1>1 DEF Before
  <2> QED
    BY <1>0, <1>1, <1>4, <2>1 DEF Ahead, Decomposed, Saved, Referenced, Drafting, SavedPlans
<1>6. PICK n : n = job[p].size
  OBVIOUS
<1>7. /\ Sound(phasePlan) /\ b \in 1..builds /\ b # 0 /\ b \in Nat
      /\ DOMAIN phasePlan.status \subseteq Nat \ {0}
  <2>1. Sound(phasePlan)
    BY <1>5 DEF HistoryInv, DiskInv, PlanSound
  <2>2. b # 0
    BY <1>5, <2>1 DEF Sound
  <2>3. b \in 0..builds
    BY <1>5 DEF HistoryInv, DiskInv, Numbers
  <2>4. DOMAIN phasePlan.status \subseteq Nat \ {0}
    BY <1>2, MapIs DEF PhasePlans
  <2> QED
    BY <1>2, <2>1, <2>2, <2>3, <2>4
<1>8. /\ projects # <<>> /\ Project = projects[1] /\ DOMAIN projects = {1} /\ Newest = Project
      /\ P \in Seq(Phases) /\ m \in Nat /\ DOMAIN P = 1..m
  BY <1>0, <1>2, <1>5, TheProjectIs
<1>9. ProjectOK(Project) /\ m > 0 /\ Whole(m)
  BY <1>0, <1>8 DEF HistoryInv, DiskInv, ProjectsOK, ProjectOK
<1>10. \A k \in 1..m : P[k].state = "closed" /\ P[k].steps # 0
  BY <1>0, <1>2, <1>5, <1>8, ClosedProject DEF HistoryInv, DiskInv
<1>11. \A k \in 1..m : P[k].build # b
  BY <1>0, <1>5, <1>8 DEF HistoryInv, DiskInv, Fit
<1>12. /\ n \in Nat /\ q \in Seq(Phases) /\ Len(q) = n
       /\ \A i \in 1..n : /\ q[i].build = b /\ q[i].state = "created"
                          /\ q[i].steps = IF m + i = K THEN b ELSE 0
  <2>1. n \in Nat
    BY <1>2, <1>6 DEF Jobs
  <2> QED
    BY <1>0, <1>2, <1>6, <1>8, <2>1, CompiledIs
<1>13. /\ N \in Seq(Phases) /\ Len(N) = m + n /\ DOMAIN N = 1..m + n
       /\ \A k \in 1..m : N[k] = P[k]
       /\ \A i \in 1..n : N[m + i] = q[i]
  <2>1. /\ P \o q \in Seq(Phases) /\ Len(P \o q) = Len(P) + Len(q)
        /\ \A i \in 1..Len(P) + Len(q) : (P \o q)[i] = IF i <= Len(P) THEN P[i] ELSE q[i - Len(P)]
    BY <1>8, <1>12, ConcatProperties
  <2>2. N \in Seq(Phases) /\ Len(N) = m + n
        /\ \A i \in 1..m + n : N[i] = IF i <= m THEN P[i] ELSE q[i - m]
    BY <1>0, <1>12, <2>1
  <2>3. DOMAIN N = 1..m + n
    BY <2>2
  <2>4. ASSUME NEW k \in 1..m PROVE N[k] = P[k]
    <3>1. k \in 1..m + n /\ k <= m
      BY <1>8, <1>12
    <3> QED
      BY <2>2, <3>1
  <2>5. ASSUME NEW i \in 1..n PROVE N[m + i] = q[i]
    <3>1. PICK j : j = m + i
      OBVIOUS
    <3>2. j \in 1..m + n /\ ~ (j <= m) /\ j - m = i
      BY <1>8, <1>12, <3>1
    <3>3. N[j] = q[j - m]
      BY <2>2, <3>2
    <3>4. N[j] = q[i]
      BY <3>2, <3>3
    <3> QED
      BY <3>1, <3>4
  <2> QED
    BY <2>2, <2>3, <2>4, <2>5
<1>14. \A k \in m + 1..m + n : N[k].build = b /\ N[k].state = "created"
                               /\ N[k].steps = IF k = K THEN b ELSE 0
  <2> SUFFICES ASSUME NEW k \in m + 1..m + n
               PROVE  N[k].build = b /\ N[k].state = "created" /\ N[k].steps = IF k = K THEN b ELSE 0
    OBVIOUS
  <2>1. k - m \in 1..n /\ m + (k - m) = k
    BY <1>8, <1>12
  <2> QED
    BY <1>12, <1>13, <2>1
<1>15. /\ K \in m + 1..m + n /\ K \in Nat /\ K # 1 /\ K \in DOMAIN N
       /\ m + n \in Nat
  BY <1>5, <1>6, <1>8, <1>9, <1>12, <1>13
<1>16. /\ new \in Projects /\ new.build = b /\ new.current = K /\ new.state = "planning"
       /\ new.phase = N
  BY <1>0, <1>7, <1>13, <1>15 DEF Projects, ProjectStates
<1>17. /\ projects' \in Seq(Projects) /\ Len(projects') = 1 /\ projects' # <<>>
       /\ DOMAIN projects' = {1} /\ projects'[1] = new /\ Newest' = new
  <2>1. projects' \in Seq(Projects) /\ Len(projects') = 1 /\ projects'[1] = new
    BY <1>1, <1>2, <1>5, <1>8, <1>16
  <2> QED
    BY <1>8, <2>1, <1>1 DEF Newest
<1>18. /\ torn \subseteq Loose' /\ Loose \subseteq torn \cup {b}
  <2>1. Loose = torn \cup LeftBehind(p)
    BY <1>1, OneWorks
  <2>2. LeftBehind(p) \subseteq {b}
    BY <1>0 DEF LeftBehind
  <2> QED
    BY <1>1, <2>1, <2>2 DEF Loose
<1>19. DiskInv'
  <2> USE DEF HistoryInv, DiskInv
  <2>1. Numbers'
    <3>1. \A k \in 1..m : P[k].build \in 1..builds /\ P[k].steps \in 0..builds
      BY <1>0, <1>8 DEF Numbers
    <3>2. \A k \in DOMAIN N : N[k].build \in 1..builds /\ N[k].steps \in 0..builds
      <4>1. \A k \in DOMAIN N : k \in 1..m \/ k \in m + 1..m + n
        BY <1>8, <1>12, <1>13
      <4> QED
        BY <1>2, <1>7, <1>13, <1>14, <3>1, <4>1
    <3> QED
      BY <1>1, <1>7, <1>16, <1>17, <3>2 DEF Numbers
  <2>2. PlanSound'
    BY <1>1 DEF PlanSound
  <2>3. ProjectsOK'
    <3>1. Whole(m + n)
      BY <1>5, <1>6, <1>9, WholeSums
    <3>2. ASSUME NEW k \in 1..m + n, Dependent(k) PROVE N[k].build = N[k - 1].build
      <4>1. k # 1 /\ k - 1 \in 1..m + n
        BY <1>15, <3>2, FirstIsFree
      <4>2. CASE k \in 1..m
        <5>1. P[k].build = P[k - 1].build /\ k - 1 \in 1..m
          BY <1>0, <1>8, <1>9, <3>2, <4>1, <4>2 DEF ProjectOK
        <5> QED
          BY <1>13, <4>2, <5>1
      <4>3. k # m + 1
        <5>1. m \in 1..m /\ m + 1 \notin 1..m
          BY <1>8, <1>9
        <5>2. ~ Dependent(m + 1)
          BY <1>9, <5>1, WholeBlocks
        <5> QED
          BY <3>2, <5>2
      <4>4. CASE k \in m + 2..m + n
        <5>1. k \in m + 1..m + n /\ k - 1 \in m + 1..m + n
          BY <1>8, <1>12, <4>4
        <5> QED
          BY <1>14, <5>1
      <4> QED
        BY <1>8, <1>12, <4>2, <4>3, <4>4
    <3>3. ASSUME NEW k \in 1..m + n
          PROVE  /\ N[k].steps = 0 => N[k].state = "created"
                 /\ OfItsBuild(N[k])'
      <4>1. CASE k \in 1..m
        <5>1. OfItsBuild(P[k])
          BY <1>0, <1>8, <1>9, <4>1 DEF ProjectOK
        <5> QED
          BY <1>1, <1>10, <1>13, <4>1, <5>1 DEF OfItsBuild
      <4>2. CASE k \in m + 1..m + n
        BY <1>14, <4>2 DEF OfItsBuild
      <4> QED
        BY <1>8, <1>12, <4>1, <4>2
    <3>4. ProjectOK(new)'
      BY <1>8, <1>9, <1>13, <1>15, <1>16, <3>1, <3>2, <3>3 DEF ProjectOK
    <3> QED
      BY <1>17, <3>4 DEF ProjectsOK
  <2>4. Fit'
    <3>1. 1 \in DOMAIN P /\ 1 \in 1..m
      BY <1>8, <1>9
    <3>2. ASSUME 1 \in DOMAIN plan PROVE FitsIn(plan[1], N[1].build)'
      <4>1. N[1] = P[1]
        BY <1>13, <3>1
      <4>2. FitsIn(plan[1], P[1].build)
        BY <1>0, <1>8, <3>1, <3>2 DEF Fit
      <4>3. b \in torn \/ plan[1] # b
        BY <1>5, <1>15, <3>2 DEF Unused
      <4> QED
        BY <1>1, <1>11, <1>18, <3>1, <4>1, <4>2, <4>3 DEF FitsIn
    <3>3. FitsIn(plan[K], N[K].build)' /\ FitsIn(phasePlan.build, N[K].build)'
      BY <1>1, <1>5, <1>14, <1>15 DEF FitsIn
    <3> QED
      BY <1>1, <1>5, <1>16, <1>17, <3>2, <3>3 DEF Fit
  <2>5. Origin'
    BY <1>1, <1>5, <1>16, <1>17 DEF Origin, InRegistry
  <2>6. Settled'
    <3>1. \A k \in 1..m + n : N[k].steps # 0 => k <= K
      <4>1. \A k \in 1..m + n : k \in 1..m \/ k \in m + 1..m + n
        BY <1>8, <1>12
      <4> QED
        BY <1>8, <1>12, <1>14, <1>15, <4>1
    <3>2. ASSUME K # m + 1 PROVE m + 1 \in DOMAIN N /\ m + 1 < K /\ N[m + 1].state # "closed"
      <4>1. m + 1 \in m + 1..m + n /\ m + 1 < K
        BY <1>8, <1>12, <1>15, <3>2
      <4> QED
        BY <1>8, <1>13, <1>14, <4>1
    <3>3. ASSUME b \in torn
          PROVE  \/ phasePlan.status[1] = "current"
                 \/ \E i \in DOMAIN N : i < K /\ N[i].state # "closed"
      BY <1>5, <1>8, <3>2, <3>3
    <3>4. ASSUME ~ LeavesOut(new) PROVE K = m + 1
      BY <1>7, <1>14, <1>15, <1>16, <3>2, <3>4 DEF LeavesOut
    <3>5. ASSUME K = m + 1, NEW k \in DOMAIN phasePlan.status, k \in 1..m + n,
                 N[k].build = b \/ torn = {}
          PROVE  /\ phasePlan.status[k] = "complete" => N[k].state = "closed"
                 /\ phasePlan.status[k] = "planned" => N[k].steps = 0
      <4>1. CASE k \in 1..m
        BY <1>5, <1>6, <1>8, <1>10, <1>11, <1>13, <3>5, <4>1
      <4>2. CASE k \in m + 1..m + n
        BY <1>5, <1>6, <1>14, <3>5, <4>2
      <4> QED
        BY <1>8, <1>12, <3>5, <4>1, <4>2
    <3>6. torn = {} => DOMAIN phasePlan.status \subseteq DOMAIN N
      BY <1>5, <1>6, <1>7, <1>8, <1>12, <1>13
    <3>7. ~ LeavesOut(new) => InStep(new)'
      BY <1>1, <1>5, <1>13, <1>16, <3>4, <3>5, <3>6 DEF InStep
    <3>8. ~ LeavesOut(Newest)' => InStep(Newest)'
      BY <1>17, <3>7 DEF LeavesOut, InStep
    <3>9. /\ \A k \in DOMAIN N : N[k].steps # 0 => k <= K
          /\ b \in torn => \/ K # 1 /\ phasePlan.status[1] = "current"
                           \/ \E i \in DOMAIN N : i < K /\ N[i].state # "closed"
      BY <1>13, <1>15, <3>1, <3>3
    <3> QED
      BY <1>1, <1>5, <1>16, <1>17, <3>8, <3>9 DEF Settled
  <2> QED
    BY <2>1, <2>2, <2>3, <2>4, <2>5, <2>6
<1>20. Types'
  BY <1>1, <1>2, <1>3, <1>17 DEF Types
<1>21. Stage(p)'
  BY <1>3 DEF Stage, Planning, Ahead, Checkpointed, Decomposed, Numbered, Saved, Referenced, Retiring, Running,
         Entering, Drafting, Working
<1> QED
  BY <1>1, <1>3, <1>19, <1>20, <1>21, SessionStep

-----------------------------------------------------------------------------
(* The steps of a run.                                                      *)

LEMMA NotDrafting ==
    ASSUME LockInv, NEW p \in Processes, Works(p), UNCHANGED <<lock, torn>>,
           job[p].at \notin Drafting, job'[p].at \notin Drafting
    PROVE  Loose = torn /\ Loose' = torn
<1>1. Loose = torn \cup LeftBehind(p) /\ Loose' = torn' \cup LeftBehind(p)'
  BY OneWorks, OneWorksOn
<1>2. LeftBehind(p) = {} /\ LeftBehind(p)' = {}
  BY DEF LeftBehind, Drafting
<1> QED
  BY <1>1, <1>2

LEMMA OneElement ==
    ASSUME NEW S, NEW s \in Seq(S), Len(s) = 1
    PROVE  s # <<>> /\ DOMAIN s = {1} /\ \A e \in S : [s EXCEPT ![1] = e] \in Seq(S)
                                            /\ Len([s EXCEPT ![1] = e]) = 1
                                            /\ [s EXCEPT ![1] = e][1] = e
<1>1. s # <<>> /\ DOMAIN s = 1..1 /\ 1 \in 1..Len(s)
  OBVIOUS
<1>2. ASSUME NEW e \in S PROVE [s EXCEPT ![1] = e] \in Seq(S) /\ Len([s EXCEPT ![1] = e]) = 1
  BY <1>1
<1>3. ASSUME NEW e \in S PROVE [s EXCEPT ![1] = e][1] = e
  BY <1>1
<1> QED
  BY <1>1, <1>2, <1>3

\* The project with one field of one Phase changed.
LEMMA PhaseChanged ==
    ASSUME Types, Len(projects) = 1, NEW k \in DOMAIN Project.phase,
           NEW f \in {"steps", "state"}, NEW v, f = "steps" => v \in Nat, f = "state" => v \in PhaseStates,
           NEW w, w = WithPhase(k, f, v)
    PROVE  /\ w \in Seq(Projects) /\ Len(w) = 1 /\ w[1] \in Projects
           /\ w[1].build = Project.build /\ w[1].current = Project.current /\ w[1].state = Project.state
           /\ DOMAIN w[1].phase = DOMAIN Project.phase /\ Len(w[1].phase) = Len(Project.phase)
           /\ \A i \in DOMAIN Project.phase \ {k} : w[1].phase[i] = Project.phase[i]
           /\ w[1].phase[k].build = Project.phase[k].build
           /\ w[1].phase[k].steps = IF f = "steps" THEN v ELSE Project.phase[k].steps
           /\ w[1].phase[k].state = IF f = "state" THEN v ELSE Project.phase[k].state
<1>1. /\ projects \in Seq(Projects) /\ DOMAIN projects = {1} /\ Project = projects[1] /\ Project \in Projects
      /\ Project.phase \in Seq(Phases) /\ DOMAIN Project.phase = 1..Len(Project.phase)
      /\ Len(Project.phase) \in Nat
  BY TheProjectIs DEF Types
<1>2. PICK old : old = Project.phase[k]
  OBVIOUS
<1>3. PICK ph : ph = [old EXCEPT ![f] = v]
  OBVIOUS
<1>4. old \in Phases
  BY <1>1, <1>2
<1>5. /\ ph \in Phases /\ ph.build = old.build
      /\ ph.steps = IF f = "steps" THEN v ELSE old.steps
      /\ ph.state = IF f = "state" THEN v ELSE old.state
  <2>1. CASE f = "steps"
    <3>1. ph = [old EXCEPT !.steps = v]
      BY <1>3, <2>1
    <3> QED
      BY <1>4, <2>1, <3>1 DEF Phases
  <2>2. CASE f = "state"
    <3>1. ph = [old EXCEPT !.state = v]
      BY <1>3, <2>2
    <3> QED
      BY <1>4, <2>2, <3>1 DEF Phases
  <2> QED
    BY <2>1, <2>2
<1>6. PICK N : N = [Project.phase EXCEPT ![k] = ph]
  OBVIOUS
<1>7. /\ N \in Seq(Phases) /\ Len(N) = Len(Project.phase) /\ DOMAIN N = DOMAIN Project.phase /\ N[k] = ph
      /\ \A i \in DOMAIN Project.phase \ {k} : N[i] = Project.phase[i]
  BY <1>1, <1>5, <1>6
<1>8. PICK new : new = [Project EXCEPT !.phase = N]
  OBVIOUS
<1>9. /\ new \in Projects /\ new.build = Project.build /\ new.current = Project.current
      /\ new.state = Project.state /\ new.phase = N
  BY <1>1, <1>7, <1>8 DEF Projects
<1>10. w = [projects EXCEPT ![1] = new]
  BY <1>1, <1>2, <1>3, <1>6, <1>8 DEF WithPhase
<1>11. w \in Seq(Projects) /\ Len(w) = 1 /\ w[1] = new
  BY <1>1, <1>9, <1>10, OneElement
<1> QED
  BY <1>2, <1>5, <1>7, <1>9, <1>11

\* The project of the registry changed, and nothing of which build its Phases are.
LEMMA ProjectChanged ==
    ASSUME LockInv, HistoryInv, Len(projects) = 1, NEW new \in Projects,
           projects' \in Seq(Projects), Len(projects') = 1, projects'[1] = new,
           UNCHANGED <<phasePlan, plan, torn, builds>>, Loose' = Loose,
           new.build = Project.build, DOMAIN new.phase = DOMAIN Project.phase,
           \A k \in DOMAIN Project.phase :
                new.phase[k].build = Project.phase[k].build /\ new.phase[k].steps \in 0..builds,
           ProjectOK(new),
           new.build = phasePlan.build =>
                /\ \A k \in DOMAIN new.phase : new.phase[k].steps # 0 => k <= phasePlan.current
                /\ phasePlan.intent = "feature" /\ phasePlan.build \in torn =>
                    \/ phasePlan.current # 1 /\ phasePlan.status[1] = "current"
                    \/ \E i \in DOMAIN new.phase : i < phasePlan.current /\ new.phase[i].state # "closed"
                /\ ~ LeavesOut(new) => InStep(new)
    PROVE  DiskInv'
<1> USE DEF HistoryInv, DiskInv
<1>1. /\ projects # <<>> /\ Project = projects[1] /\ DOMAIN projects = {1} /\ Newest = Project
  BY TheProjectIs DEF Types
<1>2. /\ projects' # <<>> /\ DOMAIN projects' = {1} /\ Newest' = new
  <2>1. \A s \in Seq(Projects) : Len(s) = 1 => s # <<>> /\ DOMAIN s = {1}
    BY OneElement
  <2> QED
    BY <2>1 DEF Newest
<1>3. Numbers'
  BY <1>1, <1>2 DEF Numbers
<1>4. PlanSound'
  BY DEF PlanSound
<1>5. ProjectsOK'
  <2>1. ProjectOK(new)'
    BY DEF ProjectOK, OfItsBuild
  <2> QED
    BY <1>2, <2>1 DEF ProjectsOK
<1>6. Fit'
  BY <1>1, <1>2 DEF Fit, FitsIn
<1>7. Origin'
  BY <1>1, <1>2 DEF Origin, InRegistry
<1>8. Settled'
  <2>1. InStep(new) => InStep(Newest)'
    BY <1>2 DEF InStep
  <2>2. LeavesOut(Newest)' <=> LeavesOut(new)
    BY <1>2 DEF LeavesOut
  <2> QED
    BY <1>2, <2>1, <2>2 DEF Settled
<1> QED
  BY <1>3, <1>4, <1>5, <1>6, <1>7, <1>8

\* What is known where a run is at work.
LEMMA TheRun ==
    ASSUME HistoryInv, Len(projects) = 1
    PROVE  /\ projects \in Seq(Projects) /\ projects # <<>> /\ DOMAIN projects = {1}
           /\ Project = projects[1] /\ Newest = Project /\ Project \in Projects
           /\ Len(Project.phase) \in Nat /\ DOMAIN Project.phase = 1..Len(Project.phase)
           /\ ProjectOK(Project) /\ phasePlan # NoPhasePlan /\ Sound(phasePlan)
           /\ \A k \in DOMAIN Project.phase :
                /\ Project.phase[k].build \in 1..builds /\ Project.phase[k].steps \in 0..builds
           /\ Project.build = phasePlan.build =>
                /\ \A k \in DOMAIN Project.phase : Project.phase[k].steps # 0 => k <= phasePlan.current
                /\ phasePlan.intent = "feature" /\ phasePlan.build \in torn =>
                    \/ phasePlan.current # 1 /\ phasePlan.status[1] = "current"
                    \/ \E i \in DOMAIN Project.phase :
                        i < phasePlan.current /\ Project.phase[i].state # "closed"
                /\ ~ LeavesOut(Project) => InStep(Project)
<1> USE DEF HistoryInv, DiskInv
<1>1. /\ projects \in Seq(Projects) /\ projects # <<>> /\ Project = projects[1] /\ DOMAIN projects = {1}
      /\ Newest = Project /\ Project \in Projects
      /\ Len(Project.phase) \in Nat /\ DOMAIN Project.phase = 1..Len(Project.phase)
  BY TheProjectIs DEF Types
<1>2. ProjectOK(Project)
  BY <1>1 DEF ProjectsOK
<1>3. phasePlan # NoPhasePlan /\ Sound(phasePlan)
  BY <1>1 DEF Fit, PlanSound
<1>4. \A k \in DOMAIN Project.phase :
        /\ Project.phase[k].build \in 1..builds /\ Project.phase[k].steps \in 0..builds
  BY <1>1 DEF Numbers
<1> QED
  BY <1>1, <1>2, <1>3, <1>4 DEF Settled

\* The Steps of the Phase the PhasePlan is at.
LEMMA StepsPlaced ==
    ASSUME LockInv, HistoryInv, Len(projects) = 1, NEW c, c = phasePlan.current,
           c \in DOMAIN Project.phase, c \in DOMAIN plan, projects' = WithPhase(c, "steps", plan[c]),
           UNCHANGED <<phasePlan, plan, torn, builds>>, Loose = torn, Loose' = torn
    PROVE  /\ DiskInv' /\ projects' \in Seq(Projects) /\ Len(projects') = 1
           /\ DOMAIN Project'.phase = DOMAIN Project.phase /\ Project'.phase[c].steps # 0
<1>1. PICK s : s = plan[c]
  OBVIOUS
<1>2. s \in 1..builds /\ s \in Nat /\ Types /\ builds \in Nat
  BY <1>1 DEF HistoryInv, DiskInv, Numbers, Types
<1>3. PICK new : new = projects'[1]
  OBVIOUS
<1>4. /\ projects' \in Seq(Projects) /\ Len(projects') = 1 /\ new \in Projects
      /\ new.build = Project.build /\ new.current = Project.current /\ new.state = Project.state
      /\ DOMAIN new.phase = DOMAIN Project.phase /\ Len(new.phase) = Len(Project.phase)
      /\ \A i \in DOMAIN Project.phase \ {c} : new.phase[i] = Project.phase[i]
      /\ new.phase[c].build = Project.phase[c].build
      /\ new.phase[c].steps = s
      /\ new.phase[c].state = Project.phase[c].state
  <2>1. projects' = WithPhase(c, "steps", s) /\ ("steps" = "state" => s \in PhaseStates)
    BY <1>1
  <2> QED
    BY <1>2, <1>3, <2>1, PhaseChanged
<1>5. \A k \in DOMAIN Project.phase :
        /\ new.phase[k].build = Project.phase[k].build /\ new.phase[k].state = Project.phase[k].state
        /\ new.phase[k].steps = IF k = c THEN s ELSE Project.phase[k].steps
  BY <1>4
<1>6. /\ ProjectOK(Project) /\ Sound(phasePlan) /\ phasePlan # NoPhasePlan /\ Newest = Project
      /\ DOMAIN Project.phase = 1..Len(Project.phase) /\ Len(Project.phase) \in Nat
      /\ projects # <<>>
      /\ \A k \in DOMAIN Project.phase :
            /\ Project.phase[k].build \in 1..builds /\ Project.phase[k].steps \in 0..builds
      /\ Project.build = phasePlan.build =>
            /\ \A k \in DOMAIN Project.phase : Project.phase[k].steps # 0 => k <= phasePlan.current
            /\ phasePlan.intent = "feature" /\ phasePlan.build \in torn =>
                \/ phasePlan.current # 1 /\ phasePlan.status[1] = "current"
                \/ \E i \in DOMAIN Project.phase :
                    i < phasePlan.current /\ Project.phase[i].state # "closed"
            /\ ~ LeavesOut(Project) => InStep(Project)
  BY TheRun
<1>7. OfItsBuild(new.phase[c])
  <2>1. FitsIn(s, Project.phase[c].build)
    BY <1>1, <1>6 DEF HistoryInv, DiskInv, Fit
  <2> QED
    BY <1>4, <2>1 DEF FitsIn, OfItsBuild
<1>8. ProjectOK(new)
  <2>1. \A k \in DOMAIN Project.phase : OfItsBuild(new.phase[k])
    BY <1>4, <1>6, <1>7 DEF ProjectOK
  <2>2. \A k \in DOMAIN Project.phase : Dependent(k) => k - 1 \in DOMAIN Project.phase
    BY <1>6, FirstIsFree
  <2> QED
    BY <1>2, <1>4, <1>5, <1>6, <2>1, <2>2 DEF ProjectOK
<1>9. ASSUME new.build = phasePlan.build
      PROVE  /\ \A k \in DOMAIN new.phase : new.phase[k].steps # 0 => k <= phasePlan.current
             /\ phasePlan.intent = "feature" /\ phasePlan.build \in torn =>
                 \/ phasePlan.current # 1 /\ phasePlan.status[1] = "current"
                 \/ \E i \in DOMAIN new.phase : i < phasePlan.current /\ new.phase[i].state # "closed"
             /\ ~ LeavesOut(new) => InStep(new)
  <2>1. c <= c
    BY <1>6
  <2>2. ASSUME ~ LeavesOut(new) PROVE InStep(new)
    <3>1. ~ LeavesOut(Project)
      BY <1>2, <1>4, <1>5, <2>2 DEF LeavesOut
    <3>2. InStep(Project)
      BY <1>4, <1>6, <1>9, <3>1
    <3>3. phasePlan.status[c] # "planned"
      BY <1>6 DEF Sound
    <3> QED
      BY <1>4, <1>5, <3>2, <3>3 DEF InStep
  <2> QED
    BY <1>4, <1>5, <1>6, <1>9, <2>1, <2>2
<1>10. \A k \in DOMAIN Project.phase :
        new.phase[k].build = Project.phase[k].build /\ new.phase[k].steps \in 0..builds
  BY <1>2, <1>5, <1>6
<1>11. DiskInv'
  BY <1>3, <1>4, <1>8, <1>9, <1>10, ProjectChanged
<1> QED
  BY <1>2, <1>3, <1>4, <1>11 DEF Project

\* A step of the session that changes the session only.
LEMMA JobStep ==
    ASSUME LockInv, HistoryInv, NEW p \in Processes, Works(p), UNCHANGED <<lock, disk, torn, builds>>,
           job' \in [Processes -> Jobs], \A r \in Processes \ {p} : job'[r] = job[r],
           job[p].at \notin Drafting, job'[p].at \notin Drafting, Stage(p)'
    PROVE  HistoryInv'
<1>1. Loose = torn /\ Loose' = torn
  BY NotDrafting
<1>2. builds \in Nat
  BY DEF HistoryInv, Types
<1>3. DiskInv'
  BY <1>1, <1>2, DiskKept
<1>4. Types'
  BY DEF HistoryInv, Types, disk
<1> QED
  BY <1>3, <1>4, SessionStep

LEMMA LoadKeeps ==
    ASSUME LockInv, HistoryInv, NEW p \in Processes, Load(p)
    PROVE  HistoryInv'
<1> DEFINE next == IF Project.phase[phasePlan.current].steps = 0 THEN "materialize" ELSE "check"
<1>1. /\ Works(p) /\ job[p].at = "load" /\ Loadable /\ UNCHANGED <<lock, disk, torn, builds>>
      /\ job' = [job EXCEPT ![p].k = phasePlan.current, ![p].at = next]
  BY DEF Load, At, counts
<1>2. job \in [Processes -> Jobs] /\ phasePlan.current \in Nat
  BY DEF HistoryInv, Types, PhasePlans
<1>3. next \in {"materialize", "check"} /\ next \in Labels /\ next \in Working
  BY DEF Labels, Working
<1>4. /\ job' \in [Processes -> Jobs] /\ \A r \in Processes \ {p} : job'[r] = job[r]
      /\ job'[p].at = next /\ job'[p].k = phasePlan.current
  <2> DEFINE j == [job[p] EXCEPT !.k = phasePlan.current, !.at = next]
  <2> HIDE DEF next
  <2>1. j \in Jobs /\ j.at = next /\ j.k = phasePlan.current
    BY <1>2, <1>3 DEF Jobs
  <2>2. job' = [job EXCEPT ![p] = j]
    BY <1>1, <1>2
  <2> HIDE DEF j
  <2> QED
    BY <1>2, <2>1, <2>2
<1>5. UNCHANGED <<phasePlan, plan, projects>>
  BY <1>1 DEF disk
<1>6. Running(p)'
  <2>1. /\ Len(projects) = 1 /\ phasePlan # NoPhasePlan /\ phasePlan.current \in DOMAIN Project.phase
        /\ phasePlan.current \in DOMAIN plan
    BY <1>1 DEF Loadable
  <2>2. job'[p].at \notin DOMAIN Found /\ job'[p].at \notin {"close", "advance", "reference"}
    BY <1>3, <1>4 DEF Found
  <2>3. IF next = "materialize" THEN TRUE ELSE Project.phase[phasePlan.current].steps # 0
    OBVIOUS
  <2>4. Project' = Project
    BY <1>5 DEF Project
  <2> QED
    BY <1>4, <1>5, <2>1, <2>2, <2>3, <2>4 DEF Running, Phase
<1>7. Stage(p)'
  <2>1. job'[p].at \in Working
    BY <1>3, <1>4
  <2> QED
    BY <1>6, <2>1 DEF Stage, Planning, Ahead, Checkpointed, Decomposed, Numbered, Saved, Referenced, Retiring,
           Entering, Drafting, Working
<1>8. job[p].at \notin Drafting /\ job'[p].at \notin Drafting
  BY <1>1, <1>3, <1>4 DEF Drafting
<1> QED
  BY <1>1, <1>4, <1>7, <1>8, JobStep

LEMMA CheckKeeps ==
    ASSUME LockInv, HistoryInv, NEW p \in Processes, Check(p)
    PROVE  HistoryInv'
<1> DEFINE next == IF Unadvanced(p) THEN "advance" ELSE "execute"
<1>1. /\ Works(p) /\ job[p].at = "check" /\ UNCHANGED <<lock, disk, torn, builds>>
      /\ job' = [job EXCEPT ![p].at = next, ![p].recover = Unadvanced(p)]
  BY DEF Check, At, counts
<1>2. job \in [Processes -> Jobs] /\ Unadvanced(p) \in BOOLEAN
  BY DEF HistoryInv, Types, Unadvanced
<1>3. next \in {"advance", "execute"} /\ next \in Labels /\ next \in Working
  BY DEF Labels, Working
<1>4. /\ job' \in [Processes -> Jobs] /\ \A r \in Processes \ {p} : job'[r] = job[r]
      /\ job'[p].at = next /\ job'[p].k = job[p].k
  <2>1. PICK u \in BOOLEAN : u = Unadvanced(p)
    BY <1>2
  <2> DEFINE j == [job[p] EXCEPT !.at = next, !.recover = u]
  <2> HIDE DEF next
  <2>2. j \in Jobs /\ j.at = next /\ j.k = job[p].k
    BY <1>2, <1>3 DEF Jobs
  <2>3. job' = [job EXCEPT ![p] = j]
    BY <1>1, <1>2, <2>1
  <2> HIDE DEF j
  <2> QED
    BY <1>2, <2>2, <2>3
<1>5. UNCHANGED <<phasePlan, plan, projects>>
  BY <1>1 DEF disk
<1>6. /\ Len(projects) = 1 /\ phasePlan # NoPhasePlan
      /\ job[p].k = phasePlan.current /\ job[p].k \in DOMAIN Project.phase /\ Phase(p).steps # 0
  <2>1. Running(p)
    BY <1>1 DEF HistoryInv, JobInv, Stage
  <2> QED
    BY <1>1, <2>1 DEF Running, Working
<1>7. Project' = Project /\ Phase(p)' = Phase(p)
  BY <1>4, <1>5 DEF Project, Phase
<1>8. ASSUME next = "advance", Project.build = phasePlan.build, ~ LeavesOut(Project)
      PROVE  Project.current = job[p].k + 1
  <2>1. Project.current # job[p].k
    BY <1>8 DEF Unadvanced
  <2>2. InStep(Project)
    BY <1>6, <1>8, TheRun
  <2> QED
    BY <1>6, <2>1, <2>2 DEF InStep
<1>9. next = "advance" => Phase(p).state = "closed"
  BY DEF Unadvanced
<1>10. Running(p)'
  <2>1. next # "materialize" /\ next \notin {"close", "reference"}
    BY <1>3
  <2>2. next \in DOMAIN Found => next = "advance" /\ Found[next] = "closed"
    BY <1>3 DEF Found
  <2> HIDE DEF next
  <2>3. LeavesOut(Project)' <=> LeavesOut(Project)
    BY <1>7 DEF LeavesOut
  <2> QED
    BY <1>4, <1>5, <1>6, <1>7, <1>8, <1>9, <2>1, <2>2, <2>3 DEF Running
<1>11. Stage(p)'
  <2>1. job'[p].at \in Working
    BY <1>3, <1>4
  <2> QED
    BY <1>10, <2>1 DEF Stage, Planning, Ahead, Checkpointed, Decomposed, Numbered, Saved, Referenced, Retiring,
           Entering, Drafting, Working
<1>12. job[p].at \notin Drafting /\ job'[p].at \notin Drafting
  BY <1>1, <1>3, <1>4 DEF Drafting
<1> QED
  BY <1>1, <1>4, <1>11, <1>12, JobStep

LEMMA MaterializeKeeps ==
    ASSUME LockInv, HistoryInv, NEW p \in Processes, Materialize(p)
    PROVE  HistoryInv'
<1>1. /\ Works(p) /\ job[p].at = "materialize" /\ UNCHANGED <<lock, phasePlan, plan, torn, builds>>
      /\ projects' = WithPhase(job[p].k, "steps", plan[job[p].k]) /\ GoOn(p, "check")
  BY DEF Materialize, At, counts
<1>2. /\ Len(projects) = 1 /\ phasePlan # NoPhasePlan
      /\ job[p].k = phasePlan.current /\ job[p].k \in DOMAIN Project.phase /\ job[p].k \in DOMAIN plan
  <2>1. Running(p)
    BY <1>1 DEF HistoryInv, JobInv, Stage
  <2> QED
    BY <1>1, <2>1 DEF Running, Working
<1>3. Types
  BY DEF HistoryInv
<1>4. /\ job' \in [Processes -> Jobs] /\ \A r \in Processes \ {p} : job'[r] = job[r]
      /\ job'[p].at = "check" /\ job'[p].k = job[p].k
  <2>1. "check" \in Labels
    BY DEF Labels, Working
  <2> QED
    BY <1>1, <1>3, <2>1, GoesOn
<1>5. Loose = torn /\ Loose' = torn
  <2>1. job[p].at \notin Drafting /\ job'[p].at \notin Drafting
    BY <1>1, <1>4 DEF Drafting
  <2> QED
    BY <1>1, <2>1, NotDrafting
<1>6. PICK c : c = job[p].k
  OBVIOUS
<1>7. /\ DiskInv' /\ projects' \in Seq(Projects) /\ Len(projects') = 1
      /\ DOMAIN Project'.phase = DOMAIN Project.phase /\ Project'.phase[c].steps # 0
  BY <1>1, <1>2, <1>5, <1>6, StepsPlaced
<1>8. Types'
  BY <1>1, <1>3, <1>4, <1>7 DEF Types
<1>9. Running(p)'
  BY <1>1, <1>2, <1>4, <1>6, <1>7 DEF Running, Found, Phase
<1>10. Stage(p)'
  BY <1>4, <1>9 DEF Stage, Planning, Ahead, Checkpointed, Decomposed, Numbered, Saved, Referenced, Retiring,
         Entering, Drafting
<1> QED
  BY <1>1, <1>4, <1>7, <1>8, <1>10, SessionStep

LEMMA EnterKeeps ==
    ASSUME LockInv, HistoryInv, NEW p \in Processes, Enter(p)
    PROVE  HistoryInv'
<1> DEFINE next == IF job[p].recover THEN "execute" ELSE "end"
<1>1. /\ Works(p) /\ job[p].at = "enter" /\ UNCHANGED <<lock, phasePlan, plan, torn, builds>> /\ Enterable
      /\ projects' = WithPhase(Project.current, "steps", plan[Project.current])
      /\ job' = [job EXCEPT ![p].at = next, ![p].k = Project.current]
  BY DEF Enter, At, counts
<1>2. Len(projects) = 1 /\ phasePlan # NoPhasePlan /\ phasePlan.current \in DOMAIN plan
  BY <1>1 DEF HistoryInv, JobInv, Stage, Entering
<1>3. /\ Types /\ job \in [Processes -> Jobs]
  BY DEF HistoryInv, Types
<1>4. PICK c : c = phasePlan.current
  OBVIOUS
<1>5. Project.current = c /\ c \in DOMAIN Project.phase /\ c \in Nat
  BY <1>1, <1>2, <1>4, TheRun DEF Enterable, ProjectOK
<1>6. next \in {"execute", "end"} /\ next \in Labels
  BY DEF Labels, Working
<1>7. /\ job' \in [Processes -> Jobs] /\ \A r \in Processes \ {p} : job'[r] = job[r]
      /\ job'[p].at = next /\ job'[p].k = c
  <2> DEFINE j == [job[p] EXCEPT !.at = next, !.k = c]
  <2> HIDE DEF next
  <2>1. j \in Jobs /\ j.at = next /\ j.k = c
    BY <1>3, <1>5, <1>6 DEF Jobs
  <2>2. job' = [job EXCEPT ![p] = j]
    BY <1>1, <1>3, <1>5
  <2> HIDE DEF j
  <2> QED
    BY <1>3, <2>1, <2>2
<1>8. Loose = torn /\ Loose' = torn
  <2>1. job[p].at \notin Drafting /\ job'[p].at \notin Drafting
    BY <1>1, <1>6, <1>7 DEF Drafting
  <2> QED
    BY <1>1, <2>1, NotDrafting
<1>9. /\ DiskInv' /\ projects' \in Seq(Projects) /\ Len(projects') = 1
      /\ DOMAIN Project'.phase = DOMAIN Project.phase /\ Project'.phase[c].steps # 0
  BY <1>1, <1>2, <1>4, <1>5, <1>8, StepsPlaced
<1>10. Types'
  BY <1>1, <1>3, <1>7, <1>9 DEF Types
<1>11. Running(p)'
  <2> HIDE DEF next
  <2> QED
    BY <1>1, <1>2, <1>4, <1>5, <1>6, <1>7, <1>9 DEF Running, Found, Phase, Working
<1>12. Stage(p)'
  <2> HIDE DEF next
  <2> QED
    BY <1>6, <1>7, <1>11 DEF Stage, Planning, Ahead, Checkpointed, Decomposed, Numbered, Saved, Referenced,
           Retiring, Entering, Drafting
<1> QED
  BY <1>1, <1>7, <1>9, <1>10, <1>12, SessionStep

\* The Phase the PhasePlan is at gets another state, which it had not left for good.
LEMMA StateChanged ==
    ASSUME LockInv, HistoryInv, Len(projects) = 1, NEW c, c = phasePlan.current,
           c \in DOMAIN Project.phase, Project.phase[c].steps # 0, Project.phase[c].state # "closed",
           NEW v \in PhaseStates, NEW w, w = WithPhase(c, "state", v),
           projects' = w \/ projects' = [w EXCEPT ![1].state = "in_progress"],
           UNCHANGED <<phasePlan, plan, torn, builds>>, Loose = torn, Loose' = torn
    PROVE  /\ DiskInv' /\ projects' \in Seq(Projects) /\ Len(projects') = 1
           /\ DOMAIN Project'.phase = DOMAIN Project.phase
           /\ Project'.phase[c].steps # 0 /\ Project'.phase[c].state = v
<1>1. Types
  BY DEF HistoryInv
<1>2. PICK new : new = projects'[1]
  OBVIOUS
<1>3. /\ w \in Seq(Projects) /\ Len(w) = 1 /\ w[1] \in Projects
      /\ w[1].build = Project.build /\ w[1].current = Project.current /\ w[1].state = Project.state
      /\ DOMAIN w[1].phase = DOMAIN Project.phase /\ Len(w[1].phase) = Len(Project.phase)
      /\ \A i \in DOMAIN Project.phase \ {c} : w[1].phase[i] = Project.phase[i]
      /\ w[1].phase[c].build = Project.phase[c].build
      /\ w[1].phase[c].steps = Project.phase[c].steps
      /\ w[1].phase[c].state = v
  <2>1. "state" # "steps"
    OBVIOUS
  <2> QED
    BY <1>1, <2>1, PhaseChanged
<1>4. /\ projects' \in Seq(Projects) /\ Len(projects') = 1 /\ new \in Projects
      /\ new.build = w[1].build /\ new.current = w[1].current /\ new.phase = w[1].phase
      /\ new.state = w[1].state \/ new.state = "in_progress"
  <2>1. CASE projects' = w
    BY <1>2, <1>3, <2>1
  <2>2. CASE projects' = [w EXCEPT ![1].state = "in_progress"]
    <3>1. PICK e : e = [w[1] EXCEPT !.state = "in_progress"]
      OBVIOUS
    <3>2. e \in Projects /\ e.build = w[1].build /\ e.current = w[1].current /\ e.phase = w[1].phase
          /\ e.state = "in_progress"
      BY <1>3, <3>1 DEF Projects, ProjectStates
    <3>3. projects' = [w EXCEPT ![1] = e]
      BY <2>2, <3>1
    <3>4. projects' \in Seq(Projects) /\ Len(projects') = 1 /\ projects'[1] = e
      BY <1>3, <3>2, <3>3, OneElement
    <3> QED
      BY <1>2, <3>2, <3>4
  <2> QED
    BY <2>1, <2>2
<1>5. \A k \in DOMAIN Project.phase :
        /\ new.phase[k].build = Project.phase[k].build /\ new.phase[k].steps = Project.phase[k].steps
        /\ new.phase[k].state = IF k = c THEN v ELSE Project.phase[k].state
  BY <1>3, <1>4
<1>6. /\ new.build = Project.build /\ new.current = Project.current
      /\ DOMAIN new.phase = DOMAIN Project.phase /\ Len(new.phase) = Len(Project.phase)
  BY <1>3, <1>4
<1>7. /\ ProjectOK(Project)
      /\ DOMAIN Project.phase = 1..Len(Project.phase) /\ Len(Project.phase) \in Nat
      /\ \A k \in DOMAIN Project.phase :
            /\ Project.phase[k].build \in 1..builds /\ Project.phase[k].steps \in 0..builds
      /\ Project.build = phasePlan.build =>
            /\ \A k \in DOMAIN Project.phase : Project.phase[k].steps # 0 => k <= phasePlan.current
            /\ phasePlan.intent = "feature" /\ phasePlan.build \in torn =>
                \/ phasePlan.current # 1 /\ phasePlan.status[1] = "current"
                \/ \E i \in DOMAIN Project.phase :
                    i < phasePlan.current /\ Project.phase[i].state # "closed"
            /\ ~ LeavesOut(Project) => InStep(Project)
  BY TheRun
<1>8. ProjectOK(new)
  <2>1. \A k \in DOMAIN Project.phase : Dependent(k) => k - 1 \in DOMAIN Project.phase
    BY <1>7, FirstIsFree
  <2>2. \A k \in DOMAIN Project.phase : OfItsBuild(new.phase[k])
    BY <1>5, <1>7 DEF ProjectOK, OfItsBuild
  <2>3. Project.state # "closed"
    BY <1>7 DEF ProjectOK
  <2>4. new.state # "closed"
    BY <1>3, <1>4, <2>3
  <2> QED
    BY <1>5, <1>6, <1>7, <2>1, <2>2, <2>4 DEF ProjectOK
<1>9. ASSUME new.build = phasePlan.build
      PROVE  /\ \A k \in DOMAIN new.phase : new.phase[k].steps # 0 => k <= phasePlan.current
             /\ phasePlan.intent = "feature" /\ phasePlan.build \in torn =>
                 \/ phasePlan.current # 1 /\ phasePlan.status[1] = "current"
                 \/ \E i \in DOMAIN new.phase : i < phasePlan.current /\ new.phase[i].state # "closed"
             /\ ~ LeavesOut(new) => InStep(new)
  <2>1. \A i \in DOMAIN Project.phase : i < c => new.phase[i].state = Project.phase[i].state
    BY <1>5, <1>7
  <2>2. ASSUME ~ LeavesOut(new) PROVE InStep(new)
    <3>1. ~ LeavesOut(Project)
      <4>1. SUFFICES ASSUME NEW i \in DOMAIN Project.phase, NEW k \in DOMAIN Project.phase,
                            i < k, Project.phase[k].steps # 0, Project.phase[i].state # "closed"
                     PROVE  FALSE
        BY DEF LeavesOut
      <4>2. k <= c /\ c \in DOMAIN Project.phase
        BY <1>6, <1>7, <1>9, <4>1
      <4>3. i < c
        BY <1>7, <4>1, <4>2
      <4>4. new.phase[k].steps # 0 /\ new.phase[i].state # "closed"
        BY <1>5, <2>1, <4>1, <4>3
      <4> QED
        BY <1>6, <2>2, <4>1, <4>4 DEF LeavesOut
    <3>2. InStep(Project)
      BY <1>6, <1>7, <1>9, <3>1
    <3> QED
      BY <1>5, <1>6, <1>9, <3>2 DEF InStep
  <2>3. phasePlan.intent = "feature" /\ phasePlan.build \in torn =>
                 \/ phasePlan.current # 1 /\ phasePlan.status[1] = "current"
                 \/ \E i \in DOMAIN new.phase : i < phasePlan.current /\ new.phase[i].state # "closed"
    BY <1>6, <1>7, <1>9, <2>1
  <2> QED
    BY <1>5, <1>6, <1>7, <1>9, <2>2, <2>3
<1>10. \A k \in DOMAIN Project.phase :
        new.phase[k].build = Project.phase[k].build /\ new.phase[k].steps \in 0..builds
  BY <1>5, <1>7
<1>11. DiskInv'
  BY <1>2, <1>4, <1>6, <1>8, <1>9, <1>10, ProjectChanged
<1> QED
  BY <1>2, <1>4, <1>5, <1>6, <1>11 DEF Project

LEMMA ExecuteKeeps ==
    ASSUME LockInv, HistoryInv, NEW p \in Processes, Execute(p)
    PROVE  HistoryInv'
<1>1. /\ Works(p) /\ job[p].at = "execute" /\ UNCHANGED <<lock, phasePlan, plan, torn, builds>>
      /\ Phase(p).state \in {"created", "in_progress"} /\ GoOn(p, "deliver")
      /\ projects' = [WithPhase(job[p].k, "state", "in_progress") EXCEPT ![1].state = "in_progress"]
  BY DEF Execute, At, counts
<1>2. /\ Len(projects) = 1 /\ phasePlan # NoPhasePlan
      /\ job[p].k = phasePlan.current /\ job[p].k \in DOMAIN Project.phase /\ Phase(p).steps # 0
  <2>1. Running(p)
    BY <1>1 DEF HistoryInv, JobInv, Stage
  <2> QED
    BY <1>1, <2>1 DEF Running, Working
<1>3. Types
  BY DEF HistoryInv
<1>4. /\ job' \in [Processes -> Jobs] /\ \A r \in Processes \ {p} : job'[r] = job[r]
      /\ job'[p].at = "deliver" /\ job'[p].k = job[p].k
  <2>1. "deliver" \in Labels
    BY DEF Labels, Working
  <2> QED
    BY <1>1, <1>3, <2>1, GoesOn
<1>5. Loose = torn /\ Loose' = torn
  <2>1. job[p].at \notin Drafting /\ job'[p].at \notin Drafting
    BY <1>1, <1>4 DEF Drafting
  <2> QED
    BY <1>1, <2>1, NotDrafting
<1>6. PICK c : c = job[p].k
  OBVIOUS
<1>7. PICK w : w = WithPhase(c, "state", "in_progress")
  OBVIOUS
<1>8. /\ DiskInv' /\ projects' \in Seq(Projects) /\ Len(projects') = 1
      /\ DOMAIN Project'.phase = DOMAIN Project.phase
      /\ Project'.phase[c].steps # 0 /\ Project'.phase[c].state = "in_progress"
  <2>1. "in_progress" \in PhaseStates
    BY DEF PhaseStates
  <2>2. Project.phase[c].steps # 0 /\ Project.phase[c].state # "closed"
    BY <1>1, <1>2, <1>6 DEF Phase
  <2> QED
    BY <1>1, <1>2, <1>5, <1>6, <1>7, <2>1, <2>2, StateChanged
<1>9. Types'
  BY <1>1, <1>3, <1>4, <1>8 DEF Types
<1>10. Running(p)'
  BY <1>1, <1>2, <1>4, <1>6, <1>8 DEF Running, Found, Phase
<1>11. Stage(p)'
  BY <1>4, <1>10 DEF Stage, Planning, Ahead, Checkpointed, Decomposed, Numbered, Saved, Referenced, Retiring,
         Entering, Drafting
<1> QED
  BY <1>1, <1>4, <1>8, <1>9, <1>11, SessionStep

LEMMA CompletePhaseKeeps ==
    ASSUME LockInv, HistoryInv, NEW p \in Processes, CompletePhase(p)
    PROVE  HistoryInv'
<1>1. PICK v, next : v = Becomes[job[p].at] /\ next = After[job[p].at]
  OBVIOUS
<1>2. /\ Works(p) /\ job[p].at \in {"deliver", "tickets", "delivered"}
      /\ UNCHANGED <<lock, phasePlan, plan, torn, builds>>
      /\ projects' = WithPhase(job[p].k, "state", v) /\ GoOn(p, next)
  BY <1>1 DEF CompletePhase, After, counts
<1>3. /\ v \in PhaseStates /\ next \in Labels /\ next \in {"tickets", "delivered", "select"}
      /\ v = Found[next]
  BY <1>1, <1>2 DEF Becomes, After, Found, PhaseStates, Labels, Working
<1>4. /\ Len(projects) = 1 /\ phasePlan # NoPhasePlan
      /\ job[p].k = phasePlan.current /\ job[p].k \in DOMAIN Project.phase /\ Phase(p).steps # 0
      /\ Phase(p).state # "closed"
  <2>1. Running(p)
    BY <1>2 DEF HistoryInv, JobInv, Stage
  <2>2. job[p].at \in Working /\ job[p].at # "materialize" /\ job[p].at \in DOMAIN Found
        /\ Found[job[p].at] # "closed"
    BY <1>2 DEF Working, Found
  <2> QED
    BY <2>1, <2>2 DEF Running
<1>5. Types
  BY DEF HistoryInv
<1>6. /\ job' \in [Processes -> Jobs] /\ \A r \in Processes \ {p} : job'[r] = job[r]
      /\ job'[p].at = next /\ job'[p].k = job[p].k
  BY <1>2, <1>3, <1>5, GoesOn
<1>7. Loose = torn /\ Loose' = torn
  <2>1. job[p].at \notin Drafting /\ job'[p].at \notin Drafting
    BY <1>2, <1>3, <1>6 DEF Drafting
  <2> QED
    BY <1>2, <2>1, NotDrafting
<1>8. PICK c, w : c = job[p].k /\ w = WithPhase(c, "state", v)
  OBVIOUS
<1>9. /\ DiskInv' /\ projects' \in Seq(Projects) /\ Len(projects') = 1
      /\ DOMAIN Project'.phase = DOMAIN Project.phase
      /\ Project'.phase[c].steps # 0 /\ Project'.phase[c].state = v
  <2>1. Project.phase[c].steps # 0 /\ Project.phase[c].state # "closed"
    BY <1>4, <1>8 DEF Phase
  <2> QED
    BY <1>2, <1>3, <1>4, <1>7, <1>8, <2>1, StateChanged
<1>10. Types'
  BY <1>2, <1>5, <1>6, <1>9 DEF Types
<1>11. Running(p)'
  <2>1. next # "materialize" /\ next \notin {"close", "advance", "reference"}
    BY <1>3
  <2>2. Phase(p)' = Project'.phase[c]
    BY <1>6, <1>8 DEF Phase
  <2> QED
    BY <1>2, <1>3, <1>4, <1>6, <1>8, <1>9, <2>1, <2>2 DEF Running
<1>12. Stage(p)'
  <2>1. job'[p].at \in {"tickets", "delivered", "select"}
    BY <1>3, <1>6
  <2> QED
    BY <1>11, <2>1 DEF Stage, Planning, Ahead, Checkpointed, Decomposed, Numbered, Saved, Referenced, Retiring,
           Entering, Drafting
<1> QED
  BY <1>2, <1>6, <1>9, <1>10, <1>12, SessionStep

\* The project goes on, or comes to its end.
LEMMA ProjectMoved ==
    ASSUME LockInv, HistoryInv, Len(projects) = 1, NEW k, NEW s,
           projects' = [projects EXCEPT ![1] = [@ EXCEPT !.current = k, !.state = s]],
           k \in DOMAIN Project.phase, s \in ProjectStates,
           s = "closed" => \A i \in DOMAIN Project.phase : Project.phase[i].state = "closed",
           UNCHANGED <<phasePlan, plan, torn, builds>>, Loose = torn, Loose' = torn,
           Project.build = phasePlan.build /\ ~ LeavesOut(Project) =>
                k \in {phasePlan.current, phasePlan.current + 1}
    PROVE  /\ DiskInv' /\ projects' \in Seq(Projects) /\ Len(projects') = 1
           /\ Project'.phase = Project.phase /\ Project'.build = Project.build /\ Project'.current = k
<1>1. /\ projects \in Seq(Projects) /\ Project = projects[1] /\ Project \in Projects
      /\ ProjectOK(Project) /\ DOMAIN Project.phase = 1..Len(Project.phase)
      /\ \A i \in DOMAIN Project.phase :
            /\ Project.phase[i].build \in 1..builds /\ Project.phase[i].steps \in 0..builds
      /\ Project.build = phasePlan.build =>
            /\ \A i \in DOMAIN Project.phase : Project.phase[i].steps # 0 => i <= phasePlan.current
            /\ phasePlan.intent = "feature" /\ phasePlan.build \in torn =>
                \/ phasePlan.current # 1 /\ phasePlan.status[1] = "current"
                \/ \E i \in DOMAIN Project.phase :
                    i < phasePlan.current /\ Project.phase[i].state # "closed"
            /\ ~ LeavesOut(Project) => InStep(Project)
  BY TheRun
<1>2. PICK new : new = [Project EXCEPT !.current = k, !.state = s]
  OBVIOUS
<1>3. new \in Projects /\ new.build = Project.build /\ new.current = k /\ new.state = s
      /\ new.phase = Project.phase
  <2>1. k \in Nat
    BY <1>1
  <2> QED
    BY <1>1, <1>2, <2>1 DEF Projects
<1>4. projects' = [projects EXCEPT ![1] = new]
  BY <1>1, <1>2
<1>5. projects' \in Seq(Projects) /\ Len(projects') = 1 /\ projects'[1] = new
  BY <1>1, <1>3, <1>4, OneElement
<1>6. ProjectOK(new)
  BY <1>1, <1>3 DEF ProjectOK
<1>7. ~ LeavesOut(new) /\ new.build = phasePlan.build => InStep(new)
  BY <1>1, <1>3 DEF LeavesOut, InStep
<1>8. DiskInv'
  BY <1>1, <1>3, <1>5, <1>6, <1>7, ProjectChanged
<1> QED
  BY <1>3, <1>5, <1>8 DEF Project

\* What is known of a run past its Phase.
LEMMA AtTheClosed ==
    ASSUME HistoryInv, NEW p \in Processes, Works(p), job[p].at \in {"select", "close", "advance", "reference"}
    PROVE  /\ Len(projects) = 1 /\ phasePlan # NoPhasePlan /\ job[p].k = phasePlan.current
           /\ job[p].k \in DOMAIN Project.phase /\ Phase(p).steps # 0 /\ Phase(p).state = "closed"
           /\ job[p].at = "close" => \A k \in DOMAIN Project.phase : Project.phase[k].state = "closed"
           /\ job[p].at \in {"advance", "reference"} =>
                (Project.build = phasePlan.build /\ ~ LeavesOut(Project)
                 /\ job[p].k + 1 \in DOMAIN Project.phase => Project.current = job[p].k + 1)
           /\ job[p].at = "reference" =>
                /\ ReadyToPlan # {} /\ Least(ReadyToPlan) \in DOMAIN plan
                /\ plan[Least(ReadyToPlan)] = phasePlan.build
<1>1. Running(p)
  BY DEF HistoryInv, JobInv, Stage
<1>2. /\ job[p].at \in Working /\ job[p].at # "materialize" /\ job[p].at \in DOMAIN Found
      /\ Found[job[p].at] = "closed"
  BY DEF Working, Found
<1> QED
  BY <1>1, <1>2 DEF Running

\* And what has to be known of it.
LEMMA StaysClosed ==
    ASSUME HistoryInv, NEW p \in Processes, Works(p), job[p].at \in {"select", "close", "advance", "reference"},
           Len(projects') = 1, UNCHANGED phasePlan, job'[p].k = job[p].k,
           Project'.phase = Project.phase, job'[p].at \in {"close", "advance", "reference"},
           job'[p].at = "close" => \A k \in DOMAIN Project.phase : Project.phase[k].state = "closed",
           job'[p].at \in {"advance", "reference"} =>
                (Project'.build = phasePlan.build /\ ~ LeavesOut(Project)
                 /\ job[p].k + 1 \in DOMAIN Project.phase => Project'.current = job[p].k + 1),
           job'[p].at = "reference" =>
                /\ ReadyToPlan # {} /\ Least(ReadyToPlan) \in DOMAIN plan'
                /\ plan'[Least(ReadyToPlan)] = phasePlan.build
    PROVE  Stage(p)'
<1>1. /\ Len(projects) = 1 /\ phasePlan # NoPhasePlan /\ job[p].k = phasePlan.current
      /\ job[p].k \in DOMAIN Project.phase /\ Phase(p).steps # 0 /\ Phase(p).state = "closed"
  BY AtTheClosed
<1>2. LeavesOut(Project)' <=> LeavesOut(Project)
  BY DEF LeavesOut
<1>3. Phase(p)' = Phase(p) /\ ReadyToPlan' = ReadyToPlan
  BY DEF Phase, ReadyToPlan, Planned, Completed
<1>4. Running(p)'
  <2>1. /\ job'[p].at # "materialize" /\ job'[p].at \in DOMAIN Found /\ Found[job'[p].at] = "closed"
    BY DEF Found
  <2> QED
    BY <1>1, <1>2, <1>3, <2>1 DEF Running
<1> QED
  BY <1>4 DEF Stage, Planning, Ahead, Checkpointed, Decomposed, Numbered, Saved, Referenced, Retiring,
         Entering, Drafting

LEMMA SelectKeeps ==
    ASSUME LockInv, HistoryInv, NEW p \in Processes, SelectCurrentPhase(p)
    PROVE  HistoryInv'
<1>1. PICK L, s, K : L = Least(NextPhases) /\ s = Project.state /\ K = job[p].k
  OBVIOUS
<1>2. /\ Works(p) /\ job[p].at = "select" /\ NextPhases # {} /\ UNCHANGED <<lock, phasePlan, plan, torn, builds>>
      /\ projects' = [projects EXCEPT ![1].current = L] /\ GoOn(p, "advance")
  BY <1>1 DEF SelectCurrentPhase, At, counts
<1>3. /\ Len(projects) = 1 /\ phasePlan # NoPhasePlan /\ K = phasePlan.current
      /\ K \in DOMAIN Project.phase /\ Project.phase[K].steps # 0 /\ Project.phase[K].state = "closed"
  BY <1>1, <1>2, AtTheClosed DEF Phase
<1>4. Types
  BY DEF HistoryInv
<1>5. /\ job' \in [Processes -> Jobs] /\ \A r \in Processes \ {p} : job'[r] = job[r]
      /\ job'[p].at = "advance" /\ job'[p].k = K
  <2>1. "advance" \in Labels
    BY DEF Labels, Working
  <2> QED
    BY <1>1, <1>2, <1>4, <2>1, GoesOn
<1>6. Loose = torn /\ Loose' = torn
  <2>1. job[p].at \notin Drafting /\ job'[p].at \notin Drafting
    BY <1>2, <1>5 DEF Drafting
  <2> QED
    BY <1>2, <2>1, NotDrafting
<1>7. /\ Project = projects[1] /\ Project \in Projects /\ projects \in Seq(Projects) /\ DOMAIN projects = {1}
      /\ DOMAIN Project.phase = 1..Len(Project.phase) /\ Len(Project.phase) \in Nat
      /\ ProjectOK(Project)
      /\ Project.build = phasePlan.build =>
            \A i \in DOMAIN Project.phase : Project.phase[i].steps # 0 => i <= phasePlan.current
  BY <1>3, TheRun
<1>8. L \in NextPhases /\ (\A i \in NextPhases : L <= i) /\ NextPhases \subseteq DOMAIN Project.phase
  <2>1. NextPhases \subseteq DOMAIN Project.phase
    BY DEF NextPhases
  <2>2. NextPhases \subseteq Nat
    BY <1>7, <2>1
  <2> QED
    BY <1>1, <1>2, <2>1, <2>2, LeastIs
<1>9. ASSUME Project.build = phasePlan.build, ~ LeavesOut(Project) PROVE L = K + 1
  <2>1. \A i \in DOMAIN Project.phase : i <= K => Project.phase[i].state = "closed"
    BY <1>3, <1>7, <1>9 DEF LeavesOut
  <2>2. L \in DOMAIN Project.phase /\ Project.phase[L].state # "closed"
    BY <1>8 DEF NextPhases
  <2>3. K + 1 \in DOMAIN Project.phase /\ K + 1 <= L /\ L \in Nat /\ K \in Nat
    BY <1>3, <1>7, <2>1, <2>2
  <2>4. Project.phase[K + 1].steps = 0
    BY <1>3, <1>7, <1>9, <2>3
  <2>5. Project.phase[K + 1].state # "closed"
    BY <1>7, <2>3, <2>4 DEF ProjectOK
  <2>6. (K + 1) - 1 = K
    BY <2>3
  <2>7. K + 1 \in NextPhases
    BY <1>3, <2>3, <2>5, <2>6 DEF NextPhases
  <2>8. L <= K + 1
    BY <1>8, <2>7
  <2> QED
    BY <2>3, <2>8
<1>10. PICK new : new = [Project EXCEPT !.current = L]
  OBVIOUS
<1>11. new = [Project EXCEPT !.current = L, !.state = s]
  BY <1>1, <1>7, <1>10 DEF Projects
<1>12. projects' = [projects EXCEPT ![1] = [@ EXCEPT !.current = L, !.state = s]]
  BY <1>2, <1>7, <1>10, <1>11
<1>13. /\ DiskInv' /\ projects' \in Seq(Projects) /\ Len(projects') = 1
       /\ Project'.phase = Project.phase /\ Project'.build = Project.build /\ Project'.current = L
  <2>1. s \in ProjectStates /\ L \in DOMAIN Project.phase
    BY <1>1, <1>7, <1>8 DEF Projects
  <2>2. s = "closed" => \A i \in DOMAIN Project.phase : Project.phase[i].state = "closed"
    BY <1>1, <1>7 DEF ProjectOK
  <2>3. Project.build = phasePlan.build /\ ~ LeavesOut(Project) => L \in {phasePlan.current, phasePlan.current + 1}
    BY <1>3, <1>9
  <2> QED
    BY <1>2, <1>3, <1>6, <1>12, <2>1, <2>2, <2>3, ProjectMoved
<1>14. Types'
  BY <1>2, <1>4, <1>5, <1>13 DEF Types
<1>15. Stage(p)'
  BY <1>1, <1>2, <1>5, <1>9, <1>13, StaysClosed
<1> QED
  BY <1>2, <1>5, <1>13, <1>14, <1>15, SessionStep

\* With no Phase to go on to, every Phase is closed.
LEMMA NoneNext ==
    ASSUME Len(projects) = 1, HistoryInv, NextPhases = {}
    PROVE  \A k \in DOMAIN Project.phase : Project.phase[k].state = "closed"
<1> DEFINE S == {k \in DOMAIN Project.phase : Project.phase[k].state # "closed"}
<1>1. /\ DOMAIN Project.phase = 1..Len(Project.phase) /\ Len(Project.phase) \in Nat
  BY TheRun
<1>2. SUFFICES ASSUME S # {} PROVE FALSE
  OBVIOUS
<1>3. S \subseteq Nat
  BY <1>1
<1>4. PICK l \in S : \A i \in S : l <= i
  <2> HIDE DEF S
  <2> QED
    BY <1>2, <1>3, LeastOf
<1>5. ASSUME Dependent(l) PROVE Project.phase[l - 1].state = "closed"
  <2>1. l - 1 \in DOMAIN Project.phase
    BY <1>1, <1>5, FirstIsFree
  <2> QED
    BY <1>1, <1>4, <2>1
<1>6. l \in NextPhases
  BY <1>5 DEF NextPhases
<1> QED
  BY <1>6

LEMMA EndOfProjectKeeps ==
    ASSUME LockInv, HistoryInv, NEW p \in Processes, DeliverProject(p) \/ CloseProject(p)
    PROVE  HistoryInv'
<1>1. PICK s, next, K, c :
        /\ s = IF DeliverProject(p) THEN "delivered" ELSE "closed"
        /\ next = IF DeliverProject(p) THEN "close" ELSE "advance"
        /\ K = job[p].k /\ c = Project.current
  OBVIOUS
<1>2. /\ Works(p) /\ UNCHANGED <<lock, phasePlan, plan, torn, builds>>
      /\ projects' = [projects EXCEPT ![1].state = s] /\ GoOn(p, next)
      /\ \/ job[p].at = "select" /\ NextPhases = {} /\ next = "close" /\ s = "delivered"
         \/ job[p].at = "close" /\ next = "advance" /\ s = "closed"
  BY <1>1 DEF DeliverProject, CloseProject, At, counts
<1>3. /\ Len(projects) = 1 /\ phasePlan # NoPhasePlan /\ K = phasePlan.current
      /\ K \in DOMAIN Project.phase /\ Project.phase[K].steps # 0 /\ Project.phase[K].state = "closed"
  BY <1>1, <1>2, AtTheClosed DEF Phase
<1>4. Types
  BY DEF HistoryInv
<1>5. /\ job' \in [Processes -> Jobs] /\ \A r \in Processes \ {p} : job'[r] = job[r]
      /\ job'[p].at = next /\ job'[p].k = K
  <2>1. next \in Labels
    BY <1>2 DEF Labels, Working
  <2> QED
    BY <1>1, <1>2, <1>4, <2>1, GoesOn
<1>6. Loose = torn /\ Loose' = torn
  <2>1. job[p].at \notin Drafting /\ job'[p].at \notin Drafting
    BY <1>2, <1>5 DEF Drafting
  <2> QED
    BY <1>2, <2>1, NotDrafting
<1>7. \A k \in DOMAIN Project.phase : Project.phase[k].state = "closed"
  BY <1>2, <1>3, NoneNext, AtTheClosed
<1>8. /\ Project = projects[1] /\ Project \in Projects /\ projects \in Seq(Projects) /\ DOMAIN projects = {1}
      /\ DOMAIN Project.phase = 1..Len(Project.phase) /\ Len(Project.phase) \in Nat
      /\ ProjectOK(Project)
      /\ Project.build = phasePlan.build =>
            /\ \A i \in DOMAIN Project.phase : Project.phase[i].steps # 0 => i <= phasePlan.current
            /\ ~ LeavesOut(Project) => InStep(Project)
  BY <1>3, TheRun
<1>9. PICK new : new = [Project EXCEPT !.state = s]
  OBVIOUS
<1>10. new = [Project EXCEPT !.current = c, !.state = s]
  BY <1>1, <1>8, <1>9 DEF Projects
<1>11. projects' = [projects EXCEPT ![1] = [@ EXCEPT !.current = c, !.state = s]]
  BY <1>2, <1>8, <1>9, <1>10
<1>12. /\ DiskInv' /\ projects' \in Seq(Projects) /\ Len(projects') = 1
       /\ Project'.phase = Project.phase /\ Project'.build = Project.build /\ Project'.current = c
  <2>1. s \in ProjectStates /\ c \in DOMAIN Project.phase
    BY <1>1, <1>2, <1>8 DEF ProjectStates, ProjectOK
  <2>2. Project.build = phasePlan.build /\ ~ LeavesOut(Project) => c \in {phasePlan.current, phasePlan.current + 1}
    BY <1>1, <1>8 DEF InStep
  <2> QED
    BY <1>2, <1>3, <1>6, <1>7, <1>11, <2>1, <2>2, ProjectMoved
<1>13. Types'
  BY <1>2, <1>4, <1>5, <1>12 DEF Types
<1>14. ASSUME Project.build = phasePlan.build, K + 1 \in DOMAIN Project.phase PROVE FALSE
  <2>1. K \in Nat /\ ~ (K + 1 <= K)
    BY <1>3, <1>8
  <2>2. Project.phase[K + 1].steps = 0
    BY <1>3, <1>8, <1>14, <2>1
  <2>3. Project.phase[K + 1].state = "created"
    BY <1>8, <1>14, <2>2 DEF ProjectOK
  <2> QED
    BY <1>7, <1>14, <2>3
<1>15. Stage(p)'
  <2>1. job'[p].at \in {"close", "advance", "reference"} /\ job'[p].at # "reference"
    BY <1>2, <1>5
  <2>2. job[p].at \in {"select", "close", "advance", "reference"}
    BY <1>2
  <2>3. Project'.build = phasePlan.build /\ ~ LeavesOut(Project)
                 /\ job[p].k + 1 \in DOMAIN Project.phase => Project'.current = job[p].k + 1
    BY <1>1, <1>12, <1>14
  <2> QED
    BY <1>1, <1>2, <1>5, <1>7, <1>12, <2>1, <2>2, <2>3, StaysClosed
<1> QED
  BY <1>2, <1>5, <1>12, <1>13, <1>15, SessionStep

-----------------------------------------------------------------------------
(* The PhasePlan goes on to the next Phase.                                 *)

LEMMA CompletedIs ==
    ASSUME HistoryInv, phasePlan # NoPhasePlan, NEW S, S = Completed, NEW c, c = phasePlan.current
    PROVE  /\ S \in Maps(Statuses) /\ DOMAIN S = DOMAIN phasePlan.status /\ c \in DOMAIN S /\ S[c] = "complete"
           /\ \A k \in DOMAIN S \ {c} : S[k] = phasePlan.status[k]
           /\ c \in Nat \ {0} /\ DOMAIN S \subseteq Nat \ {0} /\ phasePlan \in PhasePlans /\ Sound(phasePlan)
           /\ Planned = {k \in DOMAIN S : S[k] = "planned"}
           /\ ReadyToPlan = {k \in Planned : Dependent(k) => S[k - 1] = "complete"}
           /\ \A l \in ReadyToPlan : l = c + 1 /\ Dependent(l) /\ l \in DOMAIN S /\ S[l] = "planned"
<1>1. phasePlan \in PhasePlans /\ Sound(phasePlan)
  BY DEF HistoryInv, DiskInv, PlanSound, Types
<1>2. /\ phasePlan.status \in Maps(Statuses) /\ DOMAIN phasePlan.status \subseteq Nat \ {0}
      /\ \A k \in DOMAIN phasePlan.status : phasePlan.status[k] \in Statuses
  BY <1>1, MapIs DEF PhasePlans
<1>3. c \in DOMAIN phasePlan.status /\ Grid(DOMAIN phasePlan.status)
  BY <1>1 DEF Sound
<1>4. S = [phasePlan.status EXCEPT ![c] = "complete"]
  BY DEF Completed
<1>5. /\ DOMAIN S = DOMAIN phasePlan.status /\ S[c] = "complete"
      /\ \A k \in DOMAIN S \ {c} : S[k] = phasePlan.status[k]
  BY <1>3, <1>4
<1>6. S \in Maps(Statuses)
  <2>1. "complete" \in Statuses
    BY DEF Statuses
  <2>2. phasePlan.status \in [DOMAIN phasePlan.status -> Statuses]
    BY <1>2 DEF Maps
  <2>3. S \in [DOMAIN phasePlan.status -> Statuses]
    BY <1>4, <2>1, <2>2
  <2> QED
    BY <1>2, <2>3, IsMap
<1>7. /\ Planned = {k \in DOMAIN S : S[k] = "planned"}
      /\ ReadyToPlan = {k \in Planned : Dependent(k) => S[k - 1] = "complete"}
  BY DEF Planned, ReadyToPlan
<1>8. ASSUME NEW l \in ReadyToPlan
      PROVE  l = c + 1 /\ Dependent(l) /\ l \in DOMAIN S /\ S[l] = "planned"
  <2>1. l \in DOMAIN S /\ S[l] = "planned" /\ (Dependent(l) => S[l - 1] = "complete")
    BY <1>7
  <2>2. l # c /\ phasePlan.status[l] = "planned"
    BY <1>5, <2>1
  <2>3. Dependent(l) /\ phasePlan.status[l - 1] \in {"planned", "current"}
    BY <1>1, <1>5, <2>1, <2>2 DEF Sound
  <2>4. l - 1 \in DOMAIN S
    BY <1>3, <1>5, <2>1, <2>3, GridPlaces
  <2>5. l - 1 = c
    BY <1>5, <2>1, <2>3, <2>4
  <2>6. l \in Nat /\ c \in Nat
    BY <1>2, <1>3, <1>5, <2>1
  <2> QED
    BY <2>1, <2>3, <2>5, <2>6
<1> QED
  BY <1>1, <1>2, <1>3, <1>5, <1>6, <1>7, <1>8

\* Where it goes, if anywhere.
LEMMA NextToPlan ==
    ASSUME HistoryInv, phasePlan # NoPhasePlan, ReadyToPlan # {}
    PROVE  Least(ReadyToPlan) \in ReadyToPlan
<1>1. PICK S, c : S = Completed /\ c = phasePlan.current
  OBVIOUS
<1>2. ReadyToPlan \subseteq Nat
  BY <1>1, CompletedIs
<1> QED
  BY <1>2, LeastIs

LEMMA ProjectsKept == ProjectsOK /\ UNCHANGED <<projects, torn>> => ProjectsOK'
BY DEF ProjectsOK, ProjectOK, OfItsBuild

LEMMA PlanAdvanced ==
    ASSUME LockInv, HistoryInv, Len(projects) = 1, NEW c, c = phasePlan.current, NEW L \in {c, c + 1},
           NEW S \in Maps(Statuses), DOMAIN S = DOMAIN phasePlan.status, L \in DOMAIN S,
           phasePlan' = [phasePlan EXCEPT !.current = L, !.status = S],
           S[c] = "complete", \A k \in DOMAIN S \ {c, L} : S[k] = phasePlan.status[k],
           L = c => \A k \in DOMAIN S : S[k] # "planned",
           L # c => S[L] = "current" /\ Dependent(L) /\ (L \in DOMAIN plan => plan[L] = phasePlan.build),
           c \in DOMAIN Project.phase, Project.phase[c].state = "closed",
           L # c /\ Project.build = phasePlan.build /\ ~ LeavesOut(Project)
                /\ L \in DOMAIN Project.phase => Project.current = L,
           UNCHANGED <<plan, projects, torn, builds>>, Loose = torn, Loose' = torn
    PROVE  /\ DiskInv' /\ phasePlan' \in PhasePlans /\ phasePlan' # NoPhasePlan
           /\ phasePlan'.current = L /\ phasePlan'.build = phasePlan.build
<1> USE DEF HistoryInv, DiskInv
<1>1. phasePlan \in PhasePlans /\ Types
  BY DEF Types
<1>2. /\ projects \in Seq(Projects) /\ projects # <<>> /\ DOMAIN projects = {1}
      /\ Project = projects[1] /\ Newest = Project
      /\ Len(Project.phase) \in Nat /\ DOMAIN Project.phase = 1..Len(Project.phase)
      /\ ProjectOK(Project) /\ phasePlan # NoPhasePlan /\ Sound(phasePlan)
      /\ Project.build = phasePlan.build =>
            /\ \A k \in DOMAIN Project.phase : Project.phase[k].steps # 0 => k <= phasePlan.current
            /\ phasePlan.intent = "feature" /\ phasePlan.build \in torn =>
                \/ phasePlan.current # 1 /\ phasePlan.status[1] = "current"
                \/ \E i \in DOMAIN Project.phase :
                    i < phasePlan.current /\ Project.phase[i].state # "closed"
            /\ ~ LeavesOut(Project) => InStep(Project)
  BY TheRun
<1>3. /\ DOMAIN S \subseteq Nat \ {0} /\ Grid(DOMAIN S) /\ c \in DOMAIN S
  BY <1>2, MapIs DEF Sound
<1>4. c \in Nat \ {0} /\ L \in Nat \ {0} /\ (L = c \/ L = c + 1)
  BY <1>3
<1>5. /\ phasePlan'.build = phasePlan.build /\ phasePlan'.intent = phasePlan.intent
      /\ phasePlan'.current = L /\ phasePlan'.status = S /\ phasePlan' \in PhasePlans
  BY <1>1, <1>4 DEF PhasePlans
<1>6. phasePlan' # NoPhasePlan
  BY <1>2, <1>5, NoPhasePlanIs DEF Sound
<1>7. ASSUME L # c
      PROVE  /\ L = c + 1 /\ L - 1 = c /\ L \in DOMAIN Project.phase
             /\ Project.phase[L].build = Project.phase[c].build
  <2>1. L = c + 1 /\ L - 1 = c
    BY <1>4, <1>7
  <2>2. L \in DOMAIN Project.phase
    <3>1. Dependent(c + 1) /\ c \in 1..Len(Project.phase) /\ Whole(Len(Project.phase))
      BY <1>2, <1>7, <2>1 DEF ProjectOK
    <3> QED
      BY <1>2, <2>1, <3>1, WholeBlocks
  <2> QED
    BY <1>2, <1>7, <2>1, <2>2 DEF ProjectOK
<1>8. Sound(phasePlan')
  <2>1. S[L] # "planned"
    BY <1>2, <1>5
  <2>2. ASSUME NEW k \in DOMAIN S, S[k] = "planned"
        PROVE  Dependent(k) /\ S[k - 1] \in {"planned", "current"}
    <3>1. k # c /\ k # L /\ L # c /\ phasePlan.status[k] = "planned"
      BY <2>1, <2>2
    <3>2. Dependent(k) /\ phasePlan.status[k - 1] \in {"planned", "current"}
      BY <1>2, <2>2, <3>1 DEF Sound
    <3>3. k - 1 \in DOMAIN S
      BY <1>3, <3>2, GridPlaces
    <3>4. k - 1 # c
      BY <1>3, <1>4, <1>7, <3>1
    <3>5. CASE k - 1 = L
      BY <3>1, <3>2, <3>5
    <3>6. CASE k - 1 # L
      BY <3>2, <3>3, <3>4, <3>6
    <3> QED
      BY <3>5, <3>6
  <2>3. ASSUME L = 1 PROVE DOMAIN S = 1..Split /\ \A k \in 2..Split : S[k] = "planned"
    <3>1. c = 1
      BY <1>4, <2>3
    <3>2. DOMAIN S = 1..Split /\ \A k \in 2..Split : phasePlan.status[k] = "planned"
      BY <1>2, <3>1 DEF Sound
    <3>3. \A k \in 2..Split : k \in DOMAIN S /\ k \notin {c, L}
      BY <2>3, <3>1, <3>2, HistoryAssumption
    <3> QED
      BY <3>2, <3>3
  <2> QED
    BY <1>2, <1>5, <2>1, <2>2, <2>3 DEF Sound
<1>9. Numbers' /\ PlanSound' /\ ProjectsOK'
  <2>1. Numbers'
    BY <1>5 DEF Numbers
  <2>2. PlanSound'
    BY <1>8 DEF PlanSound
  <2>3. ProjectsOK'
    BY ProjectsKept
  <2> QED
    BY <2>1, <2>2, <2>3
<1>10. Newest' = Newest
  BY DEF Newest
<1>11. Fit'
  <2>1. /\ \A k \in {1, c} : k \in DOMAIN plan /\ k \in DOMAIN Project.phase => FitsIn(plan[k], Project.phase[k].build)
        /\ FitsIn(phasePlan.build, Project.phase[c].build)
        /\ \A k \in DOMAIN Project.phase :
                Project.phase[k].build = phasePlan.build => Project.build = phasePlan.build
    BY <1>2 DEF Fit
  <2>2. L \in DOMAIN Project.phase => FitsIn(phasePlan.build, Project.phase[L].build)
    BY <1>7, <2>1
  <2>3. L \in DOMAIN plan /\ L \in DOMAIN Project.phase => FitsIn(plan[L], Project.phase[L].build)
    BY <2>1, <2>2
  <2>4. 1 \in DOMAIN plan /\ 1 \in DOMAIN Project.phase => FitsIn(plan[1], Project.phase[1].build)
    BY <2>1
  <2> QED
    BY <1>2, <1>5, <1>6, <1>10, <2>1, <2>2, <2>3, <2>4 DEF Fit, FitsIn
<1>12. Origin'
  BY <1>2, <1>5 DEF Origin, InRegistry
<1>13. Settled'
  <2>1. ASSUME Project.build = phasePlan.build
        PROVE  /\ \A k \in DOMAIN Project.phase : Project.phase[k].steps # 0 => k <= L
               /\ phasePlan.intent = "feature" /\ phasePlan.build \in torn =>
                   \/ L # 1 /\ S[1] = "current"
                   \/ \E i \in DOMAIN Project.phase : i < L /\ Project.phase[i].state # "closed"
               /\ ~ LeavesOut(Project) => InStep(Project)'
    <3>1. \A k \in DOMAIN Project.phase : Project.phase[k].steps # 0 => k <= L
      BY <1>2, <1>4, <2>1
    <3>2. phasePlan.intent = "feature" /\ phasePlan.build \in torn =>
                   \/ L # 1 /\ S[1] = "current"
                   \/ \E i \in DOMAIN Project.phase : i < L /\ Project.phase[i].state # "closed"
      <4>1. ASSUME c # 1, phasePlan.status[1] = "current" PROVE L # 1 /\ S[1] = "current"
        <5>1. L # 1 /\ 1 \in DOMAIN S
          BY <1>2, <1>4, <4>1 DEF Sound
        <5> QED
          BY <4>1, <5>1
      <4>2. ASSUME NEW i \in DOMAIN Project.phase, i < c PROVE i < L
        BY <1>2, <1>4, <4>2
      <4> QED
        BY <1>2, <2>1, <4>1, <4>2
    <3>3. ASSUME ~ LeavesOut(Project) PROVE InStep(Project)'
      <4>1. InStep(Project)
        BY <1>2, <2>1, <3>3
      <4>2. Project.current \in {L, L + 1}
        BY <1>4, <1>7, <2>1, <3>3, <4>1 DEF InStep
      <4>3. \A k \in DOMAIN S \cap DOMAIN Project.phase :
                /\ S[k] = "complete" => k = c \/ phasePlan.status[k] = "complete"
                /\ S[k] = "planned" => phasePlan.status[k] = "planned"
        <5>1. L # c => S[L] = "current"
          OBVIOUS
        <5> QED
          BY <5>1
      <4>4. Project' = Project
        BY DEF Project
      <4> QED
        BY <1>5, <4>1, <4>2, <4>3, <4>4 DEF InStep
    <3> QED
      BY <3>1, <3>2, <3>3
  <2>2. Project' = Project /\ (LeavesOut(Project)' <=> LeavesOut(Project))
    BY DEF Project, LeavesOut
  <2>3. InStep(Project)' => InStep(Newest)'
    BY <1>2, <1>10, <2>2 DEF InStep
  <2>4. LeavesOut(Newest)' <=> LeavesOut(Project)
    BY <1>2, <1>10 DEF LeavesOut
  <2> QED
    BY <1>2, <1>5, <1>10, <2>1, <2>3, <2>4 DEF Settled
<1> QED
  BY <1>5, <1>6, <1>8, <1>9, <1>11, <1>12, <1>13

LEMMA FinishKeeps ==
    ASSUME LockInv, HistoryInv, NEW p \in Processes, FinishPhasePlan(p)
    PROVE  HistoryInv'
<1>1. PICK S, c : S = Completed /\ c = phasePlan.current
  OBVIOUS
<1>2. /\ Works(p) /\ job[p].at = "advance" /\ Planned = {} /\ UNCHANGED <<lock, plan, projects, torn, builds>>
      /\ phasePlan' = [phasePlan EXCEPT !.status = S] /\ GoOn(p, "end")
  BY <1>1 DEF FinishPhasePlan, At, counts
<1>3. /\ Len(projects) = 1 /\ phasePlan # NoPhasePlan
      /\ c \in DOMAIN Project.phase /\ Project.phase[c].state = "closed"
  BY <1>1, <1>2, AtTheClosed DEF Phase
<1>4. Types
  BY DEF HistoryInv
<1>5. /\ job' \in [Processes -> Jobs] /\ \A r \in Processes \ {p} : job'[r] = job[r] /\ job'[p].at = "end"
  <2>1. "end" \in Labels
    BY DEF Labels
  <2> QED
    BY <1>2, <1>4, <2>1, GoesOn
<1>6. job'[p].at = "end"
  <2>1. "end" \in Labels
    BY DEF Labels
  <2> QED
    BY <1>2, <1>4, <2>1, GoesOn
<1>7. Loose = torn /\ Loose' = torn
  <2>1. job[p].at \notin Drafting /\ job'[p].at \notin Drafting
    BY <1>2, <1>6 DEF Drafting
  <2> QED
    BY <1>2, <2>1, NotDrafting
<1>8. /\ S \in Maps(Statuses) /\ DOMAIN S = DOMAIN phasePlan.status /\ c \in DOMAIN S /\ S[c] = "complete"
      /\ \A k \in DOMAIN S \ {c} : S[k] = phasePlan.status[k]
      /\ c \in Nat \ {0} /\ phasePlan \in PhasePlans
      /\ Planned = {k \in DOMAIN S : S[k] = "planned"}
  BY <1>1, <1>3, CompletedIs
<1>9. phasePlan' = [phasePlan EXCEPT !.current = c, !.status = S]
  BY <1>1, <1>2, <1>8 DEF PhasePlans
<1>10. DiskInv' /\ phasePlan' \in PhasePlans
  <2>1. \A k \in DOMAIN S : S[k] # "planned"
    BY <1>2, <1>8
  <2> QED
    BY <1>1, <1>2, <1>3, <1>7, <1>8, <1>9, <2>1, PlanAdvanced
<1>11. Types'
  BY <1>2, <1>4, <1>5, <1>10 DEF Types
<1>12. Stage(p)'
  BY <1>6 DEF Stage, Planning, Ahead, Checkpointed, Decomposed, Numbered, Saved, Referenced, Retiring, Running,
         Entering, Drafting, Working
<1> QED
  BY <1>2, <1>5, <1>10, <1>11, <1>12, SessionStep

LEMMA PublishKeeps ==
    ASSUME LockInv, HistoryInv, NEW p \in Processes, Publish(p)
    PROVE  HistoryInv'
<1>1. PICK S, c, L, b, K :
        /\ S = Completed /\ c = phasePlan.current /\ L = Least(ReadyToPlan) /\ b = phasePlan.build
        /\ K = job[p].k
  OBVIOUS
<1>2. /\ Works(p) /\ job[p].at = "advance" /\ ReadyToPlan # {}
      /\ UNCHANGED <<lock, phasePlan, projects, torn, builds>>
      /\ plan' = WithPlan(L, b) /\ GoOn(p, "reference")
  BY <1>1 DEF Publish, At, counts
<1>3. /\ Len(projects) = 1 /\ phasePlan # NoPhasePlan /\ K = c
      /\ (Project.build = phasePlan.build /\ ~ LeavesOut(Project)
          /\ K + 1 \in DOMAIN Project.phase => Project.current = K + 1)
  BY <1>1, <1>2, AtTheClosed
<1>4. Types
  BY DEF HistoryInv
<1>5. /\ job' \in [Processes -> Jobs] /\ (\A r \in Processes \ {p} : job'[r] = job[r])
      /\ job'[p].at = "reference" /\ job'[p].k = K
  <2>1. "reference" \in Labels
    BY DEF Labels, Working
  <2> QED
    BY <1>1, <1>2, <1>4, <2>1, GoesOn
<1>6. Loose = torn /\ Loose' = torn
  <2>1. job[p].at \notin Drafting /\ job'[p].at \notin Drafting
    BY <1>2, <1>5 DEF Drafting
  <2> QED
    BY <1>2, <2>1, NotDrafting
<1>7. /\ c \in Nat \ {0} /\ Sound(phasePlan) /\ L = c + 1
  BY <1>1, <1>2, <1>3, CompletedIs, NextToPlan
<1>8. L \in Nat \ {0} /\ L # 1 /\ L # c
  BY <1>7
<1>9. b \in 1..builds
  <2>1. b # 0 /\ b \in 0..builds /\ builds \in Nat
    BY <1>1, <1>4, <1>7 DEF Sound, HistoryInv, DiskInv, Numbers, Types
  <2> QED
    BY <2>1
<1>10. DiskInv' /\ plan' \in Maps(Nat) /\ L \in DOMAIN plan' /\ plan'[L] = b
  BY <1>1, <1>2, <1>6, <1>8, <1>9, PlanKept
<1>11. Types'
  BY <1>2, <1>4, <1>5, <1>10 DEF Types
<1>12. Stage(p)'
  <2>1. Project'.phase = Project.phase /\ Project'.build = Project.build /\ Project'.current = Project.current
    BY <1>2 DEF Project
  <2> QED
    BY <1>1, <1>2, <1>3, <1>5, <1>10, <2>1, StaysClosed
<1> QED
  BY <1>2, <1>5, <1>10, <1>11, <1>12, SessionStep

LEMMA ReferenceKeeps ==
    ASSUME LockInv, HistoryInv, NEW p \in Processes, Reference(p)
    PROVE  HistoryInv'
<1>1. PICK C, c, L, S :
        /\ C = Completed /\ c = phasePlan.current /\ L = Least(ReadyToPlan)
        /\ S = [C EXCEPT ![L] = "current"]
  OBVIOUS
<1>2. /\ Works(p) /\ job[p].at = "reference" /\ UNCHANGED <<lock, plan, projects, torn, builds>>
      /\ phasePlan' = [phasePlan EXCEPT !.current = L, !.status = S] /\ GoOn(p, "enter")
  BY <1>1 DEF Reference, At, counts
<1>3. /\ Len(projects) = 1 /\ phasePlan # NoPhasePlan
      /\ c \in DOMAIN Project.phase /\ Project.phase[c].state = "closed"
      /\ (Project.build = phasePlan.build /\ ~ LeavesOut(Project)
          /\ c + 1 \in DOMAIN Project.phase => Project.current = c + 1)
      /\ ReadyToPlan # {} /\ L \in DOMAIN plan /\ plan[L] = phasePlan.build
  BY <1>1, <1>2, AtTheClosed DEF Phase
<1>4. Types
  BY DEF HistoryInv
<1>5. /\ job' \in [Processes -> Jobs] /\ (\A r \in Processes \ {p} : job'[r] = job[r])
      /\ job'[p].at = "enter"
  <2>1. "enter" \in Labels
    BY DEF Labels
  <2> QED
    BY <1>2, <1>4, <2>1, GoesOn
<1>6. Loose = torn /\ Loose' = torn
  <2>1. job[p].at \notin Drafting /\ job'[p].at \notin Drafting
    BY <1>2, <1>5 DEF Drafting
  <2> QED
    BY <1>2, <2>1, NotDrafting
<1>7. /\ C \in Maps(Statuses) /\ DOMAIN C = DOMAIN phasePlan.status /\ c \in DOMAIN C /\ C[c] = "complete"
      /\ \A k \in DOMAIN C \ {c} : C[k] = phasePlan.status[k]
      /\ c \in Nat \ {0} /\ DOMAIN C \subseteq Nat \ {0}
      /\ L = c + 1 /\ Dependent(L) /\ L \in DOMAIN C
  BY <1>1, <1>3, CompletedIs, NextToPlan
<1>8. L # c
  BY <1>7
<1>9. /\ S \in Maps(Statuses) /\ DOMAIN S = DOMAIN C /\ S[L] = "current" /\ S[c] = "complete"
      /\ \A k \in DOMAIN S \ {c, L} : S[k] = phasePlan.status[k]
  <2>1. C \in [DOMAIN C -> Statuses] /\ "current" \in Statuses
    BY <1>7 DEF Maps, Statuses
  <2>2. S \in [DOMAIN C -> Statuses]
    BY <1>1, <2>1
  <2>3. S \in Maps(Statuses)
    BY <1>7, <2>2, IsMap
  <2>4. DOMAIN S = DOMAIN C /\ S[L] = "current" /\ \A k \in DOMAIN C \ {L} : S[k] = C[k]
    BY <1>1, <1>7
  <2> QED
    BY <1>7, <1>8, <2>3, <2>4
<1>10. /\ DiskInv' /\ phasePlan' \in PhasePlans /\ phasePlan' # NoPhasePlan /\ phasePlan'.current = L
  <2>1. L \in {c, c + 1} /\ L \in DOMAIN S /\ DOMAIN S = DOMAIN phasePlan.status
    BY <1>7, <1>9
  <2>2. L # c /\ Project.build = phasePlan.build /\ ~ LeavesOut(Project)
            /\ L \in DOMAIN Project.phase => Project.current = L
    BY <1>3, <1>7
  <2>3. L # c => S[L] = "current" /\ Dependent(L) /\ (L \in DOMAIN plan => plan[L] = phasePlan.build)
    BY <1>3, <1>7, <1>9
  <2>4. L = c => \A k \in DOMAIN S : S[k] # "planned"
    BY <1>8
  <2>5. c = phasePlan.current
    BY <1>1
  <2>6. UNCHANGED <<plan, projects, torn, builds>> /\ phasePlan' = [phasePlan EXCEPT !.current = L, !.status = S]
    BY <1>2
  <2>7. Len(projects) = 1 /\ c \in DOMAIN Project.phase /\ Project.phase[c].state = "closed"
    BY <1>3
  <2>8. S \in Maps(Statuses) /\ S[c] = "complete" /\ \A k \in DOMAIN S \ {c, L} : S[k] = phasePlan.status[k]
    BY <1>9
  <2> QED
    BY <1>6, <2>1, <2>2, <2>3, <2>4, <2>5, <2>6, <2>7, <2>8, PlanAdvanced, ZenonT(60)
<1>11. Types'
  BY <1>2, <1>4, <1>5, <1>10 DEF Types
<1>12. Stage(p)'
  <2>1. Entering(p)'
    BY <1>2, <1>3, <1>10 DEF Entering
  <2> QED
    BY <1>5, <2>1 DEF Stage, Planning, Ahead, Checkpointed, Decomposed, Numbered, Saved, Referenced, Retiring,
           Running, Drafting, Working
<1> QED
  BY <1>2, <1>5, <1>10, <1>11, <1>12, SessionStep

-----------------------------------------------------------------------------
(* Every step, and what follows.                                            *)

LEMMA HistoryKeeps ==
    ASSUME LockInv, HistoryInv, [HistoryNext]_everything
    PROVE  HistoryInv'
<1>1. CASE UNCHANGED everything
  <2>1. UNCHANGED <<disk, builds, torn, job, pc, ousted>>
    BY <1>1 DEF everything, lock, vars, counts
  <2>2. \A q \in Processes : Works(q)' = Works(q) /\ LeftBehind(q)' = LeftBehind(q)
    BY <2>1 DEF Works, LeftBehind, disk
  <2>3. job \in [Processes -> Jobs] /\ \A q \in Processes : pc[q] # "held" => job[q].at = "idle"
    BY DEF HistoryInv, Types, JobInv
  <2> QED
    BY <2>1, <2>2, <2>3, QuietStep DEF Loose
<1>2. ASSUME NEW p \in Processes,
             Goes(p) \/ Starts(p) \/ BeginBuild(p) \/ Recycle(p) \/ Fail(p) \/ Die(p)
      PROVE  HistoryInv'
  <2>1. CASE Starts(p) \/ Recycle(p) \/ Leave(p) \/ Die(p)
    BY <2>1, OthersKeep
  <2>2. CASE BeginBuild(p)
    BY <2>2, BeginBuildKeeps
  <2>3. CASE Locks(p)
    BY <2>3, LocksKeeps
  <2>4. CASE Fail(p) \/ CannotPlan(p) \/ CannotLoad(p) \/ CannotDeliver(p) \/ CannotAdvance(p) \/ CannotEnter(p)
    <3>1. Works(p) /\ GivesUp(p)
      BY <2>4 DEF Fail, CannotPlan, CannotLoad, CannotDeliver, CannotAdvance, CannotEnter, Refused, At
    <3> QED
      BY <3>1, GivesUpKeeps
  <2>5. CASE Build(p) /\ ~ CannotPlan(p)
    BY <2>5, CheckpointKeeps, ReuseKeeps, DecomposeKeeps, SavePlanKeeps, SavePhasePlanKeeps, PersistGraphKeeps,
       PersistExtensionKeeps, RetireProjectKeeps
       DEF Build
  <2>6. CASE Run(p) /\ ~ (CannotLoad(p) \/ CannotDeliver(p) \/ CannotAdvance(p) \/ CannotEnter(p))
    BY <2>6, BeginRunKeeps, LoadKeeps, MaterializeKeeps, CheckKeeps, ExecuteKeeps, CompletePhaseKeeps,
       SelectKeeps, EndOfProjectKeeps, FinishKeeps, PublishKeeps, ReferenceKeeps, EnterKeeps
       DEF Run
  <2> QED
    BY <1>2, <2>1, <2>2, <2>3, <2>4, <2>5, <2>6 DEF Goes
<1> QED
  BY <1>1, <1>2 DEF HistoryNext

LEMMA HistoryIsCoherent == HistoryInv => Coherent
<1> SUFFICES ASSUME HistoryInv PROVE Coherent
  OBVIOUS
<1>1. \A i \in DOMAIN projects : \A k \in DOMAIN projects[i].phase : OfItsBuild(projects[i].phase[k])
  BY DEF HistoryInv, DiskInv, ProjectsOK, ProjectOK
<1>2. Len(projects) = 1 /\ phasePlan.build = Project.build /\ ~ LeavesOut(Project) => InStep(Project)
  BY TheRun
<1> QED
  BY <1>1, <1>2 DEF Coherent

\* The files and the registry tell one story, whichever builds and runs follow one another and
\* wherever they end: no commit covers both, and each build or run goes on from what it finds
\* (src/runtime/build.ts:717, src/runtime/run.ts).
THEOREM OneStory == Overlap = FALSE => (HistorySpec => []Coherent)
<1> SUFFICES ASSUME Overlap = FALSE PROVE HistorySpec => []Coherent
  OBVIOUS
<1>1. HistoryInit => HistoryInv
  BY InitHistory
<1>2. LockInv /\ HistoryInv /\ [HistoryNext]_everything => HistoryInv'
  BY HistoryKeeps
<1>3. HistoryInv => Coherent
  BY HistoryIsCoherent
<1>4. HistorySpec => []LockInv
  BY HistoryLocks
<1> QED
  BY <1>1, <1>2, <1>3, <1>4, PTL DEF HistorySpec
=============================================================================
