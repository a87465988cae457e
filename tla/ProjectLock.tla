----------------------------- MODULE ProjectLock -----------------------------
(***************************************************************************)
(* The project lock of src/core/lock.ts: one file, .lock, in the state     *)
(* root every worktree of a project shares.  xcompiler_run and             *)
(* xcompiler_build acquire it before they touch the project and release it *)
(* at the end.                                                             *)
(*                                                                         *)
(* Every element of Processes is one operating-system process of one host, *)
(* which runs once.  Each action is one file-system call, so two processes *)
(* interleave wherever acquireLock or release awaits, and a process may    *)
(* die there.  Files are told apart from the path they are reached by: a   *)
(* process that opened a file goes on writing to it after the path is      *)
(* unlinked.                                                               *)
(***************************************************************************)
EXTENDS Naturals, FiniteSets

CONSTANTS
    Processes,
    Forced,         \* the processes started with --force
    Overlap,        \* may an acquisition or a release run into another one?
    None,           \* no file
    Empty, Garbage  \* the contents that parse as no lock

ASSUME ProjectLockAssumption ==
    /\ Forced \subseteq Processes
    /\ Overlap \in BOOLEAN
    /\ {None, Empty, Garbage} \cap Processes = {}
    /\ Empty # None /\ Garbage # None /\ Empty # Garbage

VARIABLES
    pc,         \* where each process is
    path,       \* the file .lock names, called after the process that created it
    content,    \* each file's content: the owner it records, or none
    fd,         \* the file a process has open for writing
    ousted      \* the holders a forced process has overridden

vars == <<pc, path, content, fd, ousted>>

Midway == {"read", "truncate", "fill", "unlink"}
Gone == {"refused", "done", "dead"}
Stages == {"new", "create", "held"} \cup Midway \cup Gone

TypeOK ==
    /\ pc \in [Processes -> Stages]
    /\ path \in Processes \cup {None}
    /\ content \in [Processes -> Processes \cup {Empty, Garbage}]
    /\ fd \in [Processes -> Processes \cup {None}]
    /\ ousted \in SUBSET Processes
    /\ \A p \in Processes : pc[p] = "fill" => fd[p] # None

Init ==
    /\ pc = [p \in Processes |-> "new"]
    /\ path = None
    /\ content = [p \in Processes |-> Empty]
    /\ fd = [p \in Processes |-> None]
    /\ ousted = {}

-----------------------------------------------------------------------------
GoTo(p, stage) == pc' = [pc EXCEPT ![p] = stage]

\* Nobody else is inside acquireLock or release.
Clear(p) == Overlap \/ \A q \in Processes \ {p} : pc[q] \notin Midway

\* isAlive, by the pid a lock records.
Alive(p) == pc[p] \notin Gone

\* The owner readLock finds, None when it reads no lock.
Recorded == IF path # None /\ content[path] \in Processes THEN content[path] ELSE None

Start(p) ==
    /\ pc[p] = "new"
    /\ GoTo(p, "create")
    /\ UNCHANGED <<path, content, fd, ousted>>

\* tryCreate: open(file, 'wx').  The new file is empty until the payload is
\* written by the next call.
Create(p) ==
    /\ pc[p] = "create" /\ Clear(p)
    /\ IF path = None
       THEN /\ path' = p
            /\ content' = [content EXCEPT ![p] = Empty]
            /\ fd' = [fd EXCEPT ![p] = p]
            /\ GoTo(p, "fill")
       ELSE /\ GoTo(p, IF p \in Forced THEN "truncate" ELSE "read")
            /\ UNCHANGED <<path, content, fd>>
    /\ UNCHANGED ousted

\* (mutant) The lock of a living process is taken for a stale one.
ReadAnyPid(p) ==
    /\ pc[p] = "read"
    /\ GoTo(p, "truncate")
    /\ UNCHANGED <<path, content, fd, ousted>>

\* (mutant) A lock that does not parse is left to its owner.
ReadDamaged(p) ==
    /\ pc[p] = "read"
    /\ GoTo(p, IF Recorded = None \/ Alive(Recorded) THEN "refused" ELSE "truncate")
    /\ UNCHANGED <<path, content, fd, ousted>>

\* readLock: the lock of a living process stands, a stale or a damaged one does
\* not.
Read(p) ==
    /\ pc[p] = "read"
    /\ GoTo(p, IF Recorded # None /\ Alive(Recorded) THEN "refused" ELSE "truncate")
    /\ UNCHANGED <<path, content, fd, ousted>>

\* writeFile of a takeover: the file is created if need be, and truncated.
Truncate(p) ==
    /\ pc[p] = "truncate"
    /\ LET file == IF path = None THEN p ELSE path
       IN  /\ path' = file
           /\ content' = [content EXCEPT ![file] = Empty]
           /\ fd' = [fd EXCEPT ![p] = file]
    /\ ousted' = IF p \in Forced /\ Recorded # None THEN ousted \cup {Recorded} ELSE ousted
    /\ GoTo(p, "fill")

\* The payload: over another writer's longer one it leaves that one's tail.
Fill(p) ==
    /\ pc[p] = "fill"
    /\ \E text \in IF content[fd[p]] = Empty THEN {p} ELSE {p, Garbage} :
          content' = [content EXCEPT ![fd[p]] = text]
    /\ GoTo(p, "held")
    /\ UNCHANGED <<path, fd, ousted>>

\* (mutant) A release that does not look whose lock it is.
ReleaseBlindly(p) ==
    /\ pc[p] = "held" /\ Clear(p)
    /\ GoTo(p, "unlink")
    /\ UNCHANGED <<path, content, fd, ousted>>

\* release: reads the lock back ...
Release(p) ==
    /\ pc[p] = "held" /\ Clear(p)
    /\ GoTo(p, IF Recorded = p THEN "unlink" ELSE "done")
    /\ UNCHANGED <<path, content, fd, ousted>>

\* ... and unlinks it.
Unlink(p) ==
    /\ pc[p] = "unlink"
    /\ path' = None
    /\ GoTo(p, "done")
    /\ UNCHANGED <<content, fd, ousted>>

Crash(p) ==
    /\ pc[p] \notin Gone \cup {"new"}
    /\ GoTo(p, "dead")
    /\ UNCHANGED <<path, content, fd, ousted>>

Acquire(p) == Create(p) \/ Read(p) \/ Truncate(p) \/ Fill(p)

Next ==
    \E p \in Processes :
        Start(p) \/ Acquire(p) \/ Release(p) \/ Unlink(p) \/ Crash(p)

\* A process inside acquireLock or release goes on; nobody has to release.
Fairness == \A p \in Processes : WF_vars(Acquire(p)) /\ WF_vars(Unlink(p))

Spec == Init /\ [][Next]_vars /\ Fairness

-----------------------------------------------------------------------------
Holders == {p \in Processes : pc[p] = "held"} \ ousted

\* "Keeps several XCompiler processes from changing one project at a time": at
\* most one process works on it, but for those --force has overridden.
Exclusive == \A p, q \in Holders : p = q

\* "Does not let a replaced owner release the current lock": whoever unlinks the
\* lock is the owner it records, and nobody's lock disappears under him.
OnlyItsOwnerUnlinks ==
    [][\A p \in Processes :
          (path # None /\ path' = None /\ content[path] = p) => pc'[p] = "done"]_vars

Alone(p) == \A q \in Processes \ {p} : pc[q] \in Gone \cup {"new"}

\* A crash never wedges the project: whatever the processes before it left in
\* the file, a process with no living rival acquires the lock.
LastOneGetsIn ==
    \A p \in Processes :
        (pc[p] = "create" /\ Alone(p)) ~> (pc[p] \in {"held", "dead"} \/ ~Alone(p))
=============================================================================
