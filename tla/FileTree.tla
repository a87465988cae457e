------------------------------ MODULE FileTree ------------------------------
(***************************************************************************)
(* The index of the canonical working copy: every tool that changes a file *)
(* tells the tree, under the write side of the lock, and the runtime scans *)
(* the whole copy where files change without a tool                        *)
(* (src/application/workspace/file_tree_service.ts,                        *)
(* src/tools/workspace_write.ts).                                          *)
(*                                                                         *)
(* Of a file the model keeps whether the index has it as it is now, and    *)
(* whether HEAD has.  The directories above it are indexed with it.  The   *)
(* writers are what calls a tool, and no two of them are at one file.      *)
(***************************************************************************)
EXTENDS RWLock

CONSTANTS
    Files,          \* the files there may be
    None            \* no file, and no revision

ASSUME FilesAssumption == None \notin Files \cup {"head", "older", "short"}

VARIABLES
    current,        \* the files the index has as they are
    committed,      \* the files HEAD has as they are
    tree,           \* the rest of the stored tree: dirty, and the revision it stands for
    job,            \* what each writer has to tell the tree
    missed,         \* the files that changed with no tool to tell
    astray          \* (history) those that did since there was nothing that HEAD has not

lock == <<activeReaders, writing, readerQueue, writerQueue, woken, pc>>
files == <<current, committed, missed, astray>>
index == <<lock, files, tree, job>>

\* The revision a tree stands for: HEAD, one before it, a hash cut short, or none.
Revisions == {"head", "older", "short", None}

Job(at, file, of) == [at |-> at, file |-> file, of |-> of, seen |-> {}, found |-> {}]
Nothing == Job("none", None, None)
At(w, label) == job[w].at = label
Free(w) == At(w, "none")
Busy(f) == \E w \in Writers : job[w].file = f

TreeInit ==
    /\ Init
    /\ current = Files /\ committed = Files
    /\ tree = [dirty |-> FALSE, of |-> None]
    /\ job = [w \in Writers |-> Nothing]
    /\ missed = {} /\ astray = {}

-----------------------------------------------------------------------------
(* What changes files: those of gone are not what the index has any more,  *)
(* those of kept are what HEAD has, and a walk that has passed them by has *)
(* not seen them as they are.                                              *)

Unseen(gone) == [w \in Writers |-> [job[w] EXCEPT !.found = @ \ gone]]
Change(gone, kept) ==
    /\ current' = current \ gone
    /\ committed' = (committed \ gone) \cup kept

\* writeWorkspaceFile and removeWorkspaceFile: the bytes, then the index.
WriteWorkspaceFile(w, f, kept) ==
    /\ Free(w) /\ ~ Busy(f)
    /\ Change({f}, kept)
    /\ job' = [Unseen({f}) EXCEPT ![w] = Job("record", f, None)]
    /\ UNCHANGED <<lock, tree, missed, astray>>

\* A change nobody tells the tree of: by a command, by Git, by somebody else, or by a
\* write that fails when it has begun.
Untold(gone) ==
    /\ \A f \in gone : ~ Busy(f)
    /\ Change(gone, {})
    /\ missed' = missed \cup gone
    /\ astray' = astray \cup gone
    /\ job' = Unseen(gone)
    /\ UNCHANGED <<lock, tree>>

-----------------------------------------------------------------------------
(* FileTreeService. *)

Tells(w) == job[w].at \in {"record", "dirty", "scan"}
Acquire(w) ==
    /\ Tells(w)
    /\ AcquireWrite(w)
    /\ UNCHANGED <<files, tree, job>>
Holds(w) == pc[w] = "in"
Done(w) ==
    /\ ReleaseWrite(w)
    /\ job' = [job EXCEPT ![w] = Nothing]

\* record: what there is of the file now is what the index gets, which is no revision's.
\* (mutant) The revision the tree stood for is carried forward.
RecordForward(w) ==
    /\ At(w, "record") /\ Holds(w)
    /\ current' = current \cup {job[w].file}
    /\ missed' = missed \ {job[w].file}
    /\ Done(w)
    /\ UNCHANGED <<committed, astray, tree>>
Record(w) ==
    /\ At(w, "record") /\ Holds(w)
    /\ current' = current \cup {job[w].file}
    /\ missed' = missed \ {job[w].file}
    /\ tree' = [tree EXCEPT !.of = None]
    /\ Done(w)
    /\ UNCHANGED <<committed, astray>>
\* The tree cannot be stored: the write stands, and the tree is to be marked.
RecordFails(w) ==
    /\ At(w, "record") /\ Holds(w)
    /\ ReleaseWrite(w)
    /\ job' = [job EXCEPT ![w].at = "dirty"]
    /\ UNCHANGED <<files, tree>>

MarkDirty(w) ==
    /\ At(w, "dirty") /\ Holds(w)
    /\ tree' = [tree EXCEPT !.dirty = TRUE]
    /\ Done(w)
    /\ UNCHANGED files
\* recordWorkspaceWrite drops the failure of that too.
MarkDirtyFails(w) ==
    /\ At(w, "dirty") /\ Holds(w) /\ job[w].file # None
    /\ missed' = missed \cup {job[w].file} /\ astray' = astray \cup {job[w].file}
    /\ Done(w)
    /\ UNCHANGED <<current, committed, tree>>

\* rescan.  The walk passes one file after the other, and what it has seen becomes the
\* tree, whatever was in it.
Seen(w) == LET f == CHOOSE f \in Files : f \notin job[w].seen
           IN  job' = [job EXCEPT ![w].seen = @ \cup {f}, ![w].found = @ \cup {f}]
\* (mutant) The walk does not wait for the lock.
WalkUnlocked(w) ==
    /\ At(w, "scan")
    /\ job[w].seen # Files /\ Seen(w)
    /\ UNCHANGED <<lock, files, tree>>
Walk(w) ==
    /\ At(w, "scan") /\ Holds(w)
    /\ job[w].seen # Files /\ Seen(w)
    /\ UNCHANGED <<lock, files, tree>>
Rescan(w) ==
    /\ At(w, "scan") /\ Holds(w) /\ job[w].seen = Files
    /\ current' = job[w].found
    /\ missed' = missed \ job[w].found
    /\ tree' = [dirty |-> FALSE, of |-> job[w].of]
    /\ Done(w)
    /\ UNCHANGED <<committed, astray>>

\* What is not for a tool throws: the caller goes on without.
Throws(w) ==
    /\ At(w, "scan") \/ (At(w, "dirty") /\ job[w].file = None)
    /\ Holds(w)
    /\ Done(w)
    /\ UNCHANGED <<files, tree>>

\* stat, list and entries.
Read(r) ==
    /\ AcquireRead(r)
    /\ UNCHANGED <<files, tree, job>>
HasRead(r) ==
    /\ ReleaseRead(r)
    /\ UNCHANGED <<files, tree, job>>
Continue ==
    /\ Resume
    /\ UNCHANGED <<files, tree, job>>

\* What whoever is inside goes on with.
Proceeds(w) == Record(w) \/ RecordFails(w) \/ MarkDirty(w) \/ MarkDirtyFails(w) \/ Walk(w) \/ Rescan(w)

-----------------------------------------------------------------------------
\* A file a tool changed is in the index as it is, or the tool is still telling it, or
\* the tree says of itself that it may be wrong.
IndexTrue == \A f \in Files \ current : Busy(f) \/ tree.dirty \/ f \in missed
=============================================================================
