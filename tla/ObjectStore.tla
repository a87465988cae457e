----------------------------- MODULE ObjectStore -----------------------------
(***************************************************************************)
(* The object store every service commits through: the repository          *)
(* (src/infrastructure/repository/domain_object_repository.ts), which      *)
(* writes one file per object revision and caches it, over the registry    *)
(* (src/infrastructure/registry/object_registry.ts), an append-only event  *)
(* log with a rebuildable index.                                           *)
(*                                                                         *)
(* A caller reads copies of objects, derives their next revisions and      *)
(* commits them; every commit and every tombstone waits its turn in a      *)
(* queue, and each `await' inside one is a place where other callers run   *)
(* and where the process may die or an I/O call fail.  What a caller       *)
(* writes is identified by the caller.  An append reaches the log whole or *)
(* not at all, as one write(2) does when the process is killed.            *)
(***************************************************************************)
EXTENDS Naturals, FiniteSetsExt, SequencesExt

CONSTANTS
    Root,           \* the project object
    Parent,         \* its children: each other object to the one it hangs under
    Batches,        \* what a caller may commit together, in the order it lists it
    Callers,        \* concurrent read-modify-write callers
    MaxEvents,      \* bound on the length of the event log
    MaxFailures     \* bound on crashes and failed I/O calls together

Objects == {Root} \cup DOMAIN Parent

ASSUME ObjectStoreAssumption ==
    /\ Root \notin DOMAIN Parent
    /\ \A o \in DOMAIN Parent : Parent[o] \in Objects \ {o}
    /\ Batches \subseteq Seq(Objects)
    /\ \A b \in Batches : b # <<>> /\ IsInjective(b)
    /\ MaxEvents \in Nat /\ MaxFailures \in Nat

VARIABLES
    log,        \* events.jsonl: the registry events
    index,      \* index.json: the entries and the event sequence it covers
    files,      \* objects/<type>/<id>/r<revision>.json: who wrote it, or {}
    up,         \* the process is running
    entries,    \* memory: the registry's entries
    sequence,   \* memory: the registry's eventSequence
    cache,      \* memory: the repository's objectCache
    queue,      \* memory: the commits waiting, the running one first
    stage,      \* memory: what the running commit does next
    written,    \* memory: how many object files of it are written
    batch,      \* each caller's batch, <<>> when it has none
    seen,       \* the revisions it read when it derived the next ones
    failures    \* crashes and I/O failures so far

disk == <<log, index, files>>
memory == <<up, entries, sequence, cache, queue, stage, written,
            batch, seen>>
vars == <<disk, memory, failures>>

Absent == [revision |-> 0, value |-> {}, retired |-> FALSE]

Revisions == 0..MaxEvents
Entry == [revision : Revisions, value : Callers \cup {{}}, retired : BOOLEAN]
Stages == {"idle", "files", "append", "apply", "index"}

\* What the events es leave of object o, starting from entry e.
LastEntry(es, o, e) ==
    LET at == {i \in DOMAIN es : es[i].object = o}
    IN  IF at = {} THEN e ELSE es[Max(at)].entry

\* The registry a replay of the events es yields.
Replay(es) == [o \in Objects |-> LastEntry(es, o, Absent)]

TypeOK ==
    /\ log \in Seq([object : Objects, entry : Entry])
    /\ index \in [sequence : 0..MaxEvents, entries : [Objects -> Entry]]
    /\ files \in [Objects -> [1..MaxEvents -> Callers \cup {{}}]]
    /\ up \in BOOLEAN /\ failures \in 0..MaxFailures
    /\ entries \in [Objects -> Entry] /\ sequence \in 0..MaxEvents
    /\ cache \in [Objects -> [1..MaxEvents -> Callers \cup {{}}]]
    /\ queue \in Seq(Callers) /\ stage \in Stages
    /\ written \in Nat
    /\ batch \in [Callers -> Batches \cup {<<>>}]
    /\ seen \in [Callers -> [Objects -> Revisions]]

NoFiles == [o \in Objects |-> [r \in 1..MaxEvents |-> {}]]

Init ==
    /\ log = <<>>
    /\ index = [sequence |-> 0, entries |-> Replay(<<>>)]
    /\ files = NoFiles /\ cache = NoFiles
    /\ up = TRUE /\ failures = 0
    /\ entries = Replay(<<>>) /\ sequence = 0
    /\ queue = <<>> /\ stage = "idle" /\ written = 0
    /\ batch = [c \in Callers |-> <<>>]
    /\ seen = [c \in Callers |-> [o \in Objects |-> 0]]

-----------------------------------------------------------------------------
InBatch(c) == Range(batch[c])
NextRevision(c, o) == seen[c][o] + 1    \* what caller c writes
Running == Head(queue)                  \* the caller whose commit runs
Active(o) == entries[o].revision > 0 /\ ~entries[o].retired

\* A caller reads the objects it will change, or makes up new identities: an
\* identity is a fresh UUID, so no two callers make up the same one.
Read(c) ==
    /\ up /\ batch[c] = <<>>
    /\ \E b \in Batches :
          /\ Len(log) + Len(b) <= MaxEvents
          /\ \A o \in Range(b) :
                /\ ~entries[o].retired
                /\ entries[o].revision = 0 =>
                      \A d \in Callers \ {c} : o \notin InBatch(d)
          /\ batch' = [batch EXCEPT ![c] = b]
          /\ seen' = [seen EXCEPT ![c] = [o \in Objects |->
                        IF o \in Range(b) THEN entries[o].revision ELSE 0]]
    /\ UNCHANGED <<disk, up, entries, sequence, cache, queue, stage,
                   written, failures>>

\* commit(): joins the commit queue, and starts when that is empty.
Commit(c) ==
    /\ up /\ batch[c] # <<>> /\ c \notin Range(queue)
    /\ queue' = Append(queue, c)
    /\ stage' = IF queue = <<>> THEN "files" ELSE stage
    /\ UNCHANGED <<disk, up, entries, sequence, cache, written, batch, seen, failures>>

\* The running commit settles, its caller goes on and the next one starts.
Settle ==
    /\ queue' = Tail(queue)
    /\ stage' = IF Len(queue) > 1 THEN "files" ELSE "idle"
    /\ written' = 0
    /\ batch' = [batch EXCEPT ![Running] = <<>>]
    /\ seen' = [seen EXCEPT ![Running] = [o \in Objects |-> 0]]

\* commitObjects: one object file after the other, each one cached, before the
\* registry has a say.
WriteObject ==
    /\ up /\ stage = "files"
    /\ LET o == batch[Running][written + 1]
           r == NextRevision(Running, o)
       IN  /\ files' = [files EXCEPT ![o][r] = Running]
           /\ cache' = [cache EXCEPT ![o][r] = Running]
    /\ written' = written + 1
    /\ stage' = IF written' = Len(batch[Running]) THEN "append" ELSE "files"
    /\ UNCHANGED <<log, index, up, entries, sequence, queue, batch, seen, failures>>

\* assertProjectAndParentIn, over the entries and the operations before the i-th.
UnderActiveParent(b, i) ==
    LET there == {p \in Objects : Active(p)} \cup {b[j] : j \in 1..(i - 1)}
    IN  b[i] # Root => Root \in there /\ Parent[b[i]] \in there

\* What commitBatch requires of every operation: nobody committed since the
\* caller read, the object is not retired and its parent is there.
Acceptable ==
    LET b == batch[Running]
    IN  \A i \in DOMAIN b :
            /\ ~entries[b[i]].retired
            /\ NextRevision(Running, b[i]) = entries[b[i]].revision + 1
            /\ UnderActiveParent(b, i)

\* The events of the running commit.
Events ==
    [i \in DOMAIN batch[Running] |->
        LET o == batch[Running][i]
        IN  [object |-> o,
             entry |-> [revision |-> NextRevision(Running, o),
                        value |-> Running, retired |-> FALSE]]]

\* (mutant) A batch appended whatever the callers read.
AppendUnchecked ==
    /\ up /\ stage = "append" /\ Len(log) + Len(Events) <= MaxEvents
    /\ log' = log \o Events
    /\ stage' = "apply"
    /\ UNCHANGED <<index, files, up, entries, sequence, cache, queue, written,
                   batch, seen, failures>>

\* commitBatch up to its append: the commit is rejected, or durable from here.
AppendBatch ==
    /\ up /\ stage = "append"
    /\ IF Acceptable
       THEN /\ Len(log) + Len(Events) <= MaxEvents
            /\ log' = log \o Events
            /\ stage' = "apply"
            /\ UNCHANGED <<queue, written, batch, seen>>
       ELSE /\ Settle
            /\ UNCHANGED log
    /\ UNCHANGED <<index, files, up, entries, sequence, cache, failures>>

\* applyEvent for each event of the commit.
ApplyBatch ==
    /\ up /\ stage = "apply"
    /\ entries' = [o \in Objects |-> LastEntry(Events, o, entries[o])]
    /\ sequence' = sequence + Len(Events)
    /\ stage' = "index"
    /\ UNCHANGED <<disk, up, cache, queue, written, batch, seen, failures>>

\* writeSnapshot (atomic: a temporary file, then a rename), and the commit
\* resolves.
WriteIndex ==
    /\ up /\ stage = "index"
    /\ index' = [sequence |-> sequence, entries |-> entries]
    /\ Settle
    /\ UNCHANGED <<log, files, up, entries, sequence, cache, failures>>

\* An I/O call of the running commit fails and the commit rejects.  Past the
\* append it is committed all the same.
IoFailure ==
    /\ up /\ stage \in {"files", "append", "index"}
    /\ failures < MaxFailures /\ failures' = failures + 1
    /\ Settle
    /\ UNCHANGED <<disk, up, entries, sequence, cache>>

\* (mutant) A retirement that leaves children behind.
TombstoneWithChildren(o, saved) ==
    /\ up /\ stage \notin {"apply", "index"}
    /\ Active(o) /\ Len(log) < MaxEvents
    /\ LET e == [entries[o] EXCEPT !.revision = @ + 1, !.retired = TRUE]
       IN  /\ log' = Append(log, [object |-> o, entry |-> e])
           /\ entries' = [entries EXCEPT ![o] = e]
    /\ sequence' = sequence + 1
    /\ saved /\ index' = [sequence |-> sequence', entries |-> entries']
    /\ UNCHANGED <<files, up, cache, queue, stage, written, batch, seen, failures>>

\* One turn of retireProject: tombstone() of an object no active child hangs
\* under.  It waits for the registry's queue, not for the repository's, so it
\* may come between the files of a commit and its append.  `saved' is FALSE when
\* the index cannot be written: the events are ahead of it then.
Tombstone(o, saved) ==
    /\ up /\ stage \notin {"apply", "index"}
    /\ Active(o) /\ Len(log) < MaxEvents
    /\ \A p \in DOMAIN Parent : Parent[p] = o => ~Active(p)
    /\ LET e == [entries[o] EXCEPT !.revision = @ + 1, !.retired = TRUE]
       IN  /\ log' = Append(log, [object |-> o, entry |-> e])
           /\ entries' = [entries EXCEPT ![o] = e]
    /\ sequence' = sequence + 1
    /\ IF saved
       THEN index' = [sequence |-> sequence', entries |-> entries'] /\ UNCHANGED failures
       ELSE /\ UNCHANGED index
            /\ failures < MaxFailures /\ failures' = failures + 1
    /\ UNCHANGED <<files, up, cache, queue, stage, written, batch, seen>>

\* The process dies: what it held in memory is gone.
Crash ==
    /\ up /\ failures < MaxFailures
    /\ failures' = failures + 1
    /\ up' = FALSE
    /\ entries' = Replay(<<>>) /\ sequence' = 0
    /\ cache' = NoFiles
    /\ queue' = <<>> /\ stage' = "idle" /\ written' = 0
    /\ batch' = [c \in Callers |-> <<>>]
    /\ seen' = [c \in Callers |-> [o \in Objects |-> 0]]
    /\ UNCHANGED disk

Unindexed == SubSeq(log, index.sequence + 1, Len(log))

\* (mutant) A load that trusts the index and does not replay the events after it.
LoadedIndexOnly == index.entries

\* What load() makes of the index and the log.
Loaded == [o \in Objects |-> LastEntry(Unindexed, o, index.entries[o])]

\* load(): the index, then the events after it.  It refuses an index that is
\* ahead of the log.
Boot ==
    /\ ~up
    /\ index.sequence <= Len(log)
    /\ up' = TRUE
    /\ entries' = Loaded
    /\ sequence' = Len(log)
    /\ UNCHANGED <<disk, cache, queue, stage, written, batch, seen, failures>>

Next ==
    \/ \E c \in Callers : Read(c) \/ Commit(c)
    \/ WriteObject \/ AppendBatch \/ ApplyBatch \/ WriteIndex \/ IoFailure
    \/ \E o \in Objects, saved \in BOOLEAN : Tombstone(o, saved)
    \/ Crash \/ Boot

Spec == Init /\ [][Next]_vars

-----------------------------------------------------------------------------
\* Whatever moment the process dies at, the next load yields what the events on
\* disk say; and, except while a commit is between its append and its apply, so
\* does the memory of the running process.
Recoverable ==
    /\ index.sequence <= Len(log)
    /\ Loaded = Replay(log)
    /\ (up /\ stage # "apply") => entries = Replay(log) /\ sequence = Len(log)

\* verifyIntegrity finds no 'missing-project' and no 'missing-parent': an object
\* is retired after everything under it, whatever is retired, committed or lost
\* in between.
NoOrphans ==
    LET e == Replay(log)
        live(o) == e[o].revision > 0 /\ ~e[o].retired
    IN  \A o \in DOMAIN Parent : live(o) => live(Root) /\ live(Parent[o])

\* The log alone is the store the callers were promised: what a batch changes
\* changes at its append, at once and from the revisions its caller read.
Store == INSTANCE VersionedStore WITH Values <- Callers, current <- Replay(log)

Implements == Store!Spec

=============================================================================
