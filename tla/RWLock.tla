------------------------------- MODULE RWLock -------------------------------
(***************************************************************************)
(* The in-process readers-writer lock of src/core/rwlock.ts.               *)
(*                                                                         *)
(* Node runs one JavaScript thread: a piece of code runs to its next       *)
(* `await' without interruption, so each action below is one such piece.   *)
(* Waking a waiter resolves its promise, and the waiter's continuation --  *)
(* the statement after its `await', which is what takes the lock -- runs   *)
(* later, from the microtask queue.  The variable woken is the part of     *)
(* that queue this lock put there: one batch for each call of admitNext,   *)
(* served first in, first out.                                             *)
(***************************************************************************)
EXTENDS Integers, Sequences, FiniteSets

CONSTANTS
    Readers,    \* the callers of read()
    Writers,    \* the callers of write()
    Barging     \* may a caller run between a wake-up and its continuation?
                \* TRUE: a caller resumes from a microtask queued earlier.
                \* FALSE: every caller resumes from an I/O or timer event,
                \* which Node delivers only once the microtasks have drained.

Calls == Readers \cup Writers

ASSUME RWLockAssumption ==
    /\ IsFiniteSet(Readers)
    /\ IsFiniteSet(Writers)
    /\ Readers \cap Writers = {}
    /\ Barging \in BOOLEAN

VARIABLES
    activeReaders,  \* the counter of readers inside
    writing,        \* the flag a writer raises
    readerQueue,    \* the suspended readers (all are admitted at once)
    writerQueue,    \* the suspended writers, oldest first
    woken,          \* admitted batches whose continuation has not run yet
    pc              \* where each call is: "out", "queued", "woken" or "in"

vars == <<activeReaders, writing, readerQueue, writerQueue, woken, pc>>

TypeOK ==
    /\ activeReaders \in Nat
    /\ writing \in BOOLEAN
    /\ readerQueue \in SUBSET Readers
    /\ writerQueue \in Seq(Writers)
    /\ woken \in Seq(SUBSET Calls)
    /\ pc \in [Calls -> {"out", "queued", "woken", "in"}]

Init ==
    /\ activeReaders = 0
    /\ writing = FALSE
    /\ readerQueue = {}
    /\ writerQueue = <<>>
    /\ woken = <<>>
    /\ pc = [c \in Calls |-> "out"]

-----------------------------------------------------------------------------
\* A call, or a critical section that ends, runs as an event of its own unless
\* the callers are microtasks too.
MayRun == Barging \/ woken = <<>>

\* (mutant) A newcomer that looks at the flag and not at the writer queue.
AcquireReadPastWriters(r) ==
    /\ MayRun
    /\ pc[r] = "out"
    /\ ~writing
    /\ activeReaders' = activeReaders + 1
    /\ pc' = [pc EXCEPT ![r] = "in"]
    /\ UNCHANGED <<writing, readerQueue, writerQueue, woken>>

\* acquireRead: a queued writer holds off newcomers.
AcquireRead(r) ==
    /\ MayRun
    /\ pc[r] = "out"
    /\ IF ~writing /\ writerQueue = <<>>
       THEN /\ activeReaders' = activeReaders + 1
            /\ pc' = [pc EXCEPT ![r] = "in"]
            /\ UNCHANGED readerQueue
       ELSE /\ readerQueue' = readerQueue \cup {r}
            /\ pc' = [pc EXCEPT ![r] = "queued"]
            /\ UNCHANGED activeReaders
    /\ UNCHANGED <<writing, writerQueue, woken>>

\* (mutant) A writer that looks at the flag and not at the reader count.
AcquireWriteOverReaders(w) ==
    /\ MayRun
    /\ pc[w] = "out"
    /\ ~writing
    /\ writing' = TRUE
    /\ pc' = [pc EXCEPT ![w] = "in"]
    /\ UNCHANGED <<activeReaders, readerQueue, writerQueue, woken>>

\* acquireWrite.
AcquireWrite(w) ==
    /\ MayRun
    /\ pc[w] = "out"
    /\ IF ~writing /\ activeReaders = 0
       THEN /\ writing' = TRUE
            /\ pc' = [pc EXCEPT ![w] = "in"]
            /\ UNCHANGED writerQueue
       ELSE /\ writerQueue' = Append(writerQueue, w)
            /\ pc' = [pc EXCEPT ![w] = "queued"]
            /\ UNCHANGED writing
    /\ UNCHANGED <<activeReaders, readerQueue, woken>>

\* The calls admitNext would wake: the oldest writer, else the whole cohort of
\* readers.
Admitted == IF writerQueue # <<>> THEN {Head(writerQueue)} ELSE readerQueue

\* admitNext: wakes Admitted; `c' is the call that leaves.
AdmitNext(c) ==
    /\ woken' = IF Admitted = {} THEN woken ELSE Append(woken, Admitted)
    /\ pc' = [d \in Calls |-> IF d = c THEN "out"
                              ELSE IF d \in Admitted THEN "woken" ELSE pc[d]]
    /\ writerQueue' = IF writerQueue # <<>> THEN Tail(writerQueue) ELSE <<>>
    /\ readerQueue' = IF writerQueue # <<>> THEN readerQueue ELSE {}

\* releaseRead, from the `finally' of read(): runs when the section throws too.
ReleaseRead(r) ==
    /\ MayRun
    /\ pc[r] = "in"
    /\ activeReaders' = activeReaders - 1
    /\ IF activeReaders = 1
       THEN AdmitNext(r)
       ELSE /\ pc' = [pc EXCEPT ![r] = "out"]
            /\ UNCHANGED <<readerQueue, writerQueue, woken>>
    /\ UNCHANGED writing

\* releaseWrite.
ReleaseWrite(w) ==
    /\ MayRun
    /\ pc[w] = "in"
    /\ writing' = FALSE
    /\ AdmitNext(w)
    /\ UNCHANGED activeReaders

\* The continuations of the oldest batch: each woken call takes the lock without
\* looking at it again (the statements after the `await' in acquireRead and
\* acquireWrite).  The batch was queued in one go, so nothing runs between its
\* members.
Resume ==
    /\ woken # <<>>
    /\ LET batch == Head(woken)
       IN  /\ activeReaders' = activeReaders + Cardinality(batch \cap Readers)
           /\ writing' = (writing \/ batch \cap Writers # {})
           /\ pc' = [c \in Calls |-> IF c \in batch THEN "in" ELSE pc[c]]
    /\ woken' = Tail(woken)
    /\ UNCHANGED <<readerQueue, writerQueue>>

Next ==
    \/ \E r \in Readers : AcquireRead(r) \/ ReleaseRead(r)
    \/ \E w \in Writers : AcquireWrite(w) \/ ReleaseWrite(w)
    \/ Resume

\* Node runs a queued microtask, and a critical section ends.  No caller has to
\* call.
Fairness ==
    /\ WF_vars(Resume)
    /\ \A r \in Readers : WF_vars(ReleaseRead(r))
    /\ \A w \in Writers : WF_vars(ReleaseWrite(w))

Spec == Init /\ [][Next]_vars /\ Fairness

-----------------------------------------------------------------------------
Inside(S) == {c \in S : pc[c] = "in"}

\* "Any number of concurrent readers, one exclusive writer": whoever is inside
\* with a writer is that writer.
Exclusive ==
    \A w \in Inside(Writers) : Inside(Calls) = {w}

\* No lost wake-up: a suspended call always has somebody ahead of it who will
\* wake it, a holder or a batch that is on its way in.
NoLostWakeup ==
    (readerQueue # {} \/ writerQueue # <<>>)
        => (Inside(Calls) # {} \/ woken # <<>>)

\* "A waiting writer holds off new readers so a steady stream of readers cannot
\* starve it": a suspended writer gets in.
WriterGetsIn == \A w \in Writers : pc[w] = "queued" ~> pc[w] = "in"
=============================================================================
