------------------------------ MODULE Workbench ------------------------------
(***************************************************************************)
(* A run at its canonical working copy: the environment is prepared, the   *)
(* index is brought up to date, attempts change files and run commands and *)
(* are delivered or rolled back, what was developed elsewhere is judged    *)
(* and lands, and the Phase's documents are published                      *)
(* (src/runtime/run.ts, src/application/execution/attempt_runner.ts,       *)
(* src/tools/, src/application/project_management/orchestrator.ts).        *)
(*                                                                         *)
(* The run is one thread: flow is where it continues when the command, the *)
(* build and the update of the index it waits for are over.  Beside it     *)
(* there are the other callers of the index, the processes a program has   *)
(* left, and the end of the process at any time.                           *)
(***************************************************************************)
EXTENDS FileTree, Sandbox

CONSTANTS
    Run,            \* the run, as a caller of the index
    MaxAttempts, MaxCalls, MaxStrays, MaxCrashes    \* bounds

ASSUME WorkbenchAssumption == Run \in Writers /\ {"manifest", "source"} \subseteq Files

VARIABLES
    flow,           \* where the run continues
    base,           \* the manifest and lockfile of the attempt's baseline
    saved,          \* those add_dependency will put back
    spent           \* attempts, calls, strays and crashes so far

desk == <<flow, base, saved, spent>>
wvars == <<index, sandbox, desk>>

WInit ==
    /\ TreeInit /\ SandboxInit
    /\ flow = "start"
    /\ base = NoProject /\ saved = NoProject
    /\ spent = [attempts |-> 0, calls |-> 0, strays |-> 0, crashes |-> 0]

\* No other caller is at the index (a bound: they are there while the run scans it for
\* the first time).
Alone == \A c \in Calls \ {Run} : pc[c] = "out" /\ (c \in Writers => Free(c))

Ready(at) == flow = at /\ Free(Run) /\ BuildDone /\ ~ Running
GoTo(next) == flow' = next
Spend(what) == spent' = [spent EXCEPT ![what] = @ + 1]
AttemptEnds ==
    /\ GoTo("idle") /\ base' = NoProject
    /\ spent' = [spent EXCEPT !.calls = 0]

Tell(at, of) == job' = [job EXCEPT ![Run] = Job(at, None, of)]
\* A commit takes up everything there is, and is made when there is nothing too.
Snapshot ==
    /\ committed' = Files
    /\ tree' = [tree EXCEPT !.of = IF @ = "head" THEN "older" ELSE @]

-----------------------------------------------------------------------------
(* The start of a run. *)

Start ==
    /\ Ready("start")
    /\ StartBuild(FALSE)
    /\ GoTo("built")
    /\ UNCHANGED <<index, env, base, saved, spent>>
Built ==
    /\ Ready("built")
    /\ IF build.at = "ok"
       THEN Tell("scan", "head") /\ GoTo("scanned")
       ELSE GoTo("ended") /\ UNCHANGED job
    /\ build' = NoBuild
    /\ UNCHANGED <<lock, files, tree, env, cmd, base, saved, spent>>
Scanned ==
    /\ Ready("scanned") /\ Alone
    /\ IF committed # Files THEN Tell("dirty", None) ELSE UNCHANGED job
    /\ astray' = {}
    /\ GoTo("idle")
    /\ UNCHANGED <<lock, current, committed, missed, tree, sandbox, base, saved, spent>>

-----------------------------------------------------------------------------
(* An attempt. *)

BeginAttempt ==
    /\ Ready("idle") /\ spent.attempts < MaxAttempts
    /\ IF committed = Files THEN UNCHANGED <<committed, tree>> ELSE Snapshot
    /\ base' = project
    /\ Spend("attempts")
    /\ GoTo("tools")
    /\ UNCHANGED <<lock, current, missed, astray, job, sandbox, saved>>

WriteSource == WriteWorkspaceFile(Run, "source", {}) /\ UNCHANGED sandbox
WriteProject(new, kept) ==
    /\ WriteWorkspaceFile(Run, "manifest", kept)
    /\ project' = new
    /\ UNCHANGED <<language, modules, key, build, cmd>>
\* The manifest names one set of dependencies at first, and then another one.
WriteManifest == WriteProject([project EXCEPT !.manifest = IF @ = "first" THEN "second" ELSE "first"], {})
PutBack(old) == WriteProject(old, IF old = base THEN {"manifest"} ELSE {})

MayCall == Ready("tools") /\ spent.calls < MaxCalls

\* write_file, append_file, replace_in_file and http_fetch.  A write that fails may have
\* begun.
WriteFile ==
    /\ MayCall
    /\ \/ WriteSource /\ GoTo("tools")
       \/ WriteManifest /\ GoTo("sync")
       \/ Untold({"source"}) /\ UNCHANGED sandbox /\ GoTo("tools")
    /\ Spend("calls")
    /\ UNCHANGED <<base, saved>>

\* apply_patch of two files: the second may be refused when the first is written.
ApplyPatch ==
    /\ MayCall
    /\ WriteManifest /\ GoTo("patching")
    /\ Spend("calls")
    /\ UNCHANGED <<base, saved>>
PatchSecond ==
    /\ Ready("patching")
    /\ \/ WriteSource /\ GoTo("sync")
       \/ GoTo("tools") /\ UNCHANGED <<index, sandbox>>
    /\ UNCHANGED <<base, saved, spent>>

\* syncSandboxIfManifestWritten, when it is permitted.
Sync ==
    /\ Ready("sync")
    /\ GoTo("synced")
    /\ StartBuild(FALSE) \/ UNCHANGED <<build, cmd>>
    /\ UNCHANGED <<index, env, base, saved, spent>>
\* Whether it could be built is for the next command to find out.
Synced ==
    /\ Ready("synced")
    /\ GoTo("tools")
    /\ build' = NoBuild
    /\ UNCHANGED <<index, env, cmd, base, saved, spent>>

\* add_dependency.
AddDependency ==
    /\ MayCall
    /\ \/ WriteManifest /\ saved' = project /\ GoTo("rebuild")
       \/ \* every package is declared already
          /\ StartBuild(FALSE) /\ GoTo("synced")
          /\ UNCHANGED <<index, env, saved>>
    /\ Spend("calls")
    /\ UNCHANGED <<base>>
Rebuild ==
    /\ Ready("rebuild")
    /\ StartBuild(TRUE)
    /\ GoTo("rebuilt")
    /\ UNCHANGED <<index, env, base, saved, spent>>
Rebuilt ==
    /\ Ready("rebuilt")
    /\ \/ /\ build.at = "ok"
          /\ GoTo("synced") /\ saved' = NoProject
          /\ UNCHANGED <<index, sandbox>>
       \/ /\ build.at = "failed"
          /\ PutBack([project EXCEPT !.manifest = saved.manifest])
          /\ GoTo("restore") /\ UNCHANGED saved
    /\ UNCHANGED <<base, spent>>
Restore ==
    /\ Ready("restore")
    /\ IF TypeScript
       THEN PutBack(saved)
       ELSE UNCHANGED <<index, sandbox>>
    /\ GoTo("synced") /\ saved' = NoProject
    /\ UNCHANGED <<base, spent>>

\* run_program and run_tests, to which the model may give a time of 0, and install_deps.
Command ==
    /\ MayCall
    /\ \E run \in {"program", "untimed", "deps"} : cmd' = Spawn(run)
    /\ build' = NoBuild
    /\ Spend("calls")
    /\ UNCHANGED <<index, env, flow, base, saved>>

\* What was delivered is committed when the environment has followed the manifest.
Deliver ==
    /\ Ready("tools")
    /\ GoTo("deliver")
    /\ IF project.manifest # base.manifest THEN StartBuild(FALSE) ELSE UNCHANGED <<build, cmd>>
    /\ UNCHANGED <<index, env, base, saved, spent>>
Delivered ==
    /\ Ready("deliver")
    /\ Snapshot
    /\ AttemptEnds /\ build' = NoBuild
    /\ UNCHANGED <<lock, current, missed, astray, job, env, cmd, saved>>

\* The attempt fails or is cancelled: its candidate is kept elsewhere or not at all, and
\* the working copy goes back to the baseline, which no tool tells the index.
FailAttempt ==
    /\ Ready("tools")
    /\ current' = current \cap committed
    /\ missed' = missed \cup (Files \ committed)
    /\ committed' = Files
    /\ job' = Unseen(Files \ committed)
    /\ project' = base
    /\ AttemptEnds
    /\ UNCHANGED <<lock, tree, astray, language, modules, key, build, cmd, saved>>

-----------------------------------------------------------------------------
(* A change set is judged in a working copy and an environment of its own, *)
(* and lands.                                                              *)

Judge ==
    /\ Ready("idle") /\ spent.attempts < MaxAttempts
    /\ cmd' = Spawn("gate install") /\ build' = NoBuild
    /\ GoTo("dependencies")
    /\ UNCHANGED <<index, env, base, saved, spent>>
\* Without dependencies there is nothing to check.
Prepared ==
    /\ Ready("dependencies")
    /\ IF cmd.code = "ok"
       THEN cmd' = Spawn("check") /\ GoTo("check")
       ELSE cmd' = NoCommand /\ GoTo("idle")
    /\ UNCHANGED <<index, env, build, base, saved, spent>>
\* The check looks for a code the command's result does not have.
Checked ==
    /\ Ready("check")
    /\ GoTo("landing")
    /\ UNCHANGED <<index, sandbox, base, saved, spent>>

\* A squash merge is made in a clean working copy only.
Land ==
    /\ Ready("landing")
    /\ IF committed = Files
       THEN /\ current' = current \ {"source"}
            /\ missed' = missed \cup {"source"} /\ astray' = {}
            /\ tree' = [tree EXCEPT !.of = IF @ = "head" THEN "older" ELSE @]
            /\ job' = [Unseen({"source"}) EXCEPT ![Run] = Job("scan", None, "head")]
       ELSE UNCHANGED <<current, missed, astray, tree, job>>
    /\ cmd' = NoCommand /\ GoTo("idle")
    /\ UNCHANGED <<lock, committed, env, build, base, saved, spent>>

-----------------------------------------------------------------------------
(* publishFileManifest and verifyManifestProvenance. *)

Rescans(from, next, of) ==
    /\ Ready(from)
    /\ Tell("scan", of)
    /\ GoTo(next)
    /\ UNCHANGED <<lock, files, tree, sandbox, base, saved, spent>>
\* The revision is what `git commit' says of it: the first digits of the hash.
CommitArtifact(next) ==
    /\ Snapshot
    /\ Tell("scan", "short")
    /\ GoTo(next)
    /\ UNCHANGED <<lock, current, missed, astray, sandbox, base, saved, spent>>

Publish == Rescans("idle", "document", None)
WriteDocument ==
    /\ Ready("document")
    /\ Untold({"source"})
    /\ GoTo("commit")
    /\ UNCHANGED <<sandbox, base, saved, spent>>
CommitDocument == Ready("commit") /\ CommitArtifact("committed")
Reconcile == Rescans("committed", "probe", "short") \/ Rescans("repaired", "reprobe", "short")

\* A hash cut short is not the whole one HEAD is asked for, whatever is committed: the
\* manifest is repaired each time, and then the tree is marked each time.
Repair == Ready("probe") /\ CommitArtifact("repaired")
Flag ==
    /\ Ready("reprobe")
    /\ Tell("dirty", None)
    /\ GoTo("released")
    /\ UNCHANGED <<lock, files, tree, sandbox, base, saved, spent>>

-----------------------------------------------------------------------------
(* Beside the run. *)

\* The other callers of the index.
Open == flow = "scanned" /\ spent.crashes = 0
Peers == Writers \ {Run}
Call ==
    /\ Open
    /\ \/ \E r \in Readers : Read(r)
       \/ \E w \in Peers : WriteWorkspaceFile(w, "source", {})
    /\ UNCHANGED <<sandbox, desk>>
HasLeft == (\E r \in Readers : HasRead(r)) /\ UNCHANGED <<sandbox, desk>>
Tree(w) == (Acquire(w) \/ Proceeds(w)) /\ UNCHANGED <<sandbox, desk>>

\* The run does without the index of a merge, and ends with an error otherwise.
ScanThrows ==
    /\ Throws(Run)
    /\ GoTo(IF flow = "idle" /\ At(Run, "scan") THEN "idle" ELSE "ended")
    /\ UNCHANGED <<sandbox, base, saved, spent>>

\* The sandbox, and what a package manager writes to the working copy.
SandboxStep ==
    /\ ProgressCheck \/ Progress \/ TimeIsUp \/ LetGo \/ Close \/ BuildStep
       \/ \E code \in {"exit ok", "exit failed", "exit stale"} : ChildExits(code)
    /\ IF project' = project THEN UNCHANGED index ELSE Untold({"manifest"})
    /\ UNCHANGED desk

\* A process that is left, or somebody else, writes to the working copy, at any time (the
\* bound: at a time the index or what is committed is looked at).
Stray ==
    /\ spent.strays < MaxStrays
    /\ (At(Run, "scan") /\ job[Run].seen # {}) \/ flow \in {"commit", "landing"}
    /\ Untold({"source"})
    /\ Spend("strays")
    /\ UNCHANGED <<sandbox, flow, base, saved>>

\* The run ends at any time, and begins again.  An installation is left half done, or
\* its process ends it.  (The bound: it ends in the middle of something, and while no
\* other caller is at the index.)
Amid == cmd.child \/ job[Run].file # None \/ build.at = "seal" \/ flow \in {"commit", "sync", "rebuild", "restore"}
Restart ==
    /\ spent.crashes < MaxCrashes /\ Amid
    /\ Alone /\ woken = <<>>
    /\ activeReaders' = 0 /\ writing' = FALSE
    /\ readerQueue' = {} /\ writerQueue' = <<>> /\ woken' = <<>>
    /\ pc' = [c \in Calls |-> "out"]
    /\ job' = [w \in Writers |-> Nothing]
    /\ IF cmd.child THEN Succeeds \/ Fails ELSE UNCHANGED <<project, modules>>
    /\ LET written == IF project' = project THEN {} ELSE {"manifest"}
       IN  /\ current' = current \ written
           /\ committed' = committed \ written
           /\ missed' = missed \cup {f \in Files : Busy(f)} \cup written
    /\ build' = NoBuild /\ cmd' = NoCommand
    /\ flow' = "start" /\ base' = NoProject /\ saved' = NoProject
    /\ spent' = [spent EXCEPT !.calls = 0, !.crashes = @ + 1]
    /\ UNCHANGED <<tree, astray, language, key>>

RunStep ==
    \/ Start \/ Built \/ Scanned
    \/ BeginAttempt \/ WriteFile \/ ApplyPatch \/ PatchSecond \/ Sync \/ Synced
    \/ AddDependency \/ Rebuild \/ Rebuilt \/ Restore \/ Command
    \/ Deliver \/ Delivered \/ FailAttempt
    \/ Judge \/ Prepared \/ Checked \/ Land
    \/ Publish \/ WriteDocument \/ CommitDocument \/ Reconcile \/ Repair \/ Flag
WNext ==
    \/ RunStep \/ ScanThrows \/ SandboxStep
    \/ Call \/ HasLeft \/ (\E w \in Writers : Tree(w)) \/ (Continue /\ UNCHANGED <<sandbox, desk>>)
    \/ Stray \/ Restart

\* A microtask runs, whoever is inside the lock leaves it, a timer fires, and a child
\* that is gone is reported.  Nobody has to call, and no program has to end.
WFairness ==
    /\ WF_wvars(Continue /\ UNCHANGED <<sandbox, desk>>)
    /\ \A r \in Readers : WF_wvars(HasRead(r) /\ UNCHANGED <<sandbox, desk>>)
    /\ \A w \in Writers : WF_wvars(Proceeds(w) /\ UNCHANGED <<sandbox, desk>>)
    /\ WF_wvars(ProgressCheck /\ UNCHANGED <<index, desk>>)
    /\ WF_wvars(TimeIsUp /\ UNCHANGED <<index, desk>>)
    /\ WF_wvars(Close /\ UNCHANGED <<index, desk>>)

WSpec == WInit /\ [][WNext]_wvars /\ WFairness

-----------------------------------------------------------------------------
\* A tree that says it is HEAD's, and nothing against it, is HEAD's: but for what has
\* changed, with no tool to tell, since the run found nothing uncommitted.  (A run that is
\* still at its start has not looked, and one that has ended with an error may have left a
\* tree it could not mark.)
Going == flow \notin {"start", "built", "scanned", "ended"}
Provenance == Going /\ Free(Run) /\ tree.of = "head" /\ ~ tree.dirty => Files \ committed \subseteq astray

\* A signature is put on file over what it names: the manifest there is, installed whole,
\* and the lockfile there is.
SealIsTrue ==
    [][key' # key => /\ modules' = project'.manifest
                     /\ key' = Signature(project'.manifest, project'.lockfile)]_wvars

\* A command that has a time, or is watched, is over in the end, unless what it has
\* started has its pipes.
CommandEnds == Running /\ cmd.run \notin {"untimed", "validate"} ~> ~ Running \/ cmd.held

\* What lands has passed its checks: "what has to hold before a change lands is that the
\* project still builds and its tests still pass once merged with the mainline".
GateMeansPassed == flow = "landing" => cmd.code = "ok"
=============================================================================
