------------------------------- MODULE Sandbox -------------------------------
(***************************************************************************)
(* The environment a project is built and run in, and the commands that    *)
(* are run there (src/sandbox/subprocess.ts, src/sandbox/docker.ts).       *)
(*                                                                         *)
(* Of a dependency set the model keeps which one it is.  The manifest      *)
(* names one, the lockfile pins one, and what is installed is one, part of *)
(* one, or nothing.  The signature of the last installation that succeeded *)
(* is a file beside the environment, and a later build goes by it.         *)
(*                                                                         *)
(* A command is a child with two pipes: it is over when the child is gone  *)
(* and nobody holds the pipes any more.  An installation is killed when    *)
(* nothing it is watched by has grown for a while, anything else when its  *)
(* time is up, if it has been given a time.                                *)
(***************************************************************************)
EXTENDS Naturals

CONSTANTS
    Fresh,          \* the languages of projects that have no manifest at first
    Begun,          \* the languages of projects that have one
    MaxIdle,        \* the checks without growth after which a child is killed
    MaxGrowth       \* how often what is watched can grow (a bound)

VARIABLES
    language,       \* the language of the project
    project,        \* the manifest and the lockfile
    modules,        \* what is installed
    key,            \* the signature on file
    build,          \* a build under way, or its outcome
    cmd             \* the command under way, or its outcome

sandbox == <<language, project, modules, key, build, cmd>>
env == <<language, project, modules, key>>

NoBuild == [at |-> "none", refresh |-> FALSE, manifest |-> "none"]
NoCommand == [run |-> "none", child |-> FALSE, held |-> FALSE, idle |-> 0, grown |-> 0, code |-> "none"]

TypeScript == language = "typescript"
Installs == {"ci", "install", "deps"}
Watched == cmd.run \in Installs \cup {"gate install"}
ByTools == {"program", "untimed", "deps"}
Timed == cmd.run \in {"program", "check"}
Running == cmd.run # "none" /\ cmd.code \notin {"ok", "failed", "stale"}

NoProject == [manifest |-> "none", lockfile |-> "none"]

SandboxInit ==
    /\ \/ language \in Fresh /\ project = NoProject
       \/ language \in Begun /\ project = [NoProject EXCEPT !.manifest = "first"]
    /\ modules = "absent" /\ key = <<>>
    /\ build = NoBuild /\ cmd = NoCommand

-----------------------------------------------------------------------------
(* execRaw. *)

Spawn(run) == [NoCommand EXCEPT !.run = run, !.child = TRUE]

\* What an installation leaves, by how it ends.  `ci' asks for a lockfile that fits,
\* and removes what is installed before it begins; `install' writes the lockfile.
OutOfSync == project.lockfile # project.manifest
Succeeds ==
    CASE cmd.run = "ci" -> ~ OutOfSync /\ modules' = project.manifest /\ UNCHANGED project
      [] cmd.run = "install" -> modules' = project.manifest /\ project' = [project EXCEPT
             !.lockfile = IF TypeScript THEN project.manifest ELSE @]
      [] cmd.run = "deps" -> modules' = "second" /\ project' = IF TypeScript
             THEN [manifest |-> "second", lockfile |-> "second"] ELSE project
      [] cmd.run = "validate" -> ~ OutOfSync /\ UNCHANGED <<project, modules>>
      [] OTHER -> UNCHANGED <<project, modules>>
Fails ==
    /\ CASE cmd.run = "ci" -> modules' \in {"absent", "part"}
         [] cmd.run \in Installs -> modules' \in {modules, "part"}
         [] OTHER -> UNCHANGED modules
    /\ UNCHANGED project

\* The child ends by itself.  A program may leave a process that has the pipes.
ChildExits(code) ==
    /\ cmd.child
    /\ CASE code = "exit ok" -> Succeeds
         [] code = "exit stale" -> cmd.run = "ci" /\ OutOfSync /\ UNCHANGED <<project, modules>>
         [] code = "exit failed" -> Fails
    /\ \E held \in IF cmd.run \in {"program", "untimed", "check", "deps"} THEN BOOLEAN ELSE {FALSE} :
           cmd' = [cmd EXCEPT !.child = FALSE, !.held = held, !.code = code]
    /\ UNCHANGED <<language, key, build>>

\* (mutant) A child whose time is up is reported and not killed.
KillNothing == UNCHANGED <<cmd, project, modules>>
\* The signal goes to the child: what the child has started stays, and has the pipes.
Kill ==
    /\ Fails
    /\ \E held \in BOOLEAN : cmd' = [cmd EXCEPT !.child = FALSE, !.held = held, !.code = "exit failed"]

TimeIsUp ==
    /\ cmd.child /\ Timed
    /\ Kill
    /\ UNCHANGED <<language, key, build>>

\* checkProgress.
ProgressCheck ==
    /\ cmd.child /\ Watched
    /\ IF cmd.idle = MaxIdle
       THEN Kill
       ELSE /\ cmd' = [cmd EXCEPT !.idle = @ + 1]
            /\ UNCHANGED <<project, modules>>
    /\ UNCHANGED <<language, key, build>>
Progress ==
    /\ cmd.child /\ Watched /\ cmd.grown < MaxGrowth
    /\ cmd' = [cmd EXCEPT !.idle = 0, !.grown = @ + 1]
    /\ UNCHANGED <<env, build>>

LetGo ==
    /\ cmd.held
    /\ cmd' = [cmd EXCEPT !.held = FALSE]
    /\ UNCHANGED <<env, build>>

\* The `close' of the child.  What a tool is told of its command is not kept.
Outcome == CASE cmd.code = "exit ok" -> "ok"
             [] cmd.code = "exit stale" -> "stale"
             [] cmd.code = "exit failed" -> "failed"
Close ==
    /\ Running /\ ~ cmd.child /\ ~ cmd.held
    /\ cmd' = IF cmd.run \in ByTools THEN NoCommand
              ELSE [NoCommand EXCEPT !.run = cmd.run, !.code = Outcome]
    /\ UNCHANGED <<env, build>>
Ended(codes) == cmd.run # "none" /\ cmd.code \in codes

-----------------------------------------------------------------------------
(* build. *)

BuildDone == build.at \in {"none", "ok", "failed"}
StartBuild(refresh) ==
    /\ build' = [at |-> "probe", refresh |-> refresh /\ TypeScript, manifest |-> project.manifest]
    /\ cmd' = NoCommand

\* The Python environment goes by its manifest alone.
Signature(manifest, lockfile) == IF TypeScript THEN <<manifest, lockfile>> ELSE <<manifest>>
CacheHit == modules # "absent" /\ key = Signature(project.manifest, project.lockfile)

\* (mutant) The signature is written when the installation begins.
ProbeAndSeal ==
    /\ build.at = "probe"
    /\ IF (TypeScript /\ project.manifest = "none") \/ CacheHit
       THEN build' = [NoBuild EXCEPT !.at = "ok"] /\ UNCHANGED <<cmd, key>>
       ELSE /\ build' = [build EXCEPT !.at = "install"]
            /\ cmd' = Spawn(IF TypeScript /\ project.lockfile # "none" /\ ~ build.refresh THEN "ci" ELSE "install")
            /\ key' = Signature(project.manifest, project.lockfile)
    /\ UNCHANGED <<language, project, modules>>
Probe ==
    /\ build.at = "probe"
    /\ \/ /\ (TypeScript /\ project.manifest = "none") \/ CacheHit
          /\ build' = [NoBuild EXCEPT !.at = "ok"]
          /\ UNCHANGED cmd
       \/ /\ ~ (TypeScript /\ project.manifest = "none") /\ ~ CacheHit
          /\ build' = [build EXCEPT !.at = "install"]
          /\ cmd' = Spawn(IF TypeScript /\ project.lockfile # "none" /\ ~ build.refresh
                          THEN "ci" ELSE "install")
       \/ \* no interpreter, no daemon, no image, no venv
          /\ build' = [NoBuild EXCEPT !.at = "failed"]
          /\ UNCHANGED cmd
    /\ UNCHANGED env

\* installRetryArgs: the sandbox of subprocesses asks for another installation, the one of
\* containers does not.
Retry ==
    /\ build.at = "install" /\ Ended({"stale"})
    /\ cmd' = Spawn("install")
    /\ UNCHANGED <<env, build>>

Installed ==
    /\ build.at = "install" /\ Ended({"ok"})
    /\ IF build.refresh
       THEN build' = [build EXCEPT !.at = "validate"] /\ cmd' = Spawn("validate")
       ELSE build' = [build EXCEPT !.at = "seal"] /\ cmd' = NoCommand
    /\ UNCHANGED env
Validated ==
    /\ build.at = "validate" /\ Ended({"ok"})
    /\ build' = [build EXCEPT !.at = "seal"]
    /\ cmd' = NoCommand
    /\ UNCHANGED env
Seal ==
    /\ build.at = "seal"
    /\ key' = Signature(build.manifest, project.lockfile)
    /\ build' = [NoBuild EXCEPT !.at = "ok"]
    /\ UNCHANGED <<language, project, modules, cmd>>
BuildFails ==
    /\ build.at \in {"install", "validate"}
    /\ Ended({"failed", "stale"})
    /\ build' = [NoBuild EXCEPT !.at = "failed"]
    /\ cmd' = NoCommand
    /\ UNCHANGED env

BuildStep == Probe \/ Retry \/ Installed \/ Validated \/ Seal \/ BuildFails
=============================================================================
