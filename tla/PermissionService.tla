-------------------------- MODULE PermissionService --------------------------
(***************************************************************************)
(* Who may leave the project: the decisions of one run, by the capability  *)
(* they are about (src/application/project_management/                     *)
(* permission_service.ts).  What stays inside the project is approved      *)
(* without a question and is not here; what the client is asked is in      *)
(* AcpSession.                                                             *)
(***************************************************************************)
VARIABLES
    cache           \* the decision on each capability

\* What the tools of a Step reach outside for.
Capabilities == {"network", "registry"}
Capability(tool) == IF tool = "fetch" THEN "network" ELSE "registry"
Decisions == {"approved", "denied", "timed_out"}

Undecided == [c \in Capabilities |-> "none"]

PermissionInit == cache = Undecided

Decided(c) == cache[c] # "none"
Allows(c) == cache[c] = "approved"

\* (mutant) what timed out is asked for again.
RememberAnswers(c, decision) ==
    cache' = IF decision = "timed_out" THEN cache ELSE [cache EXCEPT ![c] = decision]

\* A decision stands for the rest of the run, a timeout like a denial.  A request that
\* is rejected instead leaves nothing.
Remember(c, decision) == cache' = [cache EXCEPT ![c] = decision]

\* Each run has a service of its own.
Forget == cache' = Undecided
=============================================================================
