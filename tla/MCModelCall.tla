----------------------------- MODULE MCModelCall -----------------------------
(***************************************************************************)
(* Three providers: two endpoints, the second an aggregated route, and in  *)
(* between a model of an Ollama server, which may have another besides.    *)
(***************************************************************************)
EXTENDS ModelCall

MCRole == <<"hosted", "local", "route">>
MCSnapshots ==
    {[p \in Providers |-> IF p \in Cluster THEN 5 ELSE 10],
     [p \in Providers |-> IF p = "hosted" THEN 0 ELSE 2]}
MCOverrides ==
    {[p \in Providers |-> Unset], [p \in Providers |-> IF p = "hosted" THEN 0 ELSE Unset]}
=============================================================================
