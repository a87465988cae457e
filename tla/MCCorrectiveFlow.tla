-------------------------- MODULE MCCorrectiveFlow --------------------------
(***************************************************************************)
(* A Phase of two source Steps and the two that verify them, for TLC.      *)
(***************************************************************************)
EXTENDS CorrectiveFlow

\* A source Step fails on its own work or on what it was given, a verification on
\* either source or on its own tests (the last one's own tests excepted: nothing is
\* downstream of them).
MCFailures ==
    {<<1, 1>>, <<2, 2>>, <<2, 1>>, <<3, 3>>, <<3, 2>>, <<3, 1>>, <<4, 1>>, <<4, 2>>}

\* A Change Request fails on the source it was opened at, or on the Step before.
MCHopFailures == {<<2, 1>>, <<2, 2>>, <<3, 2>>}

\* Only of a Bug that waits where it was found.
MCRecurs == {FALSE}

\* The windows a crash is recovered from.
MCCrashAt ==
    {"start", "attempt", "park", "stop", "deliver", "deliver story", "close pair story",
     "verify pair", "propose", "await", "open", "record", "close source", "wake", "close stories",
     "reclaim", "suspend", "break cycles", "drop", "reconcile", "restore", "activate all"}
=============================================================================
