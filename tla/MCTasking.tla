----------------------------- MODULE MCTasking -----------------------------
(* The instances of Tasking that TLC checks.                               *)
EXTENDS TaskingRoundRobin

CONSTANT Watched        \* the blocks whose processes the liveness check follows

ASSUME WatchedAssumption == Watched \subseteq Slots

\* One process late_init does not wait for, then one it does.
MCStarts   == <<FALSE, TRUE>>
\* Like late_init's own script: several, the last of them awaited.
BootStarts == <<FALSE, FALSE, TRUE>>

(* No process that is linked waits for ever to run again.  The blocks      *)
(* other than kIdle's are alike, so that following one of them follows all.*)
NobodyStarves == \A s \in Watched : Runs(s)
=============================================================================
