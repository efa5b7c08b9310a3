----------------------- MODULE MCGitCommandScheduler -----------------------
(***************************************************************************)
(* Instances of GitCommandScheduler for TLC.                               *)
(***************************************************************************)
EXTENDS GitCommandScheduler, TLC

CONSTANTS c1, c2, c3, c4

\* The smallest limits that keep the better limit below the total.
UnitLimits == [p \in Priority |-> 1]

-----------------------------------------------------------------------------
(* The specification treats all commands alike, so that what holds of one   *)
(* command holds of each; the liveness checks follow c1 through every life  *)
(* it has.                                                                  *)

\* acquire does not starve a userInteractive or visible command.
InteractiveAndVisibleServed == Served(c1)

\* acquire starves a background command only behind a queue of better ones.
BackgroundStarvedOnlyByQueue == StarvedOnlyByQueue(c1)
=============================================================================
