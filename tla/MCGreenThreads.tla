--------------------------- MODULE MCGreenThreads ---------------------------
(* Instances of GreenThreads for TLC.                                      *)
EXTENDS GreenThreads

(* Threads share a descriptor; or each has its own, and some collide in    *)
(* the poll map: 4 and 7 are one modulo 3.                                 *)
SharedOrColliding ==
  {[fds |-> {4}, livefs |-> FALSE], [fds |-> {4, 5, 7}, livefs |-> TRUE]}
=============================================================================
