----------------------------- MODULE MCRemote ------------------------------
(* Instances of RemoteSemaphore for TLC. *)
EXTENDS RemoteSemaphore

CONSTANTS r1, r2, n1, n2

\* Both remote tasks are on one node; a second node takes part in the announcements.
OneNode == (r1 :> n1) @@ (r2 :> n1)
=============================================================================
