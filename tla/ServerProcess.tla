---------------------------- MODULE ServerProcess ----------------------------
(***************************************************************************)
(* What the scripts that start a server in the background count on, and no *)
(* more: it may report that it is ready, it may die at any moment, and it  *)
(* dies once it has been told to.  MockServer implements this;             *)
(* IntegrationRun is built on it.                                          *)
(***************************************************************************)
VARIABLE proc   \* "absent", "starting", "ready", "told" (sent a signal) or "gone"

Alive == proc \in {"starting", "ready", "told"}

Init == proc \in {"absent", "starting"}

Launch == proc = "absent" /\ proc' = "starting"

\* The PORT or UNIX line is out, and the server takes connections.
Report == proc = "starting" /\ proc' = "ready"

Tell == proc \in {"starting", "ready"} /\ proc' = "told"

Die == Alive /\ proc' = "gone"

Obey == proc = "told" /\ Die

Next == Launch \/ Report \/ Tell \/ Die

FairSpec == Init /\ [][Next]_proc /\ WF_proc(Obey)
=============================================================================
